-------------------------- MODULE Background_proofs --------------------------
(***************************************************************************)
(* Proofs about what the daemon does beside playback: that the latest      *)
(* queue reaches the disk (QueuePersistence), and of the sessions of       *)
(* MCBackground that the cache is sound, no play counts twice, and the     *)
(* copy of the library agrees with the server, for any number of edits,    *)
(* songs, folders, ratings, operations and faults.                         *)
(***************************************************************************)
EXTENDS MCBackground, SequenceTheorems, FiniteSetTheorems, TLAPS

(***************************************************************************)
(* The queue on disk (QueuePersistence).                                   *)
(***************************************************************************)

SaverLabels == {"wait", "sleep", "stopped", "snapshot", "open", "write", "rename"}

CloserLabels == {"running", "snapshot", "open", "write", "rename", "remove",
                 "leave", "exited", "down"}

(***************************************************************************)
(* The inductive invariant.  Counters first: a handler that still has to   *)
(* poke made an edit, and every queue, in memory or on disk, is some edit's. *)
(***************************************************************************)
Counted ==
    /\ unscheduled <= edits
    /\ queue <= edits
    /\ \A w \in Writers : snapshot[w] <= edits
    /\ \A i \in Inodes : content[i] <= edits

(* Who can be where, and that a writer has a file open while it writes.    *)
Placed ==
    /\ pc[Saver] \in SaverLabels
    /\ pc[Closer] \in CloserLabels
    /\ \A w \in Writers : pc[w] = "write" => fd[w] \in Inodes
    /\ pc[Saver] = "stopped" => shutdown
    /\ ~shutdown => pc[Closer] \in {"running", "down"}

(* The temporary file is never the queue's file. *)
Apart == tmp # NoInode => tmp # file

(* Until the shutdown sequence starts the save task is alone: the file it  *)
(* has open is the temporary file, and holds what it should.               *)
Alone ==
    pc[Closer] = "running" =>
        /\ pc[Saver] \in {"write", "rename"} => tmp # NoInode /\ fd[Saver] = tmp
        /\ pc[Saver] = "write" => content[tmp] = Empty
        /\ pc[Saver] = "rename" => content[tmp] = snapshot[Saver]

(* ... and versions only grow on their way from memory to the disk.        *)
Growing ==
    pc[Closer] = "running" =>
        /\ OnDisk <= queue
        /\ pc[Saver] \in {"open", "write", "rename"} =>
              OnDisk <= snapshot[Saver] /\ snapshot[Saver] <= queue

(* The latest queue is always on its way: a handler will poke, a poke is   *)
(* in the channel, or the task has yet to read the state, or is writing    *)
(* what it read, or has written it.                                        *)
OnItsWay ==
    Running /\ ~shutdown /\ unscheduled = 0 /\ ~signal =>
        \/ pc[Saver] \in {"sleep", "snapshot"}
        \/ pc[Saver] \in {"open", "write", "rename"} /\ snapshot[Saver] = queue
        \/ pc[Saver] = "wait" /\ (write_failed \/ OnDisk = queue)

Inv ==
    /\ TypeOK
    /\ Counted
    /\ Placed
    /\ Apart
    /\ Alone
    /\ Growing
    /\ OnItsWay

USE QueuePersistenceAssumption
-----------------------------------------------------------------------------
(* What is on disk is an edit's queue, and depends on the file only.       *)
LEMMA OnDiskInRange == TypeOK => OnDisk \in Versions
  BY DEF TypeOK, OnDisk, Readable, Versions

LEMMA InvInit == Init => Inv
<1> SUFFICES ASSUME Init PROVE Inv
  OBVIOUS
<1>1. TypeOK
  <2>1. 0 \in Versions
    BY DEF Versions
  <2>2. pc \in [Writers -> Labels]
    BY DEF Init, Labels
  <2>3. content \in [Inodes -> Versions \union {Empty, Torn}]
    BY DEF Init
  <2> QED BY <2>1, <2>2, <2>3 DEF Init, TypeOK
<1>2. OnDisk = 0
  BY DEF Init, OnDisk, Readable
<1>3. Counted
  BY DEF Init, Counted, Empty
<1>4. Placed /\ Apart
  BY DEF Init, Placed, Apart, Writers, SaverLabels, CloserLabels
<1>5. Alone /\ Growing /\ OnItsWay
  BY <1>2 DEF Init, Alone, Growing, OnItsWay, Writers
<1> QED BY <1>1, <1>3, <1>4, <1>5 DEF Inv
-----------------------------------------------------------------------------
(* Steps that leave the disk and what is being written alone.              *)
LEMMA EditCommitsStep == Inv /\ EditCommits => Inv'
<1> SUFFICES ASSUME Inv, EditCommits PROVE Inv'
  OBVIOUS
<1> USE DEF Inv, EditCommits, diskVars
<1>1. TypeOK'
  BY DEF TypeOK, Counted, Versions
<1>2. OnDisk' = OnDisk
  BY DEF OnDisk, Readable
<1>3. OnDisk \in Versions
  BY OnDiskInRange
<1>4. Counted'
  <2>1. \A w \in Writers : snapshot[w] \in Versions
    BY DEF TypeOK
  <2>2. \A i \in Inodes : content[i] \in Versions \union {Empty, Torn}
    BY DEF TypeOK
  <2> QED BY <2>1, <2>2 DEF TypeOK, Counted, Versions, Empty, Torn
<1>5. Placed' /\ Apart' /\ Alone'
  BY DEF Placed, Apart, Alone
<1>6. Growing'
  BY <1>2, <1>3 DEF TypeOK, Counted, Growing, Versions, Writers
<1>7. OnItsWay'
  BY DEF TypeOK, OnItsWay, Versions
<1> QED BY <1>1, <1>4, <1>5, <1>6, <1>7

LEMMA set_resume_on_startStep == Inv /\ set_resume_on_start => Inv'
<1> SUFFICES ASSUME Inv, set_resume_on_start PROVE Inv'
  OBVIOUS
<1> USE DEF Inv, set_resume_on_start, editVars, diskVars, Goto
<1>1. TypeOK'
  BY DEF TypeOK, Writers, Labels
<1>2. OnDisk' = OnDisk
  BY DEF OnDisk, Readable
<1>3. Counted' /\ Placed' /\ Apart'
  BY DEF TypeOK, Counted, Placed, Apart, Writers, SaverLabels, CloserLabels, Labels
<1>4. Alone'
  BY DEF TypeOK, Alone, Placed, Writers, SaverLabels
<1>5. Growing'
  BY <1>2 DEF TypeOK, Growing, Placed, Writers, SaverLabels
<1>6. OnItsWay'
  BY <1>2 DEF TypeOK, OnItsWay, Placed, Running, Writers, SaverLabels, CloserLabels
<1> QED BY <1>1, <1>3, <1>4, <1>5, <1>6

LEMMA SaverWakesStep == Inv /\ SaverWakes => Inv'
<1> SUFFICES ASSUME Inv, SaverWakes PROVE Inv'
  OBVIOUS
<1> USE DEF Inv, SaverWakes, editVars, diskVars, Goto
<1>1. TypeOK'
  BY DEF TypeOK, Writers, Labels
<1>2. OnDisk' = OnDisk
  BY DEF OnDisk, Readable
<1>3. Counted' /\ Placed' /\ Apart'
  BY DEF TypeOK, Counted, Placed, Apart, Writers, SaverLabels, CloserLabels, Labels
<1>4. Alone'
  BY DEF TypeOK, Alone, Placed, Writers, SaverLabels
<1>5. Growing'
  BY <1>2 DEF TypeOK, Growing, Placed, Writers, SaverLabels
<1>6. OnItsWay'
  BY <1>2 DEF TypeOK, OnItsWay, Placed, Running, Writers, SaverLabels, CloserLabels
<1> QED BY <1>1, <1>3, <1>4, <1>5, <1>6

LEMMA SaverDrainsStep == Inv /\ SaverDrains => Inv'
<1> SUFFICES ASSUME Inv, SaverDrains PROVE Inv'
  OBVIOUS
<1> USE DEF Inv, SaverDrains, editVars, diskVars, Goto
<1>1. TypeOK'
  BY DEF TypeOK, Writers, Labels
<1>2. OnDisk' = OnDisk
  BY DEF OnDisk, Readable
<1>3. Counted' /\ Placed' /\ Apart'
  BY DEF TypeOK, Counted, Placed, Apart, Writers, SaverLabels, CloserLabels, Labels
<1>4. Alone'
  BY DEF TypeOK, Alone, Placed, Writers, SaverLabels
<1>5. Growing'
  BY <1>2 DEF TypeOK, Growing, Placed, Writers, SaverLabels
<1>6. OnItsWay'
  BY <1>2 DEF TypeOK, OnItsWay, Placed, Running, Writers, SaverLabels, CloserLabels
<1> QED BY <1>1, <1>3, <1>4, <1>5, <1>6

LEMMA request_shutdownStep == Inv /\ request_shutdown => Inv'
<1> SUFFICES ASSUME Inv, request_shutdown PROVE Inv'
  OBVIOUS
<1> USE DEF Inv, request_shutdown, editVars, diskVars, Goto
<1>1. TypeOK'
  BY DEF TypeOK, Writers, Labels
<1>2. OnDisk' = OnDisk
  BY DEF OnDisk, Readable
<1>3. Counted' /\ Placed' /\ Apart'
  BY DEF TypeOK, Counted, Placed, Apart, Writers, SaverLabels, CloserLabels, Labels
<1>4. Alone'
  BY DEF TypeOK, Alone, Placed, Writers, SaverLabels
<1>5. Growing'
  BY <1>2 DEF TypeOK, Growing, Placed, Writers, SaverLabels
<1>6. OnItsWay'
  BY <1>2 DEF TypeOK, OnItsWay, Placed, Running, Writers, SaverLabels, CloserLabels
<1> QED BY <1>1, <1>3, <1>4, <1>5, <1>6

LEMMA ShutdownDecidesStep == Inv /\ ShutdownDecides => Inv'
<1> SUFFICES ASSUME Inv, ShutdownDecides PROVE Inv'
  OBVIOUS
<1> USE DEF Inv, ShutdownDecides, editVars, diskVars, Goto
<1>1. TypeOK'
  BY DEF TypeOK, Writers, Labels
<1>2. OnDisk' = OnDisk
  BY DEF OnDisk, Readable
<1>3. Counted' /\ Placed' /\ Apart'
  BY DEF TypeOK, Counted, Placed, Apart, Writers, SaverLabels, CloserLabels, Labels
<1>4. Alone'
  BY DEF TypeOK, Alone, Placed, Writers, SaverLabels
<1>5. Growing'
  BY <1>2 DEF TypeOK, Growing, Placed, Writers, SaverLabels
<1>6. OnItsWay'
  BY <1>2 DEF TypeOK, OnItsWay, Placed, Running, Writers, SaverLabels, CloserLabels
<1> QED BY <1>1, <1>3, <1>4, <1>5, <1>6

LEMMA ExitStep == Inv /\ Exit => Inv'
<1> SUFFICES ASSUME Inv, Exit PROVE Inv'
  OBVIOUS
<1> USE DEF Inv, Exit, editVars, diskVars, Goto
<1>1. TypeOK'
  BY DEF TypeOK, Writers, Labels
<1>2. OnDisk' = OnDisk
  BY DEF OnDisk, Readable
<1>3. Counted' /\ Placed' /\ Apart'
  BY DEF TypeOK, Counted, Placed, Apart, Writers, SaverLabels, CloserLabels, Labels
<1>4. Alone'
  BY DEF TypeOK, Alone, Placed, Writers, SaverLabels
<1>5. Growing'
  BY <1>2 DEF TypeOK, Growing, Placed, Writers, SaverLabels
<1>6. OnItsWay'
  BY <1>2 DEF TypeOK, OnItsWay, Placed, Running, Writers, SaverLabels, CloserLabels
<1> QED BY <1>1, <1>3, <1>4, <1>5, <1>6

LEMMA CrashStep == Inv /\ Crash => Inv'
<1> SUFFICES ASSUME Inv, Crash PROVE Inv'
  OBVIOUS
<1> USE DEF Inv, Crash, editVars, diskVars, Goto
<1>1. TypeOK'
  BY DEF TypeOK, Writers, Labels
<1>2. OnDisk' = OnDisk
  BY DEF OnDisk, Readable
<1>3. Counted' /\ Placed' /\ Apart'
  BY DEF TypeOK, Counted, Placed, Apart, Writers, SaverLabels, CloserLabels, Labels
<1>4. Alone'
  BY DEF TypeOK, Alone, Placed, Writers, SaverLabels
<1>5. Growing'
  BY <1>2 DEF TypeOK, Growing, Placed, Writers, SaverLabels
<1>6. OnItsWay'
  BY <1>2 DEF TypeOK, OnItsWay, Placed, Running, Writers, SaverLabels, CloserLabels
<1> QED BY <1>1, <1>3, <1>4, <1>5, <1>6

LEMMA schedule_queue_saveStep == Inv /\ schedule_queue_save => Inv'
<1> SUFFICES ASSUME Inv, schedule_queue_save PROVE Inv'
  OBVIOUS
<1> USE DEF Inv, schedule_queue_save, diskVars
<1>1. TypeOK'
  BY DEF TypeOK, Versions
<1>2. OnDisk' = OnDisk
  BY DEF OnDisk, Readable
<1>3. Counted' /\ Placed' /\ Apart' /\ Alone'
  BY DEF TypeOK, Counted, Placed, Apart, Alone, Versions
<1>4. Growing'
  BY <1>2 DEF Growing
<1>5. OnItsWay'
  BY DEF OnItsWay
<1> QED BY <1>1, <1>3, <1>4, <1>5
-----------------------------------------------------------------------------
(* The steps of a save.  Before the shutdown sequence only the save task   *)
(* makes them; after it the invariant says little, and the shutdown flag   *)
(* is up.                                                                  *)
LEMMA SnapshotStep ==
    ASSUME Inv, NEW w \in Writers, snapshot_from_state(w)
    PROVE  Inv'
<1> USE DEF Inv, snapshot_from_state, editVars, diskVars, Goto
<1>1. TypeOK'
  BY DEF TypeOK, Writers, Labels
<1>2. OnDisk' = OnDisk
  BY DEF OnDisk, Readable
<1>3. Counted' /\ Placed' /\ Apart'
  BY DEF TypeOK, Counted, Placed, Apart, Writers, SaverLabels, CloserLabels, Labels
<1>4. Alone'
  BY DEF TypeOK, Alone, Writers
<1>5. Growing'
  <2>1. queue <= queue
    BY DEF TypeOK, Versions
  <2> QED BY <1>2, <2>1 DEF TypeOK, Growing, Writers
<1>6. OnItsWay'
  BY <1>2 DEF TypeOK, OnItsWay, Placed, Running, Writers, SaverLabels, CloserLabels
<1> QED BY <1>1, <1>3, <1>4, <1>5, <1>6

LEMMA OpenStep ==
    ASSUME Inv, NEW w \in Writers, Open(w)
    PROVE  Inv'
<1>a. open_temporary(w)
  BY DEF Open
<1> PICK i \in Inodes :
       /\ i = tmp \/ (tmp = NoInode /\ i \notin {file, fd[Saver], fd[Closer]})
       /\ tmp' = i
       /\ UNCHANGED file
       /\ fd' = [fd EXCEPT ![w] = i]
       /\ content' = [content EXCEPT ![i] = Empty]
  BY <1>a DEF open_temporary
<1> USE DEF Inv, Open, editVars, Goto
<1>1. TypeOK'
  <2>1. pc' \in [Writers -> Labels]
    BY DEF TypeOK, Labels
  <2>2. fd' \in [Writers -> Inodes \union {NoInode}]
    BY DEF TypeOK
  <2>3. content' \in [Inodes -> Versions \union {Empty, Torn}]
    BY DEF TypeOK
  <2> QED BY <2>1, <2>2, <2>3 DEF TypeOK
<1>2. file # NoInode => i # file
  BY DEF Apart
<1>3. OnDisk' = OnDisk
  BY <1>2 DEF TypeOK, OnDisk, Readable
<1> Counted'
  BY DEF TypeOK, Counted, Versions, Empty
<1>4. Placed' /\ Apart'
  BY <1>2 DEF TypeOK, Placed, Apart, Writers, SaverLabels, CloserLabels, Labels
<1>5. Alone'
  BY DEF TypeOK, Alone, Placed, Writers, CloserLabels
<1>6. Growing'
  BY <1>3 DEF TypeOK, Growing, Writers
<1>7. OnItsWay'
  BY <1>3 DEF TypeOK, OnItsWay, Placed, Running, Writers, SaverLabels, CloserLabels
<1> QED BY <1>1, <1>4, <1>5, <1>6, <1>7

LEMMA WriteStep ==
    ASSUME Inv, NEW w \in Writers, Running, Write(w)
    PROVE  Inv'
<1> USE DEF Inv, Write, editVars, Goto
<1> PICK result \in (IF content[fd[w]] \in {Empty, snapshot[w]} THEN {snapshot[w]}
                     ELSE {snapshot[w], Torn}) :
       content' = [content EXCEPT ![fd[w]] = result]
  OBVIOUS
<1>1. TypeOK'
  <2>1. pc' \in [Writers -> Labels]
    BY DEF TypeOK, Labels
  <2>2. content' \in [Inodes -> Versions \union {Empty, Torn}]
    BY DEF TypeOK
  <2> QED BY <2>1, <2>2 DEF TypeOK
<1> Counted'
  BY DEF TypeOK, Counted, Versions, Torn
<1>2. Placed' /\ Apart'
  BY DEF TypeOK, Placed, Apart, Writers, SaverLabels, CloserLabels, Labels
<1>3. CASE pc[Closer] = "running"
  <2>1. /\ w = Saver
        /\ fd[w] = tmp /\ tmp \in Inodes
        /\ content[tmp] = Empty
    BY <1>3 DEF TypeOK, Alone, Writers
  <2>2. result = snapshot[Saver]
    BY <2>1
  <2>3. content'[tmp] = snapshot[Saver]
    BY <2>1, <2>2 DEF TypeOK
  <2>4. OnDisk' = OnDisk
    BY <2>1 DEF TypeOK, Apart, OnDisk, Readable
  <2>5. Alone'
    BY <2>1, <2>3 DEF TypeOK, Alone, Writers
  <2>6. Growing'
    BY <2>1, <2>4 DEF TypeOK, Growing, Writers
  <2>7. OnItsWay'
    BY <2>1, <2>4 DEF TypeOK, OnItsWay, Running, Writers
  <2> QED BY <1>1, <1>2, <2>5, <2>6, <2>7
<1>4. CASE pc[Closer] # "running"
  <2>1. shutdown
    BY <1>4 DEF Placed, Running
  <2>2. pc'[Closer] # "running"
    BY <1>4 DEF TypeOK, Writers
  <2> QED BY <1>1, <1>2, <2>1, <2>2 DEF Alone, Growing, OnItsWay
<1> QED BY <1>3, <1>4

LEMMA WriteFailsStep ==
    ASSUME Inv, NEW w \in Writers, Running, WriteFails(w)
    PROVE  Inv'
<1> USE DEF Inv, WriteFails, AfterSave, editVars, Goto
<1>1. TypeOK'
  <2>1. pc' \in [Writers -> Labels]
    BY DEF TypeOK, Labels
  <2>2. fd' \in [Writers -> Inodes \union {NoInode}]
    BY DEF TypeOK
  <2>3. write_failed' \in BOOLEAN
    BY DEF TypeOK
  <2> QED BY <2>1, <2>2, <2>3 DEF TypeOK
<1>2. OnDisk' = OnDisk
  BY DEF OnDisk, Readable
<1>3. Counted' /\ Placed' /\ Apart'
  BY DEF TypeOK, Counted, Placed, Apart, Writers, SaverLabels, CloserLabels, Labels
<1>4. CASE pc[Closer] = "running"
  <2>1. w = Saver
    BY <1>4 DEF Writers
  <2>2. pc'[Saver] = "wait"
    BY <2>1 DEF TypeOK, Writers
  <2>3. write_failed'
    BY <2>1
  <2>4. Alone' /\ Growing'
    BY <1>2, <1>4, <2>2 DEF Alone, Growing
  <2>5. OnItsWay'
    BY <2>2, <2>3 DEF OnItsWay
  <2> QED BY <1>1, <1>3, <2>4, <2>5
<1>5. CASE pc[Closer] # "running"
  <2>1. shutdown
    BY <1>5 DEF Placed, Running
  <2>2. pc'[Closer] # "running"
    BY <1>5 DEF TypeOK, Writers
  <2> QED BY <1>1, <1>3, <2>1, <2>2 DEF Alone, Growing, OnItsWay
<1> QED BY <1>4, <1>5

LEMMA RenameStep ==
    ASSUME Inv, NEW w \in Writers, Running, Rename(w)
    PROVE  Inv' /\ (pc[Closer] = "running" => OnDisk' >= OnDisk)
<1> USE DEF Inv, Rename, AfterSave, editVars, Goto
<1>1. TypeOK'
  <2>1. pc' \in [Writers -> Labels]
    BY DEF TypeOK, Labels
  <2>2. fd' \in [Writers -> Inodes \union {NoInode}]
    BY DEF TypeOK
  <2>3. write_failed' \in BOOLEAN
    BY DEF TypeOK
  <2>4. file' \in Inodes \union {NoInode}
    BY DEF TypeOK
  <2> QED BY <2>1, <2>2, <2>3, <2>4 DEF TypeOK
<1>2. Counted' /\ Placed' /\ Apart'
  BY DEF TypeOK, Counted, Placed, Apart, Writers, SaverLabels, CloserLabels, Labels
<1>3. CASE pc[Closer] = "running"
  <2>1. /\ w = Saver
        /\ tmp \in Inodes
        /\ content[tmp] = snapshot[Saver]
        /\ snapshot[Saver] \in Versions
    BY <1>3 DEF TypeOK, Alone, Writers
  <2>2. OnDisk' = snapshot[Saver]
    BY <2>1 DEF OnDisk, Readable
  <2>3. OnDisk <= snapshot[Saver] /\ snapshot[Saver] <= queue
    BY <1>3, <2>1 DEF Growing
  <2>4. pc'[Saver] = "wait"
    BY <2>1 DEF TypeOK, Writers
  <2>5. Alone' /\ Growing'
    BY <2>2, <2>3, <2>4 DEF Alone, Growing
  <2>6. OnItsWay'
    BY <2>1, <2>2, <2>4, <1>3 DEF OnItsWay, Running
  <2>7. OnDisk' >= OnDisk
    BY <2>1, <2>2, <2>3, OnDiskInRange DEF Versions
  <2> QED BY <1>1, <1>2, <2>5, <2>6, <2>7
<1>4. CASE pc[Closer] # "running"
  <2>1. shutdown
    BY <1>4 DEF Placed, Running
  <2>2. pc'[Closer] # "running"
    BY <1>4 DEF TypeOK, Writers
  <2> QED BY <1>1, <1>2, <1>4, <2>1, <2>2 DEF Alone, Growing, OnItsWay
<1> QED BY <1>3, <1>4
-----------------------------------------------------------------------------
LEMMA removeStep == Inv /\ remove => Inv'
<1> SUFFICES ASSUME Inv, remove PROVE Inv'
  OBVIOUS
<1> USE DEF Inv, remove, editVars, Goto
<1>1. TypeOK'
  BY DEF TypeOK, Writers, Labels
<1>2. shutdown /\ pc'[Closer] # "running"
  BY DEF TypeOK, Placed, Writers
<1>3. Counted' /\ Placed' /\ Apart'
  BY DEF TypeOK, Counted, Placed, Apart, Writers, SaverLabels, CloserLabels, Labels
<1> QED BY <1>1, <1>2, <1>3 DEF Alone, Growing, OnItsWay

(* A restart loads what is on disk, so memory and disk agree again.        *)
LEMMA RestartStep == Inv /\ Restart => Inv'
<1> SUFFICES ASSUME Inv, Restart PROVE Inv'
  OBVIOUS
<1> USE DEF Inv, Restart
<1>1. OnDisk \in Versions
  BY OnDiskInRange
<1>2. OnDisk' = OnDisk
  BY DEF OnDisk, Readable
<1>3. TypeOK'
  <2>1. 0 \in Versions
    BY DEF Versions
  <2>2. pc' \in [Writers -> Labels]
    BY DEF Labels
  <2>3. file' \in Inodes \union {NoInode}
    BY DEF TypeOK
  <2> QED BY <1>1, <2>1, <2>2, <2>3 DEF TypeOK
<1>4. pc'[Saver] = "wait" /\ pc'[Closer] = "running"
  BY DEF Writers
<1>5. OnDisk <= edits
  BY DEF TypeOK, Counted, OnDisk, Readable, Versions
<1>6. Counted'
  BY <1>5 DEF TypeOK, Counted, Versions
<1>7. Placed' /\ Apart'
  BY <1>4 DEF Placed, Apart, Writers, SaverLabels, CloserLabels
<1>8. Alone' /\ Growing' /\ OnItsWay'
  BY <1>1, <1>2, <1>4 DEF Alone, Growing, OnItsWay, Versions
<1> QED BY <1>3, <1>6, <1>7, <1>8
-----------------------------------------------------------------------------
LEMMA InvNext == Inv /\ [Next]_vars => Inv'
<1> SUFFICES ASSUME Inv, [Next]_vars PROVE Inv'
  OBVIOUS
<1>1. CASE EditCommits
  BY <1>1, EditCommitsStep
<1>2. CASE set_resume_on_start
  BY <1>2, set_resume_on_startStep
<1>3. CASE schedule_queue_save
  BY <1>3, schedule_queue_saveStep
<1>4. CASE SaverWakes
  BY <1>4, SaverWakesStep
<1>5. CASE SaverDrains
  BY <1>5, SaverDrainsStep
<1>6. ASSUME NEW w \in Writers, Save(w)
      PROVE  Inv'
  BY <1>6, SnapshotStep, OpenStep, WriteStep, WriteFailsStep, RenameStep DEF Save
<1>7. CASE request_shutdown
  BY <1>7, request_shutdownStep
<1>8. CASE ShutdownDecides
  BY <1>8, ShutdownDecidesStep
<1>9. CASE remove
  BY <1>9, removeStep
<1>10. CASE Exit
  BY <1>10, ExitStep
<1>11. CASE Crash
  BY <1>11, CrashStep
<1>12. CASE Restart
  BY <1>12, RestartStep
<1>13. CASE UNCHANGED vars
  BY <1>13 DEF vars, Inv, TypeOK, Counted, Placed, Apart, Alone, Growing, OnItsWay,
               OnDisk, Readable, Running
<1> QED
  BY <1>1, <1>2, <1>3, <1>4, <1>5, <1>6, <1>7, <1>8, <1>9, <1>10, <1>11, <1>12,
     <1>13 DEF Next

LEMMA Invariance == Spec => []Inv
  BY InvInit, InvNext, PTL DEF Spec

(* Every variable keeps its type through any mix of edits, saves, failed   *)
(* writes, shutdowns, crashes and restarts; in particular what a restart   *)
(* loads is always some edit's queue.                                      *)
THEOREM TypeCorrect == Spec => []TypeOK
<1>1. Inv => TypeOK
  BY DEF Inv
<1> QED BY <1>1, Invariance, PTL

(* spawn_queue_persistence loses no poke: whenever the save task waits and *)
(* nothing is on its way to it, the file holds the queue in memory.        *)
THEOREM NoPokeIsLost == Spec => []SavedWhenQuiet
<1>1. Inv => SavedWhenQuiet
  BY DEF Inv, OnItsWay, SavedWhenQuiet
<1> QED BY <1>1, Invariance, PTL

(* While no shutdown sequence has started, a step leaves what a restart    *)
(* would load as it is, or makes it newer.                                 *)
LEMMA DiskOnlyGrows ==
    ASSUME Inv, [Next]_vars, pc[Closer] = "running"
    PROVE  OnDisk' >= OnDisk
<1>1. OnDisk \in Versions
  BY OnDiskInRange DEF Inv
<1>2. ASSUME OnDisk' = OnDisk PROVE OnDisk' >= OnDisk
  BY <1>1, <1>2 DEF Versions
<1>3. CASE UNCHANGED <<file, content>>
  <2>1. OnDisk' = OnDisk
    BY <1>3 DEF OnDisk, Readable
  <2> QED BY <2>1, <1>2
<1>4. ASSUME NEW w \in Writers, Save(w)
      PROVE  OnDisk' >= OnDisk
  <2>1. w = Saver
    BY <1>4 DEF Save, snapshot_from_state, Open, Write, WriteFails, Rename, Writers
  <2>2. CASE snapshot_from_state(w) \/ WriteFails(w)
    BY <2>2, <1>3 DEF snapshot_from_state, WriteFails, diskVars
  <2>3. CASE Open(w)
    <3>1. open_temporary(w)
      BY <2>3 DEF Open
    <3>2. PICK i \in Inodes : /\ i = tmp \/ (tmp = NoInode /\ i # file)
                              /\ file' = file
                              /\ content' = [content EXCEPT ![i] = Empty]
      BY <3>1 DEF open_temporary
    <3>3. file # NoInode => i # file
      BY <3>2 DEF Inv, Apart
    <3>4. OnDisk' = OnDisk
      BY <3>2, <3>3 DEF Inv, TypeOK, OnDisk, Readable
    <3> QED BY <3>4, <1>2
  <2>4. CASE Write(w)
    <3>1. fd[w] = tmp /\ tmp # NoInode
      BY <2>1, <2>4 DEF Inv, Alone, Write
    <3>2. file' = file /\ \E result : content' = [content EXCEPT ![tmp] = result]
      BY <2>4, <3>1 DEF Write
    <3>3. OnDisk' = OnDisk
      BY <3>1, <3>2 DEF Inv, TypeOK, Apart, OnDisk, Readable
    <3> QED BY <3>3, <1>2
  <2>5. CASE Rename(w)
    BY <2>5, <1>4, RenameStep DEF Save
  <2> QED BY <1>4, <2>2, <2>3, <2>4, <2>5 DEF Save
<1>5. CASE EditCommits \/ set_resume_on_start \/ schedule_queue_save
  BY <1>5, <1>3 DEF EditCommits, set_resume_on_start, schedule_queue_save, diskVars
<1>6. CASE SaverWakes \/ SaverDrains \/ request_shutdown
  BY <1>6, <1>3 DEF SaverWakes, SaverDrains, request_shutdown, diskVars
<1>7. CASE ShutdownDecides \/ Exit \/ Crash
  BY <1>7, <1>3 DEF ShutdownDecides, Exit, Crash, diskVars
<1>8. CASE remove \/ Restart
  BY <1>8 DEF remove, Restart, Running
<1>9. CASE UNCHANGED vars
  BY <1>9, <1>3 DEF vars
<1> QED BY <1>4, <1>5, <1>6, <1>7, <1>8, <1>9 DEF Next

(* A crash at any file-system call of a save keeps the last queue that was *)
(* saved, until the shutdown sequence adds a second writer.                *)
THEOREM SavesAreAtomic == Spec => NeverLosesASave
<1>1. Inv /\ [Next]_vars => [pc[Closer] = "running" => OnDisk' >= OnDisk]_vars
  BY DiskOnlyGrows
<1> QED BY <1>1, Invariance, PTL DEF Spec, NeverLosesASave

(***************************************************************************)
(* The reports of plays (Scrobble, as R): no play is counted twice.        *)
(*                                                                         *)
(* The counter of instances only grows, and a tick reads it after it read  *)
(* the state: when the reporter has seen an instance and a tick reads that *)
(* one again, its position is one of that play (TickRemembered).  A play   *)
(* that was past the threshold stays there unless it is rewound            *)
(* (Remembered), so the reporter that sees it anew sees it past the        *)
(* threshold and takes it for counted (NotAgain); and a reporter that      *)
(* never lost it either still has it as submitted or is past it for good   *)
(* (CountedFollows).                                                       *)
(***************************************************************************)
Tick ==
    [enabled : BOOLEAN, id : PlayedSongs \cup {None}, state : {"Stopped", "Playing", "Paused"},
     past : BOOLEAN, modern : BOOLEAN \cup {None}, instance : Nat \cup {None}]

ReportsTyped ==
    /\ song \in PlayedSongs \cup {None} /\ state \in {"Stopped", "Playing", "Paused"}
    /\ past \in BOOLEAN /\ play_instance \in Nat
    /\ scrobble \in BOOLEAN /\ modern \in BOOLEAN
    /\ tick \in Tick \cup {None}
    /\ scrobble_state \in [song_id : PlayedSongs \cup {None}, instance : Nat,
                           last_past : BOOLEAN, submitted : BOOLEAN]
    /\ watched \in Nat /\ counted \in Nat
    /\ lost \in BOOLEAN /\ rewound \in BOOLEAN

Ordered ==
    /\ scrobble_state.instance <= play_instance
    /\ tick # None /\ tick.instance # None =>
          scrobble_state.instance <= tick.instance /\ tick.instance <= play_instance

StoppedAtStart == state = "Stopped" => ~past

(* The reporter knows the watched play to have been past the threshold.    *)
SeenPast ==
    \/ counted > 0
    \/ scrobble_state.instance = watched /\ ~scrobble_state.submitted /\ scrobble_state.last_past

(* The tick has read, or is about to read, the instance of that play.      *)
TickOfWatched ==
    /\ tick # None
    /\ tick.instance = watched \/ (tick.instance = None /\ play_instance = watched)

StillPast == play_instance = watched => past \/ rewound

Remembered ==
    SeenPast =>
        /\ play_instance >= watched
        /\ StillPast
        /\ TickOfWatched => tick.past \/ rewound

TickRemembered ==
    scrobble_state.instance = watched /\ TickOfWatched /\ tick.past => StillPast

Over ==
    /\ play_instance > watched
    /\ tick # None /\ tick.instance # None => tick.instance > watched
    /\ scrobble_state.instance = watched =>
          scrobble_state.song_id = None \/ scrobble_state.submitted

CountedFollows ==
    counted > 0 /\ ~lost =>
        (scrobble_state.instance = watched /\ scrobble_state.submitted) \/ Over

NotAgain ==
    counted > 0 /\ ~rewound /\ scrobble_state.instance = watched
        /\ scrobble_state.song_id # None => scrobble_state.submitted

ReportsInv ==
    /\ ReportsTyped /\ Ordered /\ StoppedAtStart
    /\ Remembered /\ TickRemembered /\ CountedFollows /\ NotAgain
    /\ R!CountedOnce

LEMMA ReportsInit == R!Init => ReportsInv
<1> SUFFICES ASSUME R!Init PROVE ReportsInv
  OBVIOUS
<1>1. watched \in Nat
  BY BackgroundAssumption DEF BackgroundAssumption, R!Init, R!Plays
<1>2. ReportsTyped
  BY <1>1 DEF R!Init, R!ScrobbleState, ReportsTyped
<1>3. /\ tick = None /\ counted = 0 /\ ~scrobble_state.last_past
      /\ scrobble_state.instance = 0 /\ play_instance = 0 /\ ~past
  BY DEF R!Init, R!ScrobbleState
<1> QED BY <1>2, <1>3 DEF ReportsInv, Ordered, StoppedAtStart, SeenPast, Remembered,
                          TickOfWatched, TickRemembered, CountedFollows, NotAgain, R!CountedOnce

(* Playback goes on: the instance changes, or the position within it, which *)
(* only a rewind takes back.                                               *)
LEMMA ReportsPlayback ==
    ASSUME ReportsInv, ReportsTyped', StoppedAtStart',
           \/ play_instance' = play_instance + 1 /\ rewound' = rewound
           \/ /\ play_instance' = play_instance
              /\ rewound' = (rewound \/ (past /\ ~past' /\ play_instance = watched))
           ,
           UNCHANGED <<tick, scrobble_state, watched, counted, lost>>
    PROVE  ReportsInv'
<1> USE BackgroundAssumption DEF BackgroundAssumption
<1>1. /\ play_instance \in Nat /\ watched \in Nat /\ scrobble_state.instance \in Nat
      /\ past \in BOOLEAN /\ rewound \in BOOLEAN /\ past' \in BOOLEAN /\ rewound' \in BOOLEAN
  BY DEF ReportsInv, ReportsTyped
<1>2. tick # None => tick.instance \in Nat \cup {None}
  BY DEF ReportsInv, ReportsTyped, Tick
<1>3. play_instance <= play_instance' /\ (rewound => rewound')
  BY <1>1
<1>4. Ordered'
  BY <1>1, <1>2, <1>3 DEF ReportsInv, Ordered, ReportsTyped
<1>5. play_instance >= watched /\ StillPast => play_instance' >= watched /\ StillPast'
  BY <1>1 DEF StillPast
<1>6. TickOfWatched' /\ play_instance >= watched => TickOfWatched
  BY <1>1, <1>2 DEF TickOfWatched
<1>7. Remembered'
  BY <1>3, <1>5, <1>6 DEF ReportsInv, Remembered, SeenPast
<1>8. TickRemembered'
  BY <1>1, <1>5, <1>6 DEF ReportsInv, Ordered, TickRemembered
<1>9. CountedFollows'
  BY <1>1, <1>3 DEF ReportsInv, CountedFollows, Over
<1>10. NotAgain' /\ R!CountedOnce'
  BY <1>3 DEF ReportsInv, NotAgain, R!CountedOnce
<1> QED BY <1>4, <1>7, <1>8, <1>9, <1>10 DEF ReportsInv

LEMMA ReportsSetup ==
    ASSUME ReportsInv, UNCHANGED <<song, state, past, play_instance, tick, scrobble_state,
                                   watched, counted, lost, rewound>>,
           scrobble' \in BOOLEAN, modern' \in BOOLEAN
    PROVE  ReportsInv'
BY DEF ReportsInv, ReportsTyped, Ordered, StoppedAtStart, SeenPast, Remembered, TickOfWatched,
       StillPast, TickRemembered, Over, CountedFollows, NotAgain, R!CountedOnce

LEMMA ReportsReads ==
    ASSUME ReportsInv, R!ReadsState \/ R!ReadsCounters
    PROVE  ReportsInv'
<1> USE BackgroundAssumption DEF BackgroundAssumption
<1>1. UNCHANGED <<song, state, past, play_instance, scrobble, modern, scrobble_state,
                  watched, counted, lost, rewound>>
  BY DEF R!ReadsState, R!ReadsCounters, R!playback, R!setup, R!histories
<1>2. /\ play_instance \in Nat /\ watched \in Nat /\ scrobble_state.instance \in Nat
      /\ scrobble_state.instance <= play_instance
      /\ past \in BOOLEAN /\ rewound \in BOOLEAN
  BY DEF ReportsInv, ReportsTyped, Ordered
<1>3. tick' \in Tick
  <2>1. CASE R!ReadsState
    BY <2>1 DEF R!ReadsState, ReportsInv, ReportsTyped, Tick
  <2>2. CASE R!ReadsCounters
    BY <2>2 DEF R!ReadsCounters, ReportsInv, ReportsTyped, Tick
  <2> QED BY <2>1, <2>2
<1>4. ReportsTyped' /\ StoppedAtStart' /\ NotAgain' /\ R!CountedOnce'
  BY <1>1, <1>3 DEF ReportsInv, ReportsTyped, StoppedAtStart, NotAgain, R!CountedOnce
<1>5. \/ /\ tick'.instance = None /\ tick'.past = past
      \/ /\ tick # None /\ tick.instance = None
         /\ tick'.instance = play_instance /\ tick'.past = tick.past
  <2>1. CASE R!ReadsState
    BY <2>1 DEF R!ReadsState
  <2>2. CASE R!ReadsCounters
    <3>1. tick \in Tick /\ tick # None /\ tick.instance = None
      BY <2>2 DEF R!ReadsCounters, ReportsInv, ReportsTyped
    <3> QED BY <2>2, <3>1 DEF R!ReadsCounters, Tick
  <2> QED BY <2>1, <2>2
<1>6. Ordered'
  BY <1>1, <1>2, <1>5 DEF Ordered
<1>7. TickOfWatched' => /\ play_instance = watched
                        /\ tick'.past = past \/ (TickOfWatched /\ tick'.past = tick.past)
  BY <1>1, <1>2, <1>5 DEF TickOfWatched
<1>8. Remembered'
  BY <1>1, <1>7 DEF ReportsInv, Remembered, SeenPast, StillPast
<1>9. TickRemembered'
  BY <1>1, <1>7 DEF ReportsInv, TickRemembered, StillPast
<1>10. CountedFollows'
  BY <1>1, <1>2, <1>5 DEF ReportsInv, CountedFollows, Over
<1> QED BY <1>4, <1>6, <1>8, <1>9, <1>10 DEF ReportsInv

LEMMA ReportsDecides ==
    ASSUME ReportsInv, R!Decides
    PROVE  ReportsInv'
<1> USE BackgroundAssumption DEF BackgroundAssumption
<1> DEFINE S == scrobble_state
           Forgotten ==
               /\ S'.instance = 0 /\ S'.song_id = None /\ ~S'.last_past
               /\ lost' = (lost \/ tick.instance = watched) /\ counted' = counted
           Switched ==
               /\ S'.instance = tick.instance /\ S'.submitted = tick.past
               /\ S'.last_past = tick.past
               /\ lost' = (lost \/ (S.instance = watched /\ tick.instance = watched))
           Followed ==
               /\ S'.instance = S.instance /\ S'.song_id = S.song_id
               /\ S.instance = tick.instance /\ S'.last_past = tick.past
               /\ S.submitted => S'.submitted
               /\ S'.submitted => S.submitted \/ tick.past
               /\ counted' # counted => S'.submitted
               /\ lost' = lost
           Kept == UNCHANGED <<scrobble_state, counted, lost>>
<1>1. /\ UNCHANGED <<song, state, past, play_instance, scrobble, modern, watched, rewound>>
      /\ tick' = None
  BY DEF R!Decides, R!playback, R!setup
<1>2. tick \in Tick /\ tick # None /\ tick.instance \in Nat
  BY DEF R!Decides, ReportsInv, ReportsTyped, Tick
<1>3. /\ play_instance \in Nat /\ watched \in Nat /\ counted \in Nat /\ S.instance \in Nat
      /\ past \in BOOLEAN /\ rewound \in BOOLEAN /\ lost \in BOOLEAN
      /\ S.submitted \in BOOLEAN /\ S.last_past \in BOOLEAN
      /\ S.instance <= tick.instance /\ tick.instance <= play_instance
  BY <1>2 DEF ReportsInv, ReportsTyped, Ordered
<1>4. tick.past \in BOOLEAN /\ (TickOfWatched <=> tick.instance = watched)
  BY <1>2 DEF Tick, TickOfWatched
<1>5. \/ R!Forgets
      \/ ~R!SamePlay /\ R!Switches
      \/ R!SamePlay /\ tick.id # None /\ R!Follows
      \/ UNCHANGED <<scrobble_state, counted, lost>>
  BY DEF R!Decides
(* What is submitted is a play the reporter has seen past the threshold.   *)
<1>6. /\ counted' \in Nat /\ (counted' # counted => counted' = counted + 1 /\ counted < 2)
      /\ counted' # counted =>
            /\ S.instance = watched /\ S.song_id # None /\ ~S.submitted
            /\ S.last_past \/ (tick.instance = watched /\ tick.past)
  <2>1. CASE R!Forgets
    BY <1>3, <2>1 DEF R!Forgets, R!SubmitsNone
  <2>2. CASE R!Switches
    BY <1>3, <2>2 DEF R!Switches, R!Finalizes, R!Submits, R!SubmitsNone
  <2>3. CASE R!SamePlay /\ tick.id # None /\ R!Follows
    BY <1>3, <2>3 DEF R!SamePlay, R!Follows, R!Reaches, R!Submits, R!SubmitsNone
  <2>4. CASE UNCHANGED <<scrobble_state, counted, lost>>
    BY <1>3, <2>4
  <2> QED BY <1>5, <2>1, <2>2, <2>3, <2>4
(* What the reporter knows afterwards.                                     *)
<1>7. ReportsTyped' /\ (Forgotten \/ Switched \/ Followed \/ Kept)
  <2>1. CASE R!Forgets
    BY <1>1, <1>6, <2>1 DEF R!Forgets, R!SubmitsNone, R!ScrobbleState, ReportsInv, ReportsTyped
  <2>2. CASE R!Switches
    <3>1. S' = [song_id |-> tick.id, instance |-> tick.instance, last_past |-> tick.past,
                submitted |-> tick.past]
      BY <2>2 DEF R!Switches, R!first_seen
    <3>2. tick.id \in PlayedSongs \cup {None}
      BY <1>2 DEF Tick
    <3>3. lost' = (lost \/ (S.instance = watched /\ tick.instance = watched))
      BY <2>2 DEF R!Switches
    <3>4. ReportsTyped'
      BY <1>1, <1>2, <1>4, <1>6, <3>1, <3>2, <3>3 DEF ReportsInv, ReportsTyped
    <3> QED BY <3>1, <3>3, <3>4
  <2>3. CASE R!SamePlay /\ tick.id # None /\ R!Follows
    <3> DEFINE r == R!Reaches
    <3>1. /\ S' = [S EXCEPT !.submitted = @ \/ r, !.last_past = tick.past]
          /\ lost' = lost /\ S.instance = tick.instance
          /\ r => tick.past
          /\ counted' # counted => r
      BY <2>3 DEF R!Follows, R!SamePlay, R!Reaches, R!SubmitsNone
    <3> HIDE DEF r
    <3>2. S \in [song_id : PlayedSongs \cup {None}, instance : Nat,
                 last_past : BOOLEAN, submitted : BOOLEAN]
      BY DEF ReportsInv, ReportsTyped
    <3>3. /\ S'.instance = S.instance /\ S'.song_id = S.song_id /\ S'.last_past = tick.past
          /\ S'.submitted = (S.submitted \/ r)
          /\ S' \in [song_id : PlayedSongs \cup {None}, instance : Nat,
                     last_past : BOOLEAN, submitted : BOOLEAN]
      BY <1>4, <3>1, <3>2
    <3>4. ReportsTyped'
      BY <1>1, <1>6, <3>1, <3>3 DEF ReportsInv, ReportsTyped
    <3> QED BY <1>3, <3>1, <3>3, <3>4
  <2>4. CASE UNCHANGED <<scrobble_state, counted, lost>>
    BY <1>1, <2>4 DEF ReportsInv, ReportsTyped
  <2> QED BY <1>5, <2>1, <2>2, <2>3, <2>4
<1>8. ReportsTyped'
  BY <1>7
<1>9. /\ S'.instance \in Nat /\ S'.last_past \in BOOLEAN /\ S'.submitted \in BOOLEAN
      /\ lost' \in BOOLEAN /\ (lost => lost')
  BY <1>3, <1>7, <1>8 DEF ReportsTyped
<1>10. Ordered' /\ StoppedAtStart' /\ ~TickOfWatched'
  BY <1>1, <1>3, <1>7, <1>9 DEF Ordered, StoppedAtStart, TickOfWatched, ReportsInv
(* Where a play is seen past the threshold, it has been there.             *)
<1>11. S.instance = watched /\ tick.instance = watched /\ tick.past => StillPast
  BY <1>4 DEF ReportsInv, TickRemembered
<1>12. SeenPast' => play_instance >= watched /\ StillPast
  <2>1. CASE SeenPast
    BY <2>1 DEF ReportsInv, Remembered
  <2>2. CASE ~SeenPast
    <3>1. counted = 0 /\ ~(S.instance = watched /\ ~S.submitted /\ S.last_past)
      BY <1>3, <2>2 DEF SeenPast
    <3>2. SeenPast' => S.instance = watched /\ tick.instance = watched /\ tick.past
      <4>1. CASE counted' # counted
        BY <1>6, <3>1, <4>1
      <4>2. CASE counted' = counted
        BY <1>1, <1>3, <1>7, <1>9, <3>1, <4>2 DEF SeenPast
      <4> QED BY <4>1, <4>2
    <3> QED BY <1>3, <1>11, <3>2
  <2> QED BY <2>1, <2>2
<1>13. Remembered' /\ TickRemembered'
  BY <1>1, <1>10, <1>12 DEF Remembered, TickRemembered, StillPast
<1>14. CountedFollows'
  <2> SUFFICES ASSUME counted' > 0, ~lost'
               PROVE  (S'.instance = watched /\ S'.submitted) \/ Over'
    BY <1>1 DEF CountedFollows
  <2>1. ~lost
    BY <1>9
  <2>2. S.instance = watched \/ Over
    <3>1. CASE counted' # counted
      BY <1>6, <3>1
    <3>2. CASE counted' = counted
      BY <2>1, <3>2 DEF ReportsInv, CountedFollows
    <3> QED BY <3>1, <3>2
  <2>3. tick.instance >= watched /\ (tick.instance > watched => play_instance > watched)
    BY <1>2, <1>3, <2>2 DEF Over
  <2>4. Over' <=> /\ play_instance > watched
                  /\ S'.instance = watched => S'.song_id = None \/ S'.submitted
    BY <1>1 DEF Over
  <2>5. counted' = counted => (S.instance = watched /\ S.submitted) \/ Over
    BY <2>1 DEF ReportsInv, CountedFollows
  <2>6. Over => tick.instance > watched /\ (S.instance = watched => S.song_id = None \/ S.submitted)
    BY <1>2 DEF Over
  <2>7. CASE Forgotten \/ Switched
    <3>1. tick.instance # watched \/ S.instance # watched
      BY <2>7
    <3>2. tick.instance \in Nat /\ watched \in Nat
      BY <1>2, <1>3
    <3>3. tick.instance > watched
      <4>1. CASE Forgotten
        <5>1. ~(lost \/ tick.instance = watched)
          BY <4>1
        <5> QED BY <2>3, <3>2, <5>1
      <4>2. CASE Switched
        BY <2>2, <2>3, <2>6, <3>1, <3>2
      <4> HIDE DEF Forgotten, Switched
      <4> QED BY <2>7, <4>1, <4>2
    <3>4. S'.instance = watched => S'.song_id = None
      BY <2>7, <3>2, <3>3
    <3> QED BY <2>3, <2>4, <3>3, <3>4
  <2>8. CASE Followed \/ Kept
    BY <1>3, <1>9, <2>2, <2>3, <2>4, <2>5, <2>6, <2>8
  <2> HIDE DEF Forgotten, Switched, Followed, Kept
  <2> QED BY <1>7, <2>7, <2>8
<1>15. NotAgain'
  <2> SUFFICES ASSUME counted' > 0, ~rewound, S'.instance = watched, S'.song_id # None
               PROVE  S'.submitted
    BY <1>1 DEF NotAgain
  <2>1. tick.instance = watched /\ SeenPast => tick.past
    BY <1>4 DEF ReportsInv, Remembered
  <2>2. counted' # counted => SeenPast \/ (tick.instance = watched /\ tick.past)
    BY <1>6 DEF SeenPast
  <2>3. counted' = counted => SeenPast
    BY DEF SeenPast
  <2>4. counted' = counted /\ S.instance = watched /\ S.song_id # None => S.submitted
    BY DEF ReportsInv, NotAgain
  <2>5. CASE Forgotten \/ Switched
    BY <1>4, <2>1, <2>2, <2>3, <2>5
  <2>6. CASE Followed \/ Kept
    BY <2>4, <2>6
  <2> HIDE DEF Forgotten, Switched, Followed, Kept
  <2> QED BY <1>7, <2>5, <2>6
<1>16. R!CountedOnce'
  <2> SUFFICES ASSUME counted' # counted, counted > 0 PROVE rewound /\ lost
    BY <1>1, <1>3, <1>6, <1>9 DEF ReportsInv, R!CountedOnce
  <2>1. S.instance = watched /\ S.song_id # None /\ ~S.submitted
    BY <1>6
  <2>2. rewound
    BY <2>1 DEF ReportsInv, NotAgain
  <2>3. lost
    BY <2>1 DEF ReportsInv, CountedFollows, Over
  <2> QED BY <2>2, <2>3
<1> HIDE DEF S, Forgotten, Switched, Followed, Kept
<1> QED BY ONLY <1>8, <1>10, <1>13, <1>14, <1>15, <1>16 DEF ReportsInv

LEMMA ReportsNext == ReportsInv /\ [R!Next]_varsR => ReportsInv'
<1> SUFFICES ASSUME ReportsInv, [R!Next]_varsR PROVE ReportsInv'
  OBVIOUS
<1>1. ReportsTyped /\ StoppedAtStart
  BY DEF ReportsInv
<1> USE DEF R!playback, R!setup, R!histories
<1>2. CASE R!mark_play_instance
  <2>1. /\ play_instance' = play_instance + 1 /\ ~past'
        /\ song' \in PlayedSongs /\ state' \in {"Playing", state} /\ past' \in BOOLEAN
        /\ UNCHANGED <<scrobble, modern, tick, scrobble_state, watched, counted, lost, rewound>>
    BY <1>2 DEF R!mark_play_instance
  <2>2. ReportsTyped' /\ StoppedAtStart'
    BY <1>1, <2>1 DEF ReportsTyped, StoppedAtStart
  <2> QED BY <2>1, <2>2, ReportsPlayback
<1>3. CASE R!pause_playback
  BY <1>1, <1>3, ReportsPlayback DEF R!pause_playback, ReportsTyped, StoppedAtStart
<1>4. CASE R!resume_playback
  BY <1>1, <1>4, ReportsPlayback DEF R!resume_playback, ReportsTyped, StoppedAtStart
<1>5. CASE R!stop_playback
  BY <1>1, <1>5, ReportsPlayback DEF R!stop_playback, R!Rewinds, ReportsTyped, StoppedAtStart
<1>6. CASE R!Moves
  BY <1>1, <1>6, ReportsPlayback DEF R!Moves, R!Rewinds, ReportsTyped, StoppedAtStart
<1>7. CASE R!set_scrobble \/ R!refresh_scrobble_capability
  BY <1>1, <1>7, ReportsSetup DEF R!set_scrobble, R!refresh_scrobble_capability, ReportsTyped
<1>8. CASE R!ReadsState \/ R!ReadsCounters
  BY <1>8, ReportsReads
<1>9. CASE R!Decides
  BY <1>9, ReportsDecides
<1>10. CASE UNCHANGED varsR
  BY <1>1, <1>10, ReportsSetup DEF varsR, ReportsTyped
<1> QED BY <1>2, <1>3, <1>4, <1>5, <1>6, <1>7, <1>8, <1>9, <1>10 DEF R!Next

(***************************************************************************)
(* The copy of the library (LibraryCache, as L).                           *)
(*                                                                         *)
(* Shape: the operations under way are numbered apart, and each is at a    *)
(* step of its own kind.                                                   *)
(***************************************************************************)
Fields == {"n", "op", "step", "asked", "then", "folder", "gen", "straddles", "checked",
           "old", "failed", "reply"}

OperationOK(t) ==
    /\ DOMAIN t = Fields
    /\ t.n \in Nat /\ t.n < begun
    /\ t.step \in {"gen", "ask", "check", "write"} => t.op \in {"artists", "random", "starred"}
    /\ t.step = "call" => t.op \in {"rate", "star"}
    /\ t.step = "commit" => t.op = "rate"
    /\ t.step \in {"fetch", "adopt", "rollback"} => t.op = "star"
    /\ t.then \in {"artists", "random", None}
    /\ t.op = "folder" => t.then = "artists"
    /\ t.op = "rate" /\ t.step # "commit" => t.failed = FALSE
    /\ t.op = "star" /\ t.step = "call" => t.asked \in BOOLEAN

Shape ==
    /\ begun \in Nat /\ config_gen \in Nat /\ starred \in BOOLEAN
    /\ DOMAIN queue_copy = {"rating", "star"}
    /\ \A t \in operations : OperationOK(t)
    /\ \A t, u \in operations : t.n = u.n => t = u

LEMMA MoveShape ==
    ASSUME Shape, NEW t \in operations, NEW u, OperationOK(u), u.n = t.n, begun' = begun,
           operations' = (operations \ {t}) \cup {u},
           config_gen' \in Nat, starred' \in BOOLEAN, DOMAIN queue_copy' = {"rating", "star"}
    PROVE  Shape'
<1>1. ASSUME NEW v \in operations' PROVE OperationOK(v)'
  <2>1. OperationOK(v)
    BY DEF Shape
  <2> QED BY <2>1 DEF OperationOK
<1>2. ASSUME NEW v \in operations', NEW w \in operations', v.n = w.n PROVE v = w
  BY <1>2 DEF Shape
<1> QED BY <1>1, <1>2 DEF Shape

LEMMA RemovalShape ==
    ASSUME Shape, NEW t \in operations, begun' = begun, operations' = operations \ {t},
           config_gen' \in Nat, starred' \in BOOLEAN, DOMAIN queue_copy' = {"rating", "star"}
    PROVE  Shape'
<1>1. ASSUME NEW v \in operations' PROVE OperationOK(v)'
  <2>1. OperationOK(v)
    BY DEF Shape
  <2> QED BY <2>1 DEF OperationOK
<1> QED BY <1>1 DEF Shape

(* An operation ends, or goes on as the refresh that follows it.           *)
Refresh(u) ==
    /\ u.step = "start" /\ u.op \in {"artists", "random"}
    /\ DOMAIN u = Fields
    /\ u.then \in {"random", None}

LEMMA EndsEffect ==
    ASSUME Shape, NEW t \in operations, L!Ends(t)
    PROVE  \/ operations' = operations \ {t} /\ t.then # "artists"
           \/ \E u : /\ operations' = (operations \ {t}) \cup {u}
                     /\ Refresh(u) /\ u.n = t.n
                     /\ t.then = "artists" => u.op = "artists"
<1>1. CASE t.then = None
  <2>1. operations' = operations \ {t}
    BY <1>1 DEF L!Ends
  <2>2. CASE t.then # "artists"
    BY <2>1, <2>2
  <2>3. CASE t.then = "artists"
    BY <1>1, <2>3, BackgroundAssumption DEF BackgroundAssumption
  <2> QED BY <2>2, <2>3
<1>2. CASE t.then # None
  <2> DEFINE u == [L!Task(t.then, None, IF t.then = "artists" THEN "random" ELSE None)
                       EXCEPT !.n = t.n]
  <2>1. operations' = (operations \ {t}) \cup {u}
    BY <1>2 DEF L!Ends, L!Becomes
  <2>2. t.then \in {"artists", "random"}
    BY <1>2 DEF Shape, OperationOK
  <2>3. /\ DOMAIN u = Fields /\ u.n = t.n /\ u.step = "start" /\ u.op = t.then
        /\ u.then \in {"random", None}
    BY DEF L!Task, Fields
  <2> HIDE DEF u
  <2> QED BY <2>1, <2>2, <2>3 DEF Refresh
<1> QED BY <1>1, <1>2

LEMMA EndsShape ==
    ASSUME Shape, NEW t \in operations, L!Ends(t), begun' = begun,
           config_gen' \in Nat, starred' \in BOOLEAN, DOMAIN queue_copy' = {"rating", "star"}
    PROVE  /\ Shape'
           /\ \A v \in operations' : v \in operations \ {t} \/ Refresh(v)
           /\ \A v \in operations : v = t \/ v \in operations'
           /\ t.then = "artists" => \E v \in operations' : Refresh(v) /\ v.op = "artists"
<1>1. CASE operations' = operations \ {t} /\ t.then # "artists"
  BY <1>1, RemovalShape
<1>2. ASSUME NEW u, operations' = (operations \ {t}) \cup {u}, Refresh(u), u.n = t.n,
             t.then = "artists" => u.op = "artists"
      PROVE  /\ Shape'
             /\ \A v \in operations' : v \in operations \ {t} \/ Refresh(v)
             /\ \A v \in operations : v = t \/ v \in operations'
             /\ t.then = "artists" => \E v \in operations' : Refresh(v) /\ v.op = "artists"
  <2>1. OperationOK(u)
    BY <1>2 DEF Shape, OperationOK, Refresh
  <2> QED BY <1>2, <2>1, MoveShape
<1> QED BY <1>1, <1>2, EndsEffect

(***************************************************************************)
(* The artists: when they are not the folder's, a refresh that will make   *)
(* them so is under way.  What it asked for after the last switch is the   *)
(* list of the folder, unless it had read the client before the switch and *)
(* the generation after it.                                                *)
(***************************************************************************)
Asked(t) == t.op = "artists" /\ t.step \in {"ask", "check", "write"}

Stamped(t) ==
    Asked(t) =>
        /\ t.gen \in Nat /\ t.gen <= config_gen
        /\ t.gen = config_gen /\ ~t.straddles => t.folder = folder
        /\ t.step # "ask" => t.reply = t.folder
        /\ t.step = "write" => t.checked = t.gen

Pending(t) ==
    /\ t.op = "artists"
    /\ t.step \in {"start", "gen"} \/ (Asked(t) /\ t.gen = config_gen)

ListInv ==
    /\ \A t \in operations : Stamped(t)
    /\ artists = folder \/ "artists" \in excused \/ \E t \in operations : Pending(t)

LEMMA ListKept ==
    ASSUME ListInv, UNCHANGED <<folder, config_gen, artists>>,
           "artists" \in excused => "artists" \in excused',
           NEW t,
           \A v \in operations' : v \in operations \/ Stamped(v),
           \A v \in operations : v = t \/ v \in operations',
           Pending(t) => "artists" \in excused' \/ \E v \in operations' : Pending(v)
    PROVE  ListInv'
<1>1. \A v : (Stamped(v)' <=> Stamped(v)) /\ (Pending(v)' <=> Pending(v))
  BY DEF Stamped, Pending, Asked
<1> QED BY <1>1 DEF ListInv

(***************************************************************************)
(* The rating: the lock is held by the one update that has a call out or   *)
(* answered; until its end only the server's rating counts, which the      *)
(* update either replaces or restores.                                     *)
(***************************************************************************)
Rating(t) == t.op = "rate" /\ t.step \in {"call", "commit"}

RatingInv ==
    /\ \A t \in operations : Rating(t) => rating_updates = t.n
    /\ rating_updates # None => \E t \in operations : Rating(t)
    /\ "rating" \notin excused =>
          /\ rating_updates = None => queue_copy.rating = rated /\ random_rating = rated
          /\ \A t \in operations : Rating(t) =>
                IF t.step = "commit" /\ ~t.failed THEN t.asked = rated ELSE t.old = rated

LEMMA RatingKept ==
    ASSUME RatingInv, UNCHANGED <<queue_copy.rating, random_rating, rated, rating_updates>>,
           "rating" \in excused => "rating" \in excused',
           NEW t, ~Rating(t),
           \A v \in operations' : v \in operations \/ ~Rating(v),
           \A v \in operations : v = t \/ v \in operations'
    PROVE  RatingInv'
<1>1. \A v : Rating(v) => (v \in operations' <=> v \in operations)
  OBVIOUS
<1>2. \A v : Rating(v)' <=> Rating(v)
  BY DEF Rating
<1> QED BY <1>1, <1>2 DEF RatingInv

(***************************************************************************)
(* The star: one toggle at a time, or the list of faults says so.          *)
(***************************************************************************)
Star(t) == t.op = "star" /\ t.step # "start"

StarInv ==
    "star" \notin excused =>
        /\ (\A t \in operations : ~Star(t)) =>
              starred_id = starred /\ queue_copy.star = starred /\ random_star = starred
        /\ \A t, u \in operations : Star(t) /\ Star(u) => t = u
        /\ \A t \in operations : Star(t) =>
              /\ t.step \in {"call", "fetch", "adopt", "rollback"}
              /\ t.step \in {"call", "rollback"} => t.old = starred
              /\ t.step \in {"fetch", "adopt"} => t.asked = starred
              /\ t.step # "rollback" => queue_copy.star = t.asked /\ random_star = t.asked
              /\ t.step = "adopt" /\ ~t.failed => t.reply = starred

LEMMA StarKept ==
    ASSUME StarInv, UNCHANGED <<queue_copy.star, random_star, starred_id, starred>>,
           "star" \in excused => "star" \in excused',
           NEW t, ~Star(t),
           \A v \in operations' : v \in operations \/ ~Star(v),
           \A v \in operations : v = t \/ v \in operations'
    PROVE  StarInv'
<1>1. \A v : Star(v) => (v \in operations' <=> v \in operations)
  OBVIOUS
<1>2. \A v : Star(v)' <=> Star(v)
  BY DEF Star
<1> QED BY <1>1, <1>2 DEF StarInv

LibraryInv == Shape /\ ListInv /\ RatingInv /\ StarInv

LEMMA LibraryInit == L!Init => LibraryInv
<1> SUFFICES ASSUME L!Init PROVE LibraryInv
  OBVIOUS
<1> QED BY DEF L!Init, LibraryInv, Shape, ListInv, RatingInv, StarInv

LEMMA LibraryBegins ==
    ASSUME LibraryInv,
           NEW op \in {"artists", "random", "starred", "folder", "rate", "star"}, L!Begins(op)
    PROVE  LibraryInv'
<1>1. PICK u \in L!Requested(op) : operations' = operations \cup {u}
  BY DEF L!Begins
<1>2. /\ begun' = begun + 1
      /\ UNCHANGED <<folder, config_gen, artists, queue_copy, random_rating, random_star,
                     starred_id, rated, starred, rating_updates, excused>>
  BY DEF L!Begins, L!caches, L!server
<1>3. /\ DOMAIN u = Fields /\ u.n = begun /\ u.step = "start" /\ u.op = op
      /\ u.then \in {"artists", None} /\ (op = "folder" => u.then = "artists")
      /\ u.failed = FALSE
  <2>1. CASE op = "folder"
    <3>1. PICK f : u = L!Task("folder", f, "artists")
      BY <2>1 DEF L!Requested
    <3> QED BY <2>1, <3>1 DEF L!Task, Fields
  <2>2. CASE op = "rate"
    <3>1. PICK r : u = L!Task("rate", r, None)
      BY <2>2 DEF L!Requested
    <3> QED BY <2>2, <3>1 DEF L!Task, Fields
  <2>3. CASE op \notin {"folder", "rate"}
    <3>1. u = L!Task(op, None, None)
      BY <2>3 DEF L!Requested
    <3> QED BY <2>3, <3>1 DEF L!Task, Fields
  <2> QED BY <2>1, <2>2, <2>3
<1>4. Shape /\ ListInv /\ RatingInv /\ StarInv
  BY DEF LibraryInv
<1>5. Shape'
  <2>1. begun \in Nat /\ begun' \in Nat
    BY <1>2, <1>4 DEF Shape
  <2>2. ASSUME NEW v \in operations' PROVE OperationOK(v)'
    <3>1. CASE v = u
      BY <1>2, <1>3, <2>1, <3>1 DEF OperationOK
    <3>2. CASE v \in operations
      <4>1. OperationOK(v)
        BY <1>4, <3>2 DEF Shape
      <4> QED BY <1>2, <2>1, <4>1 DEF OperationOK
    <3> QED BY <1>1, <3>1, <3>2
  <2>3. ASSUME NEW v \in operations', NEW w \in operations', v.n = w.n PROVE v = w
    <3>1. \A o \in operations : o.n \in Nat /\ o.n < begun
      BY <1>4 DEF Shape, OperationOK
    <3>2. \A o \in operations : o.n # u.n
      BY <1>3, <2>1, <3>1
    <3> QED BY <1>1, <1>4, <2>3, <3>2 DEF Shape
  <2> QED BY <1>2, <1>4, <2>1, <2>2, <2>3 DEF Shape
<1>6. Stamped(u) /\ ~Rating(u) /\ ~Star(u) /\ u \in operations'
  BY <1>1, <1>3 DEF Stamped, Asked, Rating, Star
<1>7. ListInv'
  BY <1>1, <1>2, <1>4, <1>6, ListKept
<1>8. RatingInv' /\ StarInv'
  BY <1>1, <1>2, <1>4, <1>6, RatingKept, StarKept
<1> QED BY <1>5, <1>7, <1>8 DEF LibraryInv

(* A refresh on its way to its answer.                                     *)
LEMMA LibraryRefreshes ==
    ASSUME LibraryInv, NEW t \in operations,
           L!ClonesClient(t) \/ L!ReadsGen(t) \/ L!Asks(t) \/ L!Checks(t)
    PROVE  LibraryInv'
<1>1. /\ Shape /\ ListInv /\ RatingInv /\ StarInv
      /\ OperationOK(t) /\ Stamped(t)
  BY DEF LibraryInv, Shape, ListInv
<1>2. /\ begun' = begun
      /\ UNCHANGED <<folder, config_gen, artists, queue_copy, random_rating, random_star,
                     starred_id, rated, starred, rating_updates>>
      /\ excused' = excused \/ (excused' = excused \cup {"artists"} /\ t.op = "artists")
  BY DEF L!ClonesClient, L!ReadsGen, L!Asks, L!Checks, L!caches, L!server, L!bounds,
         L!NoFault, L!Fault, L!Excuse
<1>3. config_gen' \in Nat /\ starred' \in BOOLEAN /\ DOMAIN queue_copy' = {"rating", "star"}
  BY <1>1, <1>2 DEF Shape
<1>4. /\ t.op \in {"artists", "random", "starred"} /\ DOMAIN t = Fields
      /\ ~Rating(t) /\ ~Star(t)
  BY <1>1 DEF L!ClonesClient, L!ReadsGen, L!Asks, L!Checks, L!Refreshes, OperationOK, Rating,
     Star
<1>5. ASSUME L!Ends(t), Pending(t) => "artists" \in excused'
      PROVE  LibraryInv'
  <2>1. /\ Shape'
        /\ \A v \in operations' : v \in operations \/ Refresh(v)
        /\ \A v \in operations : v = t \/ v \in operations'
    BY <1>1, <1>2, <1>3, <1>5, EndsShape
  <2>2. \A v : Refresh(v) => Stamped(v) /\ ~Rating(v) /\ ~Star(v)
    BY DEF Refresh, Stamped, Asked, Rating, Star
  <2>3. ListInv'
    BY <1>1, <1>2, <1>5, <2>1, <2>2, ListKept
  <2>4. RatingInv' /\ StarInv'
    BY <1>1, <1>2, <1>4, <2>1, <2>2, RatingKept, StarKept
  <2> QED BY <2>1, <2>3, <2>4 DEF LibraryInv
<1>6. ASSUME NEW u, L!Becomes(t, u), DOMAIN u = Fields, u.n = t.n, u.op = t.op, u.then = t.then,
             u.step \in {"gen", "ask", "check", "write"}, Stamped(u), Pending(t) => Pending(u)
      PROVE  LibraryInv'
  <2>1. operations' = (operations \ {t}) \cup {u}
    BY <1>6 DEF L!Becomes
  <2>2. OperationOK(u)
    BY <1>1, <1>4, <1>6 DEF OperationOK
  <2>3. Shape'
    BY <1>1, <1>2, <1>3, <1>6, <2>1, <2>2, MoveShape
  <2>4. ~Rating(u) /\ ~Star(u)
    BY <1>4, <1>6 DEF Rating, Star
  <2>5. ListInv'
    BY <1>1, <1>2, <1>6, <2>1, ListKept
  <2>6. RatingInv' /\ StarInv'
    BY <1>1, <1>2, <1>4, <2>1, <2>4, RatingKept, StarKept
  <2> QED BY <2>3, <2>5, <2>6 DEF LibraryInv
<1>7. CASE L!ClonesClient(t)
  <2> DEFINE u == [t EXCEPT !.step = "gen", !.folder = folder]
  <2>1. /\ L!Becomes(t, u) /\ DOMAIN u = Fields /\ u.n = t.n /\ u.op = t.op /\ u.then = t.then
        /\ u.step = "gen"
    BY <1>4, <1>7 DEF L!ClonesClient, Fields
  <2> HIDE DEF u
  <2>2. Stamped(u) /\ (Pending(t) => Pending(u))
    BY <2>1 DEF Stamped, Asked, Pending
  <2> QED BY <1>6, <2>1, <2>2
<1>8. CASE L!ReadsGen(t)
  <2> DEFINE u == [t EXCEPT !.step = "ask", !.gen = config_gen,
                            !.straddles = t.folder # folder]
  <2>1. /\ L!Becomes(t, u) /\ DOMAIN u = Fields /\ u.n = t.n /\ u.op = t.op /\ u.then = t.then
        /\ u.step = "ask" /\ u.gen = config_gen /\ (~u.straddles => t.folder = folder)
        /\ u.folder = t.folder
    BY <1>4, <1>8 DEF L!ReadsGen, Fields
  <2> HIDE DEF u
  <2>2. u.gen \in Nat /\ u.gen <= config_gen
    BY <1>1, <2>1 DEF Shape
  <2>3. Stamped(u) /\ (Pending(t) => Pending(u))
    BY <2>1, <2>2 DEF Stamped, Asked, Pending
  <2> QED BY <1>6, <2>1, <2>3
<1>9. CASE L!Asks(t)
  <2>1. CASE L!Becomes(t, [t EXCEPT !.step = "check", !.reply = L!Answer(t)])
    <3> DEFINE u == [t EXCEPT !.step = "check", !.reply = L!Answer(t)]
    <3>1. /\ L!Becomes(t, u) /\ DOMAIN u = Fields /\ u.n = t.n /\ u.op = t.op /\ u.then = t.then
          /\ u.step = "check" /\ u.gen = t.gen /\ u.straddles = t.straddles
          /\ u.folder = t.folder /\ u.reply = L!Answer(t)
      BY <1>4, <2>1 DEF Fields
    <3> HIDE DEF u
    <3>2. t.step = "ask" /\ (t.op = "artists" => L!Answer(t) = t.folder)
      BY <1>9 DEF L!Asks, L!Answer
    <3>3. Stamped(u) /\ (Pending(t) => Pending(u))
      BY <1>1, <3>1, <3>2 DEF Stamped, Asked, Pending
    <3> QED BY <1>6, <3>1, <3>3
  <2>2. CASE L!Ends(t) /\ L!Excuse("artists", t.op = "artists")
    <3>1. Pending(t) => "artists" \in excused'
      BY <2>2 DEF Pending, L!Excuse
    <3> QED BY <1>5, <2>2, <3>1
  <2> QED BY <1>9, <2>1, <2>2 DEF L!Asks
<1>10. CASE L!Checks(t)
  <2>1. t.step = "check"
    BY <1>10 DEF L!Checks
  <2>2. CASE t.gen # config_gen
    <3>1. L!Ends(t) /\ ~Pending(t)
      BY <1>10, <2>1, <2>2 DEF L!Checks, L!config_gen_changed, Pending
    <3> QED BY <1>5, <3>1
  <2>3. CASE t.gen = config_gen
    <3> DEFINE u == [t EXCEPT !.step = "write", !.checked = config_gen]
    <3>1. /\ L!Becomes(t, u) /\ DOMAIN u = Fields /\ u.n = t.n /\ u.op = t.op /\ u.then = t.then
          /\ u.step = "write" /\ u.gen = t.gen /\ u.straddles = t.straddles
          /\ u.folder = t.folder /\ u.reply = t.reply /\ u.checked = t.gen
      BY <1>4, <1>10, <2>3 DEF L!Checks, L!config_gen_changed, Fields
    <3> HIDE DEF u
    <3>2. Stamped(u) /\ (Pending(t) => Pending(u))
      BY <1>1, <2>1, <2>3, <3>1 DEF Stamped, Asked, Pending
    <3> QED BY <1>6, <3>1, <3>2
  <2> QED BY <2>2, <2>3
<1> QED BY <1>7, <1>8, <1>9, <1>10

(* What a refresh writes of the artists is the folder's list, or the list  *)
(* of faults says why not.                                                 *)
LEMMA LibraryWritesArtists ==
    ASSUME LibraryInv, NEW t \in operations, L!WritesArtists(t)
    PROVE  LibraryInv'
<1>1. /\ Shape /\ ListInv /\ RatingInv /\ StarInv /\ Stamped(t)
  BY DEF LibraryInv, ListInv
<1>2. /\ t.op = "artists" /\ t.step = "write" /\ L!Ends(t) /\ artists' = t.reply /\ begun' = begun
      /\ UNCHANGED <<folder, config_gen, queue_copy, random_rating, random_star,
                     starred_id, rated, starred, rating_updates>>
  BY DEF L!WritesArtists, L!server, L!bounds
<1>3. /\ config_gen' \in Nat /\ starred' \in BOOLEAN /\ DOMAIN queue_copy' = {"rating", "star"}
      /\ ~Rating(t) /\ ~Star(t)
  BY <1>1, <1>2 DEF Shape, Rating, Star
<1>4. /\ Shape'
      /\ \A v \in operations' : v \in operations \/ Refresh(v)
      /\ \A v \in operations : v = t \/ v \in operations'
  BY <1>1, <1>2, <1>3, EndsShape
<1>5. \A v : Refresh(v) => Stamped(v) /\ ~Rating(v) /\ ~Star(v)
  BY DEF Refresh, Stamped, Asked, Rating, Star
<1>6. artists' = folder \/ "artists" \in excused'
  <2>1. CASE t.reply = folder
    BY <1>2, <2>1
  <2>2. CASE t.reply # folder
    <3>1. t.straddles \/ t.checked # config_gen
      BY <1>1, <1>2, <2>2 DEF Stamped, Asked
    <3> QED BY <2>2, <3>1 DEF L!WritesArtists, L!Excuse
  <2> QED BY <2>1, <2>2
<1>7. ListInv'
  <2>1. ASSUME NEW v \in operations' PROVE Stamped(v)'
    <3>1. Stamped(v)
      BY <1>1, <1>4, <1>5 DEF ListInv
    <3> QED BY <1>2, <3>1 DEF Stamped, Asked
  <2> QED BY <1>2, <1>6, <2>1 DEF ListInv
<1>8. /\ "rating" \in excused => "rating" \in excused'
      /\ "star" \in excused => "star" \in excused'
  BY DEF L!WritesArtists, L!Excuse
<1>9. RatingInv' /\ StarInv'
  BY <1>1, <1>2, <1>3, <1>4, <1>5, <1>8, RatingKept, StarKept
<1> QED BY <1>4, <1>7, <1>9 DEF LibraryInv

(* A switch: the lists to be refreshed are still to come, and what was     *)
(* asked for before bears an older generation.                             *)
LEMMA LibrarySwitches ==
    ASSUME LibraryInv, NEW t \in operations, L!apply_music_folder(t)
    PROVE  LibraryInv'
<1>1. /\ Shape /\ ListInv /\ RatingInv /\ StarInv /\ OperationOK(t)
  BY DEF LibraryInv, Shape
<1>2. /\ t.op = "folder" /\ L!Ends(t) /\ begun' = begun /\ config_gen' = config_gen + 1
      /\ UNCHANGED <<artists, queue_copy, random_rating, random_star,
                     starred_id, rated, starred, rating_updates, excused>>
  BY DEF L!apply_music_folder, L!caches, L!server, L!bounds
<1>3. /\ config_gen \in Nat /\ config_gen' \in Nat /\ starred' \in BOOLEAN
      /\ DOMAIN queue_copy' = {"rating", "star"}
      /\ ~Rating(t) /\ ~Star(t) /\ t.then = "artists"
  BY <1>1, <1>2 DEF Shape, OperationOK, Rating, Star
<1>4. /\ Shape'
      /\ \A v \in operations' : v \in operations \/ Refresh(v)
      /\ \A v \in operations : v = t \/ v \in operations'
      /\ \E v \in operations' : Refresh(v) /\ v.op = "artists"
  BY <1>1, <1>2, <1>3, EndsShape
<1>5. \A v : Refresh(v) => Stamped(v) /\ ~Rating(v) /\ ~Star(v)
  BY DEF Refresh, Stamped, Asked, Rating, Star
<1>6. ListInv'
  <2>1. ASSUME NEW v \in operations' PROVE Stamped(v)'
    <3>1. Stamped(v)
      BY <1>1, <1>4, <1>5 DEF ListInv
    <3>2. Asked(v) => v.gen \in Nat /\ v.gen <= config_gen' /\ v.gen # config_gen'
      BY <1>2, <1>3, <3>1 DEF Stamped
    <3> QED BY <3>1, <3>2 DEF Stamped, Asked
  <2>2. PICK v \in operations' : Refresh(v) /\ v.op = "artists"
    BY <1>4
  <2>3. Pending(v)'
    BY <2>2 DEF Pending, Refresh
  <2> QED BY <2>1, <2>3 DEF ListInv
<1>7. RatingInv' /\ StarInv'
  BY <1>1, <1>2, <1>3, <1>4, <1>5, RatingKept, StarKept
<1> QED BY <1>4, <1>6, <1>7 DEF LibraryInv

(* A step of an operation on the marks is none on the artists.             *)
LEMMA LibraryMarks ==
    ASSUME LibraryInv, NEW t \in operations, t.op # "artists", begun' = begun,
           UNCHANGED <<folder, config_gen, artists>>, starred' \in BOOLEAN,
           DOMAIN queue_copy' = {"rating", "star"},
           "artists" \in excused => "artists" \in excused',
           \/ L!Ends(t)
           \/ \E u : /\ L!Becomes(t, u) /\ OperationOK(u) /\ u.n = t.n /\ u.op = t.op
    PROVE  /\ Shape' /\ ListInv'
           /\ \A v \in operations : v = t \/ v \in operations'
<1>1. Shape /\ ListInv /\ ~Pending(t) /\ config_gen' \in Nat
  BY DEF LibraryInv, Shape, Pending
<1>2. CASE L!Ends(t)
  <2>1. /\ Shape'
        /\ \A v \in operations' : v \in operations \/ Refresh(v)
        /\ \A v \in operations : v = t \/ v \in operations'
    BY <1>1, <1>2, EndsShape
  <2>2. \A v : Refresh(v) => Stamped(v)
    BY DEF Refresh, Stamped, Asked
  <2> QED BY <1>1, <2>1, <2>2, ListKept
<1>3. ASSUME NEW u, L!Becomes(t, u), OperationOK(u), u.n = t.n, u.op = t.op
      PROVE  /\ Shape' /\ ListInv'
             /\ \A v \in operations : v = t \/ v \in operations'
  <2>1. operations' = (operations \ {t}) \cup {u}
    BY <1>3 DEF L!Becomes
  <2>2. Shape'
    BY <1>1, <1>3, <2>1, MoveShape
  <2>3. Stamped(u)
    BY <1>3 DEF Stamped, Asked
  <2> QED BY <1>1, <2>1, <2>2, <2>3, ListKept
<1> QED BY <1>2, <1>3

(* No operation that follows another is one on the marks.                  *)
LEMMA EndsMarks ==
    ASSUME Shape, NEW t \in operations, L!Ends(t)
    PROVE  \A v \in operations' : v \in operations \ {t} \/ (~Rating(v) /\ ~Star(v))
<1>1. \A v : Refresh(v) => ~Rating(v) /\ ~Star(v)
  BY DEF Refresh, Rating, Star
<1> QED BY <1>1, EndsEffect

LEMMA LibraryWritesRandom ==
    ASSUME LibraryInv, NEW t \in operations, L!WritesRandom(t)
    PROVE  LibraryInv'
<1>1. /\ t.op = "random" /\ L!Ends(t) /\ begun' = begun
      /\ UNCHANGED <<folder, config_gen, artists, queue_copy, starred_id, rated,
                     starred, rating_updates>>
      /\ random_rating' = t.reply.rating /\ random_star' = t.reply.star
      /\ excused' = excused \cup L!OldMarks(t.reply)
  BY DEF L!WritesRandom, L!server, L!bounds
<1>2. /\ Shape /\ RatingInv /\ StarInv /\ ~Rating(t) /\ ~Star(t)
      /\ starred' \in BOOLEAN /\ DOMAIN queue_copy' = {"rating", "star"}
      /\ excused \subseteq excused'
  BY <1>1 DEF LibraryInv, Shape, Rating, Star
<1>3. /\ Shape' /\ ListInv'
      /\ \A v \in operations : v = t \/ v \in operations'
  BY <1>1, <1>2, LibraryMarks
<1>4. \A v \in operations' : v \in operations \/ (~Rating(v) /\ ~Star(v))
  BY <1>1, <1>2, EndsMarks
<1>5. StarInv'
  <2>1. \A v : Star(v) => (v \in operations' <=> v \in operations)
    BY <1>2, <1>3, <1>4
  <2>2. \A v : Star(v)' <=> Star(v)
    BY DEF Star
  <2>3. ASSUME "star" \notin excused'
        PROVE  /\ "star" \notin excused /\ random_star' = starred
               /\ \A v \in operations : v.op = "star" /\ v.step = "call" =>
                      v.asked = random_star'
    BY <1>1, <1>2, <2>3 DEF L!OldMarks
  <2>4. ASSUME "star" \notin excused', NEW v \in operations, Star(v), v.step # "rollback"
        PROVE  random_star' = v.asked
    BY <1>2, <2>3, <2>4 DEF StarInv, Star
  <2> SUFFICES ASSUME "star" \notin excused' PROVE StarInv'
    BY DEF StarInv
  <2>5. StarInv /\ "star" \notin excused /\ UNCHANGED <<queue_copy, starred_id, starred>>
    BY <1>1, <1>2, <2>3
  <2>6. (\A v \in operations' : ~Star(v)) =>
            starred_id' = starred' /\ queue_copy'.star = starred' /\ random_star' = starred'
    BY <2>1, <2>3, <2>5 DEF StarInv
  <2>7. \A v, w \in operations' : Star(v) /\ Star(w) => v = w
    BY <2>1, <2>5 DEF StarInv
  <2>8. ASSUME NEW v \in operations', Star(v)
        PROVE  /\ v.step \in {"call", "fetch", "adopt", "rollback"}
               /\ v.step \in {"call", "rollback"} => v.old = starred'
               /\ v.step \in {"fetch", "adopt"} => v.asked = starred'
               /\ v.step # "rollback" => queue_copy'.star = v.asked /\ random_star' = v.asked
               /\ v.step = "adopt" /\ ~v.failed => v.reply = starred'
    BY <2>1, <2>4, <2>5, <2>8 DEF StarInv
  <2> QED BY <2>2, <2>6, <2>7, <2>8 DEF StarInv
<1>6. RatingInv'
  <2>1. \A v : Rating(v) => (v \in operations' <=> v \in operations)
    BY <1>2, <1>3, <1>4
  <2>2. \A v : Rating(v)' <=> Rating(v)
    BY DEF Rating
  <2>3. "rating" \notin excused' =>
            "rating" \notin excused /\ (rating_updates = None => t.reply.rating = rated)
    BY <1>1, <1>2 DEF L!OldMarks
  <2> QED BY <1>1, <1>2, <2>1, <2>2, <2>3 DEF RatingInv
<1> QED BY <1>3, <1>5, <1>6 DEF LibraryInv

LEMMA LibraryWritesStarred ==
    ASSUME LibraryInv, NEW t \in operations, L!WritesStarred(t)
    PROVE  LibraryInv'
<1>1. /\ t.op = "starred" /\ L!Ends(t) /\ begun' = begun
      /\ UNCHANGED <<folder, config_gen, artists, queue_copy, random_rating, random_star, rated,
                     starred, rating_updates>>
      /\ starred_id' = t.reply
      /\ L!Excuse("star", t.reply # starred)
  BY DEF L!WritesStarred, L!server, L!bounds
<1>2. /\ Shape /\ RatingInv /\ StarInv /\ ~Rating(t) /\ ~Star(t)
      /\ starred' \in BOOLEAN /\ DOMAIN queue_copy' = {"rating", "star"}
      /\ "artists" \in excused => "artists" \in excused'
      /\ "rating" \in excused => "rating" \in excused'
  BY <1>1 DEF LibraryInv, Shape, Rating, Star, L!Excuse
<1>3. /\ Shape' /\ ListInv'
      /\ \A v \in operations : v = t \/ v \in operations'
  BY <1>1, <1>2, LibraryMarks
<1>4. \A v \in operations' : v \in operations \/ (~Rating(v) /\ ~Star(v))
  BY <1>1, <1>2, EndsMarks
<1>5. RatingInv'
  BY <1>1, <1>2, <1>3, <1>4, RatingKept
<1>6. StarInv'
  <2>1. \A v : Star(v) => (v \in operations' <=> v \in operations)
    BY <1>2, <1>3, <1>4
  <2>2. \A v : Star(v)' <=> Star(v)
    BY DEF Star
  <2>3. "star" \notin excused' => "star" \notin excused /\ starred_id' = starred
    BY <1>1 DEF L!Excuse
  <2> QED BY <1>1, <1>2, <2>1, <2>2, <2>3 DEF StarInv
<1> QED BY <1>3, <1>5, <1>6 DEF LibraryInv

-----------------------------------------------------------------------------
LEMMA LibraryRates ==
    ASSUME LibraryInv, NEW t \in operations, L!Rates(t)
    PROVE  LibraryInv'
<1> DEFINE u == [t EXCEPT !.step = "call", !.gen = config_gen, !.old = queue_copy.rating]
<1>1. /\ t.op = "rate" /\ t.step = "start" /\ rating_updates = None /\ begun' = begun
      /\ rating_updates' = t.n /\ random_rating' = t.asked
      /\ queue_copy' = [queue_copy EXCEPT !.rating = t.asked]
      /\ UNCHANGED <<folder, config_gen, artists, random_star, starred_id, rated, starred, excused>>
      /\ L!Becomes(t, u)
  BY DEF L!Rates, L!rating_is_free, L!server, L!bounds
<1>2. /\ Shape /\ RatingInv /\ StarInv /\ OperationOK(t) /\ ~Rating(t) /\ ~Star(t)
  BY <1>1 DEF LibraryInv, Shape, Rating, Star
<1>3. /\ DOMAIN u = Fields /\ u.n = t.n /\ u.op = t.op /\ u.then = t.then /\ u.step = "call"
      /\ u.old = queue_copy.rating /\ u.failed = t.failed
  BY <1>2 DEF OperationOK, Fields
<1> HIDE DEF u
<1>4. OperationOK(u) /\ Rating(u) /\ ~Star(u)
  BY <1>1, <1>2, <1>3 DEF OperationOK, Rating, Star
<1>5. /\ starred' \in BOOLEAN /\ DOMAIN queue_copy' = {"rating", "star"}
      /\ queue_copy'.star = queue_copy.star
  BY <1>1, <1>2 DEF Shape
<1>6. /\ Shape' /\ ListInv'
      /\ \A v \in operations : v = t \/ v \in operations'
  BY <1>1, <1>3, <1>4, <1>5, LibraryMarks
<1>7. operations' = (operations \ {t}) \cup {u}
  BY <1>1 DEF L!Becomes
<1>8. StarInv'
  BY <1>1, <1>2, <1>4, <1>5, <1>6, <1>7, StarKept
<1>9. RatingInv'
  <2>1. \A v \in operations : ~Rating(v)
    <3>1. \A v \in operations : v.n # None
      BY <1>2, BackgroundAssumption DEF BackgroundAssumption, Shape, OperationOK
    <3> QED BY <1>1, <1>2, <3>1 DEF RatingInv
  <2>2. \A v : Rating(v)' <=> Rating(v)
    BY DEF Rating
  <2>3. \A v \in operations' : Rating(v) => v = u
    BY <1>7, <2>1
  <2>4. t.n # None
    BY <1>2, BackgroundAssumption DEF BackgroundAssumption, OperationOK
  <2>5. "rating" \notin excused => u.old = rated
    BY <1>1, <1>2, <1>3 DEF RatingInv
  <2> QED BY <1>1, <1>3, <1>4, <1>7, <2>2, <2>3, <2>4, <2>5 DEF RatingInv
<1> QED BY <1>6, <1>8, <1>9 DEF LibraryInv

(* The update that holds the lock is the only one with a call out.         *)
LEMMA OneRating ==
    ASSUME Shape, RatingInv, NEW t \in operations, Rating(t)
    PROVE  \A v \in operations : Rating(v) => v = t
BY DEF Shape, RatingInv

LEMMA LibraryCallsSetRating ==
    ASSUME LibraryInv, NEW t \in operations, L!CallsSetRating(t)
    PROVE  LibraryInv'
<1>1. /\ t.op = "rate" /\ t.step = "call" /\ begun' = begun
      /\ UNCHANGED <<folder, config_gen, artists, queue_copy, random_rating, random_star,
                     starred_id, starred, rating_updates>>
  BY DEF L!CallsSetRating, L!caches
<1>2. /\ Shape /\ RatingInv /\ StarInv /\ OperationOK(t) /\ Rating(t) /\ ~Star(t)
      /\ starred' \in BOOLEAN /\ DOMAIN queue_copy' = {"rating", "star"}
  BY <1>1 DEF LibraryInv, Shape, Rating, Star
<1>3. ASSUME NEW u, L!Becomes(t, u), DOMAIN u = Fields, u.n = t.n, u.op = t.op, u.then = t.then,
             u.step = "commit",
             "artists" \in excused => "artists" \in excused',
             "rating" \in excused => "rating" \in excused',
             "star" \in excused => "star" \in excused',
             "rating" \notin excused' => IF ~u.failed THEN u.asked = rated' ELSE u.old = rated'
      PROVE  LibraryInv'
  <2>1. OperationOK(u) /\ Rating(u) /\ ~Star(u)
    BY <1>1, <1>2, <1>3 DEF OperationOK, Rating, Star
  <2>2. /\ Shape' /\ ListInv'
        /\ \A v \in operations : v = t \/ v \in operations'
    BY <1>1, <1>2, <1>3, <2>1, LibraryMarks
  <2>3. operations' = (operations \ {t}) \cup {u}
    BY <1>3 DEF L!Becomes
  <2>4. StarInv'
    BY <1>1, <1>2, <1>3, <2>1, <2>2, <2>3, StarKept
  <2>5. RatingInv'
    <3>1. \A v \in operations' : Rating(v) => v = u
      BY <1>2, <2>3, OneRating
    <3>2. \A v : Rating(v)' <=> Rating(v)
      BY DEF Rating
    <3>3. rating_updates' = u.n /\ u \in operations'
      BY <1>1, <1>2, <1>3, <2>3 DEF RatingInv
    <3>4. rating_updates # None
      BY <1>2, <3>3, <1>3, <1>1, BackgroundAssumption DEF BackgroundAssumption, OperationOK
    <3> QED BY <1>1, <1>3, <2>1, <3>1, <3>2, <3>3, <3>4 DEF RatingInv
  <2> QED BY <2>2, <2>4, <2>5 DEF LibraryInv
<1>4. "rating" \notin excused => t.old = rated
  BY <1>1, <1>2 DEF RatingInv
<1>5. t.failed = FALSE /\ DOMAIN t = Fields
  BY <1>1, <1>2 DEF OperationOK
<1>6. CASE /\ rated' = t.asked /\ UNCHANGED excused
           /\ L!Becomes(t, [t EXCEPT !.step = "commit"])
  <2> DEFINE u == [t EXCEPT !.step = "commit"]
  <2>1. /\ L!Becomes(t, u) /\ DOMAIN u = Fields /\ u.n = t.n /\ u.op = t.op /\ u.then = t.then
        /\ u.step = "commit" /\ u.failed = FALSE /\ u.asked = t.asked
    BY <1>5, <1>6 DEF Fields
  <2> HIDE DEF u
  <2> QED BY <1>3, <1>6, <2>1
<1>7. CASE /\ \/ UNCHANGED <<rated, excused>>
              \/ rated' = t.asked /\ L!Excuse("rating", rated # t.asked)
           /\ L!Becomes(t, [t EXCEPT !.step = "commit", !.failed = TRUE])
  <2> DEFINE u == [t EXCEPT !.step = "commit", !.failed = TRUE]
  <2>1. /\ L!Becomes(t, u) /\ DOMAIN u = Fields /\ u.n = t.n /\ u.op = t.op /\ u.then = t.then
        /\ u.step = "commit" /\ u.failed = TRUE /\ u.old = t.old
    BY <1>5, <1>7 DEF Fields
  <2>2. /\ "artists" \in excused => "artists" \in excused'
        /\ "rating" \in excused => "rating" \in excused'
        /\ "star" \in excused => "star" \in excused'
        /\ "rating" \notin excused' => "rating" \notin excused /\ rated' = rated
    BY <1>7 DEF L!Excuse
  <2> HIDE DEF u
  <2> QED BY <1>3, <1>4, <2>1, <2>2
<1> QED BY <1>6, <1>7 DEF L!CallsSetRating

LEMMA LibraryCommitsRating ==
    ASSUME LibraryInv, NEW t \in operations, L!CommitsRating(t)
    PROVE  LibraryInv'
<1> DEFINE kept == IF t.failed THEN t.old ELSE t.asked
           copies == {queue_copy.rating, random_rating}
<1>1. /\ t.op = "rate" /\ t.step = "commit" /\ begun' = begun /\ L!Ends(t)
      /\ rating_updates' = None
      /\ UNCHANGED <<folder, config_gen, artists, random_star, starred_id, rated, starred>>
      /\ \/ /\ UNCHANGED <<queue_copy, random_rating>>
            /\ L!Excuse("rating", copies # {rated})
         \/ /\ queue_copy' = [queue_copy EXCEPT !.rating = kept]
            /\ random_rating' = kept
            /\ UNCHANGED excused
  BY DEF L!CommitsRating, L!server, L!bounds
<1>2. /\ Shape /\ RatingInv /\ StarInv /\ Rating(t) /\ ~Star(t)
  BY <1>1 DEF LibraryInv, Shape, Rating, Star
<1>3. /\ starred' \in BOOLEAN /\ DOMAIN queue_copy' = {"rating", "star"}
      /\ queue_copy'.star = queue_copy.star
  BY <1>1, <1>2 DEF Shape
<1>4. /\ "artists" \in excused => "artists" \in excused'
      /\ "rating" \in excused => "rating" \in excused'
      /\ "star" \in excused => "star" \in excused'
  BY <1>1 DEF L!Excuse
<1>5. /\ Shape' /\ ListInv'
      /\ \A v \in operations : v = t \/ v \in operations'
  BY <1>1, <1>2, <1>3, <1>4, LibraryMarks
<1>6. \A v \in operations' : v \in operations \ {t} \/ (~Rating(v) /\ ~Star(v))
  BY <1>1, <1>2, EndsMarks
<1>7. StarInv'
  BY <1>1, <1>2, <1>3, <1>4, <1>5, <1>6, StarKept
<1>8. RatingInv'
  <2>1. \A v \in operations' : ~Rating(v)
    BY <1>2, <1>6, OneRating
  <2>2. \A v : Rating(v)' <=> Rating(v)
    BY DEF Rating
  <2>3. "rating" \notin excused => kept = rated
    BY <1>1, <1>2 DEF RatingInv
  <2> HIDE DEF kept
  <2>4. "rating" \notin excused' => queue_copy'.rating = rated /\ random_rating' = rated
    <3>1. CASE UNCHANGED <<queue_copy, random_rating>> /\ L!Excuse("rating", copies # {rated})
      <4>1. "rating" \notin excused' => copies = {rated}
        BY <3>1 DEF L!Excuse
      <4> QED BY <3>1, <4>1
    <3>2. CASE /\ queue_copy' = [queue_copy EXCEPT !.rating = kept]
               /\ random_rating' = kept
               /\ UNCHANGED excused
      BY <1>2, <2>3, <3>2 DEF Shape
    <3> QED BY <1>1, <3>1, <3>2
  <2> QED BY <1>1, <2>1, <2>2, <2>4 DEF RatingInv
<1> QED BY <1>5, <1>7, <1>8 DEF LibraryInv

-----------------------------------------------------------------------------
LEMMA LibraryToggles ==
    ASSUME LibraryInv, NEW t \in operations, L!Toggles(t)
    PROVE  LibraryInv'
<1> DEFINE u == [t EXCEPT !.step = "call", !.gen = config_gen, !.old = L!song_is_starred,
                          !.asked = ~L!song_is_starred]
<1>1. /\ t.op = "star" /\ t.step = "start" /\ begun' = begun /\ L!Becomes(t, u)
      /\ starred_id' = ~L!song_is_starred /\ random_star' = ~L!song_is_starred
      /\ queue_copy' = [queue_copy EXCEPT !.star = ~L!song_is_starred]
      /\ L!Excuse("star", L!Toggling)
      /\ UNCHANGED <<folder, config_gen, artists, random_rating, rated, starred, rating_updates>>
  BY DEF L!Toggles, L!server, L!bounds
<1>2. /\ Shape /\ RatingInv /\ StarInv /\ OperationOK(t) /\ ~Rating(t) /\ ~Star(t)
  BY <1>1 DEF LibraryInv, Shape, Rating, Star
<1>3. /\ DOMAIN u = Fields /\ u.n = t.n /\ u.op = t.op /\ u.then = t.then /\ u.step = "call"
      /\ u.old = L!song_is_starred /\ u.asked = ~L!song_is_starred
  BY <1>2 DEF OperationOK, Fields
<1> HIDE DEF u
<1>4. OperationOK(u) /\ ~Rating(u) /\ Star(u)
  BY <1>1, <1>2, <1>3 DEF OperationOK, Rating, Star
<1>5. /\ starred' \in BOOLEAN /\ DOMAIN queue_copy' = {"rating", "star"}
      /\ queue_copy'.rating = queue_copy.rating /\ queue_copy'.star = ~L!song_is_starred
      /\ "artists" \in excused => "artists" \in excused'
      /\ "rating" \in excused => "rating" \in excused'
      /\ "star" \notin excused' => "star" \notin excused /\ ~L!Toggling
  BY <1>1, <1>2 DEF Shape, L!Excuse
<1>6. /\ Shape' /\ ListInv'
      /\ \A v \in operations : v = t \/ v \in operations'
  BY <1>1, <1>3, <1>4, <1>5, LibraryMarks
<1>7. operations' = (operations \ {t}) \cup {u}
  BY <1>1 DEF L!Becomes
<1>8. RatingInv'
  BY <1>1, <1>2, <1>4, <1>5, <1>6, <1>7, RatingKept
<1>9. StarInv'
  <2> SUFFICES ASSUME "star" \notin excused' PROVE StarInv'
    BY DEF StarInv
  <2>1. \A v \in operations : ~Star(v)
    BY <1>5 DEF L!Toggling, Star
  <2>2. /\ starred_id = starred /\ queue_copy.star = starred /\ random_star = starred
        /\ starred \in BOOLEAN
    BY <1>2, <1>5, <2>1 DEF StarInv, Shape
  <2>3. L!song_is_starred = starred
    BY <2>2 DEF L!song_is_starred
  <2>4. \A v \in operations' : Star(v) => v = u
    BY <1>7, <2>1
  <2>5. \A v : Star(v)' <=> Star(v)
    BY DEF Star
  <2>6. /\ u.step = "call" /\ u.old = starred'
        /\ queue_copy'.star = u.asked /\ random_star' = u.asked /\ u \in operations'
    BY <1>1, <1>3, <1>5, <1>7, <2>3
  <2> QED BY <1>4, <2>4, <2>5, <2>6 DEF StarInv
<1> QED BY <1>6, <1>8, <1>9 DEF LibraryInv

(* A step of the toggle under way: what it leaves to the next, or to rest. *)
LEMMA StarSteps ==
    ASSUME LibraryInv, NEW t \in operations, Star(t), begun' = begun, starred' \in BOOLEAN,
           UNCHANGED <<folder, config_gen, artists, random_rating, rated, rating_updates,
                       queue_copy.rating>>,
           DOMAIN queue_copy' = {"rating", "star"},
           "artists" \in excused => "artists" \in excused',
           "rating" \in excused => "rating" \in excused',
           "star" \in excused => "star" \in excused',
           \/ /\ L!Ends(t)
              /\ "star" \notin excused' =>
                    starred_id' = starred' /\ queue_copy'.star = starred' /\ random_star' = starred'
           \/ \E u : /\ L!Becomes(t, u) /\ DOMAIN u = Fields
                     /\ u.n = t.n /\ u.op = t.op /\ u.then = t.then
                     /\ u.step \in {"fetch", "adopt", "rollback"}
                     /\ "star" \notin excused' =>
                           /\ u.step = "rollback" => u.old = starred'
                           /\ u.step \in {"fetch", "adopt"} =>
                                 /\ u.asked = starred'
                                 /\ queue_copy'.star = u.asked /\ random_star' = u.asked
                           /\ u.step = "adopt" /\ ~u.failed => u.reply = starred'
    PROVE  LibraryInv'
<1>1. /\ Shape /\ RatingInv /\ StarInv /\ OperationOK(t) /\ ~Rating(t) /\ t.op = "star"
  BY DEF LibraryInv, Shape, Rating, Star
<1>2. "star" \notin excused => \A v \in operations : Star(v) => v = t
  BY <1>1 DEF StarInv
<1>3. \A v : Star(v)' <=> Star(v)
  BY DEF Star
<1>4. ASSUME L!Ends(t),
             "star" \notin excused' =>
                 starred_id' = starred' /\ queue_copy'.star = starred' /\ random_star' = starred'
      PROVE  LibraryInv'
  <2>1. /\ Shape' /\ ListInv'
        /\ \A v \in operations : v = t \/ v \in operations'
    BY <1>1, <1>4, LibraryMarks
  <2>2. \A v \in operations' : v \in operations \ {t} \/ (~Rating(v) /\ ~Star(v))
    BY <1>1, <1>4, EndsMarks
  <2>3. RatingInv'
    BY <1>1, <2>1, <2>2, RatingKept
  <2>4. "star" \notin excused' => \A v \in operations' : ~Star(v)
    BY <1>2, <2>2
  <2>5. StarInv'
    BY <1>3, <1>4, <2>4 DEF StarInv
  <2> QED BY <2>1, <2>3, <2>5 DEF LibraryInv
<1>5. ASSUME NEW u, L!Becomes(t, u), DOMAIN u = Fields,
             u.n = t.n, u.op = t.op, u.then = t.then, u.step \in {"fetch", "adopt", "rollback"},
             "star" \notin excused' =>
                 /\ u.step = "rollback" => u.old = starred'
                 /\ u.step \in {"fetch", "adopt"} =>
                       u.asked = starred' /\ queue_copy'.star = u.asked /\ random_star' = u.asked
                 /\ u.step = "adopt" /\ ~u.failed => u.reply = starred'
      PROVE  LibraryInv'
  <2>1. OperationOK(u) /\ ~Rating(u) /\ Star(u)
    BY <1>1, <1>5 DEF OperationOK, Rating, Star
  <2>2. /\ Shape' /\ ListInv'
        /\ \A v \in operations : v = t \/ v \in operations'
    BY <1>1, <1>5, <2>1, LibraryMarks
  <2>3. operations' = (operations \ {t}) \cup {u}
    BY <1>5 DEF L!Becomes
  <2>4. RatingInv'
    BY <1>1, <2>1, <2>2, <2>3, RatingKept
  <2>5. "star" \notin excused' => \A v \in operations' : Star(v) => v = u
    BY <1>2, <2>3
  <2>6. StarInv'
    BY <1>3, <1>5, <2>1, <2>3, <2>5 DEF StarInv
  <2> QED BY <2>2, <2>4, <2>6 DEF LibraryInv
<1> QED BY <1>4, <1>5

LEMMA LibraryStars ==
    ASSUME LibraryInv, NEW t \in operations,
           L!CallsStar(t) \/ L!RollsBackStar(t) \/ L!FetchesStarred(t) \/ L!AdoptsStarred(t)
    PROVE  LibraryInv'
<1>1. t.op = "star" /\ Star(t) /\ DOMAIN t = Fields
  BY DEF LibraryInv, Shape, OperationOK, Star, L!CallsStar, L!RollsBackStar, L!FetchesStarred,
         L!AdoptsStarred
<1>2. /\ begun' = begun
      /\ UNCHANGED <<folder, config_gen, artists, random_rating, rated, rating_updates>>
      /\ queue_copy' = queue_copy \/ queue_copy' = [queue_copy EXCEPT !.star = t.old]
      /\ excused' = excused \/ excused' = excused \cup {"star"}
  BY DEF L!CallsStar, L!RollsBackStar, L!FetchesStarred, L!AdoptsStarred, L!Excuse,
         L!caches, L!server, L!bounds
<1>3. /\ DOMAIN queue_copy = {"rating", "star"} /\ DOMAIN queue_copy' = {"rating", "star"}
      /\ UNCHANGED queue_copy.rating
      /\ "artists" \in excused => "artists" \in excused'
      /\ "rating" \in excused => "rating" \in excused'
      /\ "star" \in excused => "star" \in excused'
  BY <1>2 DEF LibraryInv, Shape
<1>4. /\ starred \in BOOLEAN /\ (t.step = "call" => t.asked \in BOOLEAN)
      /\ "star" \notin excused =>
           /\ t.step \in {"call", "rollback"} => t.old = starred
           /\ t.step \in {"fetch", "adopt"} => t.asked = starred
           /\ t.step # "rollback" => queue_copy.star = t.asked /\ random_star = t.asked
           /\ t.step = "adopt" /\ ~t.failed => t.reply = starred
  BY <1>1 DEF LibraryInv, Shape, OperationOK, StarInv
<1>5. CASE L!CallsStar(t)
  <2>1. t.step = "call" /\ UNCHANGED <<queue_copy, random_star, starred_id>>
    BY <1>5 DEF L!CallsStar, L!caches
  <2>2. CASE /\ starred' = t.asked /\ UNCHANGED excused
             /\ L!Becomes(t, [t EXCEPT !.step = "fetch"])
    <3> DEFINE u == [t EXCEPT !.step = "fetch"]
    <3>1. /\ L!Becomes(t, u) /\ DOMAIN u = Fields /\ u.n = t.n /\ u.op = t.op /\ u.then = t.then
          /\ u.step = "fetch" /\ u.asked = t.asked
      BY <1>1, <2>2 DEF Fields
    <3> HIDE DEF u
    <3> QED BY <1>1, <1>2, <1>3, <1>4, <2>1, <2>2, <3>1, StarSteps
  <2>3. CASE /\ \/ UNCHANGED <<starred, excused>>
                \/ starred' = t.asked /\ L!Excuse("star", TRUE)
             /\ L!Becomes(t, [t EXCEPT !.step = "rollback"])
    <3> DEFINE u == [t EXCEPT !.step = "rollback"]
    <3>1. /\ L!Becomes(t, u) /\ DOMAIN u = Fields /\ u.n = t.n /\ u.op = t.op /\ u.then = t.then
          /\ u.step = "rollback" /\ u.old = t.old
      BY <1>1, <2>3 DEF Fields
    <3>2. starred' \in BOOLEAN /\ ("star" \notin excused' => starred' = starred)
      BY <1>4, <2>1, <2>3 DEF L!Excuse
    <3> HIDE DEF u
    <3> QED BY <1>1, <1>2, <1>3, <1>4, <2>1, <3>1, <3>2, StarSteps
  <2> QED BY <1>5, <2>2, <2>3 DEF L!CallsStar
<1>6. CASE L!RollsBackStar(t)
  <2>1. /\ L!Ends(t) /\ starred_id' = t.old /\ UNCHANGED starred /\ t.step = "rollback"
        /\ queue_copy' = [queue_copy EXCEPT !.star = t.old] /\ random_star' = t.old
        /\ UNCHANGED excused
    BY <1>6 DEF L!RollsBackStar, L!server
  <2>2. queue_copy'.star = t.old
    BY <1>3, <2>1
  <2> QED BY <1>1, <1>2, <1>3, <1>4, <2>1, <2>2, StarSteps
<1>7. CASE L!FetchesStarred(t)
  <2>1. UNCHANGED <<starred, queue_copy, random_star, excused>> /\ t.step = "fetch"
    BY <1>7 DEF L!FetchesStarred, L!caches, L!server
  <2>2. ASSUME NEW u, L!Becomes(t, u), DOMAIN u = Fields, u.n = t.n, u.op = t.op, u.then = t.then,
               u.step = "adopt", u.asked = t.asked, ~u.failed => u.reply = starred
        PROVE  LibraryInv'
    BY <1>1, <1>2, <1>3, <1>4, <2>1, <2>2, StarSteps
  <2>3. CASE L!Becomes(t, [t EXCEPT !.step = "adopt", !.reply = starred])
    <3> DEFINE u == [t EXCEPT !.step = "adopt", !.reply = starred]
    <3>1. /\ L!Becomes(t, u) /\ DOMAIN u = Fields /\ u.n = t.n /\ u.op = t.op /\ u.then = t.then
          /\ u.step = "adopt" /\ u.asked = t.asked /\ u.reply = starred
      BY <1>1, <2>3 DEF Fields
    <3> HIDE DEF u
    <3> QED BY <2>2, <3>1
  <2>4. CASE L!Becomes(t, [t EXCEPT !.step = "adopt", !.failed = TRUE])
    <3> DEFINE u == [t EXCEPT !.step = "adopt", !.failed = TRUE]
    <3>1. /\ L!Becomes(t, u) /\ DOMAIN u = Fields /\ u.n = t.n /\ u.op = t.op /\ u.then = t.then
          /\ u.step = "adopt" /\ u.asked = t.asked /\ u.failed = TRUE
      BY <1>1, <2>4 DEF Fields
    <3> HIDE DEF u
    <3> QED BY <2>2, <3>1
  <2> QED BY <1>7, <2>3, <2>4 DEF L!FetchesStarred
<1>8. CASE L!AdoptsStarred(t)
  <2>1. /\ L!Ends(t) /\ UNCHANGED <<starred, queue_copy, random_star>> /\ t.step = "adopt"
        /\ \/ UNCHANGED starred_id /\ L!Excuse("star", starred_id # t.asked)
           \/ ~t.failed /\ starred_id' = t.reply /\ UNCHANGED excused
    BY <1>8 DEF L!AdoptsStarred, L!server
  <2>2. "star" \notin excused' =>
            starred_id' = starred' /\ queue_copy'.star = starred' /\ random_star' = starred'
    BY <1>3, <1>4, <2>1 DEF L!Excuse
  <2> QED BY <1>1, <1>2, <1>3, <1>4, <2>1, <2>2, StarSteps
<1> QED BY <1>5, <1>6, <1>7, <1>8

LEMMA LibraryStep == LibraryInv /\ [L!Next]_varsL => LibraryInv'
<1> SUFFICES ASSUME LibraryInv, [L!Next]_varsL PROVE LibraryInv'
  OBVIOUS
<1>1. ASSUME NEW op \in {"artists", "random", "starred", "folder", "rate", "star"}, L!Begins(op)
      PROVE  LibraryInv'
  BY <1>1, LibraryBegins
<1>2. ASSUME L!Proceeds PROVE LibraryInv'
  <2>1. PICK t \in operations :
            \/ L!ClonesClient(t) \/ L!ReadsGen(t) \/ L!Asks(t) \/ L!Checks(t)
            \/ L!WritesArtists(t) \/ L!WritesRandom(t) \/ L!WritesStarred(t)
            \/ L!apply_music_folder(t)
            \/ L!Rates(t) \/ L!CallsSetRating(t) \/ L!CommitsRating(t)
            \/ L!Toggles(t) \/ L!CallsStar(t) \/ L!RollsBackStar(t)
            \/ L!FetchesStarred(t) \/ L!AdoptsStarred(t)
    BY <1>2 DEF L!Proceeds
  <2>2. CASE L!ClonesClient(t) \/ L!ReadsGen(t) \/ L!Asks(t) \/ L!Checks(t)
    BY <2>2, LibraryRefreshes
  <2>3. CASE L!WritesArtists(t)
    BY <2>3, LibraryWritesArtists
  <2>4. CASE L!WritesRandom(t)
    BY <2>4, LibraryWritesRandom
  <2>5. CASE L!WritesStarred(t)
    BY <2>5, LibraryWritesStarred
  <2>6. CASE L!apply_music_folder(t)
    BY <2>6, LibrarySwitches
  <2>7. CASE L!Rates(t)
    BY <2>7, LibraryRates
  <2>8. CASE L!CallsSetRating(t)
    BY <2>8, LibraryCallsSetRating
  <2>9. CASE L!CommitsRating(t)
    BY <2>9, LibraryCommitsRating
  <2>10. CASE L!Toggles(t)
    BY <2>10, LibraryToggles
  <2>11. CASE L!CallsStar(t) \/ L!RollsBackStar(t) \/ L!FetchesStarred(t) \/ L!AdoptsStarred(t)
    BY <2>11, LibraryStars
  <2> QED BY <2>1, <2>2, <2>3, <2>4, <2>5, <2>6, <2>7, <2>8, <2>9, <2>10, <2>11
<1>3. CASE UNCHANGED varsL
  BY <1>3 DEF varsL, LibraryInv, Shape, OperationOK, ListInv, Stamped, Pending, RatingInv,
     Rating, StarInv, Star
<1> QED BY <1>1, <1>2, <1>3 DEF L!Next

LEMMA LibraryAtRest == LibraryInv => L!QuietListIsCurrent /\ L!MarksAgree
BY DEF LibraryInv, ListInv, RatingInv, StarInv, Pending, L!QuietListIsCurrent, L!MarksAgree,
   L!RatingsAgree, L!StarsAgree, L!Quiet

(***************************************************************************)
(* The offline cache (TrackCache, as T): a download that is under way has  *)
(* the reservation of its song (Reservations), and a song is reserved only *)
(* while it is not indexed; so a commit counts a song that was not         *)
(* counted, and a rename moves a file that only the download that finished *)
(* it has written (Files).                                                 *)
(***************************************************************************)
Downloading(t) == t.step \in {"get", "write", "rename", "commit"}

CacheFile == [of : CachedSongs, whole : BOOLEAN] \cup {None}

DownloadSteps == {"spawned", "get", "write", "rename", "commit"}

DownloadTyped(t) ==
    t \in [id : CachedSongs, url : CachedSongs, step : DownloadSteps, cap : Caps \cup {None}]

CacheTyped ==
    /\ play_queue \in Seq(CachedSongs)
    /\ start # None => start.song \in CachedSongs
    /\ cap \in Caps
    /\ index \subseteq CachedSongs /\ IsFiniteSet(index)
    /\ saved \subseteq CachedSongs /\ IsFiniteSet(saved)
    /\ disk \in [CachedSongs \X {"audio", "part"} -> CacheFile]
    /\ \A t \in tasks : DownloadTyped(t)

Reservations ==
    /\ index \cap in_flight = {}
    /\ \A t \in tasks : Downloading(t) => t.id \in in_flight
    /\ \A t, u \in tasks : Downloading(t) /\ Downloading(u) /\ t.id = u.id => t = u

Files ==
    /\ \A id \in CachedSongs : disk[T!final_path(id)] # None => disk[T!final_path(id)].whole
    /\ \A t \in tasks : t.step = "rename" => disk[T!part_path(t.id)].whole

Accounted == total_bytes = Cardinality(index)

CacheInv == CacheTyped /\ Reservations /\ Files /\ Accounted

LEMMA CacheInit ==
    ASSUME T!Init
    PROVE  CacheInv
<1>1. Cardinality(CachedSongs) \in Nat
  BY FS_CardinalityType, BackgroundAssumption DEF BackgroundAssumption
<1>2. play_queue \in Seq(CachedSongs)
  <2>1. T!Cardinality(CachedSongs) = Cardinality(CachedSongs)
    BY DEF T!Cardinality, Cardinality
  <2> QED BY <1>1, <2>1 DEF T!Init
<1>3. IsFiniteSet({}) /\ Cardinality({}) = 0
  BY FS_EmptySet
<1> QED
  BY <1>2, <1>3 DEF T!Init, CacheInv, CacheTyped, CacheFile, Reservations, Files, Accounted,
     T!final_path

LEMMA CacheQueueTyped ==
    ASSUME play_queue \in Seq(CachedSongs), T!EditsQueue
    PROVE  play_queue' \in Seq(CachedSongs)
<1>1. PICK i \in DOMAIN play_queue :
          LET rest == T!RemoveAt(play_queue, i)
          IN  \/ play_queue' = rest
              \/ \E j \in 1..Len(play_queue) : play_queue' = T!InsertAt(rest, j, play_queue[i])
  BY DEF T!EditsQueue
<1> DEFINE rest == T!RemoveAt(play_queue, i)
<1>2. i \in 1..Len(play_queue) /\ play_queue[i] \in CachedSongs
  OBVIOUS
<1>3. rest \in Seq(CachedSongs) /\ Len(rest) = Len(play_queue) - 1
  BY <1>2, SubSeqProperties, ConcatProperties DEF T!RemoveAt
<1>4. ASSUME NEW j \in 1..Len(play_queue), play_queue' = T!InsertAt(rest, j, play_queue[i])
      PROVE  play_queue' \in Seq(CachedSongs)
  <2>1. j \in 1..(Len(rest) + 1)
    BY <1>3
  <2> HIDE DEF rest
  <2> QED BY <1>2, <1>3, <1>4, <2>1, SubSeqProperties, ConcatProperties DEF T!InsertAt
<1> QED BY <1>1, <1>3, <1>4

(* What a step of a download keeps of the tasks.                               *)
LEMMA GoesKeeps ==
    ASSUME \A t \in tasks : DownloadTyped(t), Reservations,
           NEW t \in tasks, Downloading(t), NEW u, DownloadTyped(u), u.id = t.id,
           tasks' = (tasks \ {t}) \cup {u}, UNCHANGED <<index, in_flight>>
    PROVE  /\ \A v \in tasks' : DownloadTyped(v)
           /\ Reservations'
           /\ \A v \in tasks' : Downloading(v) => v = u \/ (v \in tasks /\ v.id # t.id)
<1>1. \A v \in tasks' : DownloadTyped(v)
  BY DEF DownloadTyped
<1>2. \A v \in tasks' : v = u \/ (v \in tasks /\ v # t)
  OBVIOUS
<1>3. \A v \in tasks : Downloading(v) /\ v # t => v.id # t.id
  BY DEF Reservations
<1>4. \A v \in tasks' : Downloading(v) => v = u \/ (v \in tasks /\ v.id # t.id)
  BY <1>2, <1>3
<1>5. index' \cap in_flight' = {}
  BY DEF Reservations
<1>6. \A v \in tasks' : Downloading(v) => v.id \in in_flight'
  BY <1>4 DEF Reservations
<1>7. \A v, w \in tasks' : Downloading(v) /\ Downloading(w) /\ v.id = w.id => v = w
  BY <1>4 DEF Reservations
<1> QED BY <1>1, <1>4, <1>5, <1>6, <1>7 DEF Reservations, Downloading

(* A download that is over, well or not, leaves the others theirs.             *)
LEMMA EndKeeps ==
    ASSUME Reservations, NEW t \in tasks, Downloading(t),
           tasks' = tasks \ {t}, in_flight' = in_flight \ {t.id},
           index' \subseteq index \cup {t.id}
    PROVE  Reservations' /\ \A v \in tasks' : Downloading(v) => v.id # t.id
<1>1. \A v \in tasks' : Downloading(v) => v.id # t.id
  BY DEF Reservations
<1>2. index' \cap in_flight' = {}
  BY DEF Reservations
<1>3. \A v \in tasks' : Downloading(v) => v.id \in in_flight'
  BY <1>1 DEF Reservations
<1> QED BY <1>1, <1>2, <1>3 DEF Reservations, Downloading

LEMMA CacheStarts ==
    ASSUME CacheInv, NEW pos \in DOMAIN play_queue, T!commit_play_state(pos)
    PROVE  CacheInv'
<1>1. start' # None => start'.song \in CachedSongs
  BY DEF CacheInv, CacheTyped, T!commit_play_state
<1> QED
  BY <1>1 DEF CacheInv, CacheTyped, DownloadTyped, CacheFile, Reservations, Downloading,
     Files, Accounted, T!commit_play_state, T!settings, T!memory, T!files

LEMMA CacheSpawns ==
    ASSUME CacheInv, T!spawn_cache_population
    PROVE  CacheInv'
<1>1. \A v \in tasks' : v \in tasks \/ (DownloadTyped(v) /\ v.step = "spawned")
  <2>1. CASE tasks' = tasks
    BY <2>1
  <2>2. CASE start.pos \in DOMAIN play_queue /\ tasks' = tasks \cup
                 {[id |-> play_queue[start.pos], url |-> start.song, step |-> "spawned",
                   cap |-> None]}
    <3>1. play_queue[start.pos] \in CachedSongs /\ start.song \in CachedSongs
      BY <2>2 DEF CacheInv, CacheTyped, T!spawn_cache_population
    <3> QED BY <2>2, <3>1 DEF DownloadTyped, DownloadSteps
  <2> QED BY <2>1, <2>2 DEF T!spawn_cache_population
<1>2. UNCHANGED <<play_queue, cap, index, in_flight, total_bytes, disk, saved>> /\ start' = None
  BY DEF T!spawn_cache_population, T!settings, T!memory, T!files
<1>3. CacheTyped'
  BY <1>1, <1>2 DEF CacheInv, CacheTyped, CacheFile, DownloadTyped
<1>4. \A v \in tasks' : Downloading(v) \/ v.step = "rename" => v \in tasks
  BY <1>1 DEF Downloading
<1>5. Reservations' /\ Files'
  BY <1>2, <1>4 DEF CacheInv, Reservations, Downloading, Files, T!final_path, T!part_path
<1> QED BY <1>2, <1>3, <1>5 DEF CacheInv, Accounted

LEMMA CacheBegins ==
    ASSUME CacheInv, NEW t \in tasks, T!begin(t)
    PROVE  CacheInv'
<1>1. UNCHANGED <<play_queue, start, cap, index, total_bytes, disk, saved>>
  BY DEF T!begin, T!settings, T!files
<1>2. CASE T!Reserved(t.id)
  <2>1. tasks' = tasks \ {t} /\ in_flight' = in_flight
    BY <1>2 DEF T!begin
  <2> QED
    BY <1>1, <2>1 DEF CacheInv, CacheTyped, DownloadTyped, CacheFile, Reservations,
       Downloading, Files, Accounted, T!final_path, T!part_path
<1>3. CASE ~T!Reserved(t.id)
  <2> DEFINE u == [t EXCEPT !.step = "get"]
  <2>1. tasks' = (tasks \ {t}) \cup {u} /\ in_flight' = in_flight \cup {t.id}
    BY <1>3 DEF T!begin, T!Goes
  <2>2. t.id \notin index /\ t.id \notin in_flight
    BY <1>3 DEF T!Reserved
  <2>3. DownloadTyped(u) /\ u.id = t.id /\ u.step = "get"
    BY DEF CacheInv, CacheTyped, DownloadTyped, DownloadSteps
  <2> HIDE DEF u
  <2>4. CacheTyped'
    BY <1>1, <2>1, <2>3 DEF CacheInv, CacheTyped, DownloadTyped, CacheFile, DownloadSteps
  <2>5. \A v \in tasks : Downloading(v) => v.id # t.id
    BY <2>2 DEF CacheInv, Reservations
  <2>6. Reservations'
    BY <1>1, <2>1, <2>2, <2>3, <2>5 DEF CacheInv, Reservations, Downloading
  <2>7. Files'
    BY <1>1, <2>1, <2>3 DEF CacheInv, Files, T!final_path, T!part_path
  <2> QED BY <1>1, <2>4, <2>6, <2>7 DEF CacheInv, Accounted
<1> QED BY <1>2, <1>3

(* The steps of a download.                                                    *)
LEMMA CacheFileNames ==
    ASSUME NEW id \in CachedSongs
    PROVE  /\ T!part_path(id) \in CachedSongs \X {"audio", "part"}
           /\ T!final_path(id) \in CachedSongs \X {"audio", "part"}
           /\ \A other \in CachedSongs : T!part_path(id) # T!final_path(other)
           /\ \A other \in CachedSongs : T!part_path(id) = T!part_path(other) => id = other
           /\ \A other \in CachedSongs : T!final_path(id) = T!final_path(other) => id = other
BY DEF T!part_path, T!final_path

LEMMA CacheDownloads ==
    ASSUME CacheInv, NEW t \in tasks, T!download_to_path(t)
    PROVE  CacheInv'
<1>1. UNCHANGED <<play_queue, start, cap, index, in_flight, total_bytes, saved>>
  BY DEF T!download_to_path, T!settings, T!memory
<1>2. PICK step \in {"write", "rename"}, whole \in BOOLEAN :
          /\ t.step \in {"get", "write"}
          /\ tasks' = (tasks \ {t}) \cup {[t EXCEPT !.step = step]}
          /\ disk' = [disk EXCEPT ![T!part_path(t.id)] = [of |-> t.url, whole |-> whole]]
          /\ step = "rename" => whole
  BY DEF T!download_to_path, T!Goes
<1> DEFINE u == [t EXCEPT !.step = step]
<1> DEFINE put == [of |-> t.url, whole |-> whole]
<1>3. DownloadTyped(t) /\ t.id \in CachedSongs /\ t.url \in CachedSongs /\ Downloading(t)
  BY <1>2 DEF CacheInv, CacheTyped, DownloadTyped, Downloading
<1>4. DownloadTyped(u) /\ u.id = t.id /\ u.step = step
  BY <1>3 DEF DownloadTyped, DownloadSteps
<1>5. put \in CacheFile /\ put.whole = whole
  BY <1>3 DEF CacheFile
<1>6. disk' = [disk EXCEPT ![T!part_path(t.id)] = put] /\ tasks' = (tasks \ {t}) \cup {u}
  BY <1>2
<1> HIDE DEF u, put
<1>7. /\ \A v \in tasks' : DownloadTyped(v)
      /\ Reservations'
      /\ \A v \in tasks' : Downloading(v) => v = u \/ (v \in tasks /\ v.id # t.id)
  BY <1>1, <1>3, <1>4, <1>6, GoesKeeps DEF CacheInv, CacheTyped
<1>8. disk \in [CachedSongs \X {"audio", "part"} -> CacheFile]
  BY DEF CacheInv, CacheTyped
<1>9. disk' \in [CachedSongs \X {"audio", "part"} -> CacheFile] /\ disk'[T!part_path(t.id)] = put
  BY <1>3, <1>5, <1>6, <1>8, CacheFileNames
<1>10. CacheTyped'
  BY <1>1, <1>7, <1>9 DEF CacheInv, CacheTyped, DownloadTyped, CacheFile
<1>11. \A id \in CachedSongs : disk'[T!final_path(id)] = disk[T!final_path(id)]
  BY <1>3, <1>6, <1>8, CacheFileNames
<1>12. \A id \in CachedSongs : id # t.id => disk'[T!part_path(id)] = disk[T!part_path(id)]
  BY <1>3, <1>6, <1>8, CacheFileNames
<1>13. ASSUME NEW v \in tasks', v.step = "rename"
       PROVE  disk'[T!part_path(v.id)].whole
  <2>1. CASE v = u
    BY <1>2, <1>4, <1>5, <1>9, <1>13, <2>1
  <2>2. CASE v \in tasks /\ v.id # t.id
    BY <1>12, <1>13, <2>2 DEF CacheInv, CacheTyped, DownloadTyped, Files
  <2> QED BY <1>7, <1>13, <2>1, <2>2 DEF Downloading
<1>14. Files'
  <2>1. \A id \in CachedSongs : disk'[T!final_path(id)] # None => disk'[T!final_path(id)].whole
    BY <1>11 DEF CacheInv, Files
  <2> QED BY <1>13, <2>1 DEF Files, T!final_path, T!part_path
<1> QED BY <1>1, <1>7, <1>10, <1>14 DEF CacheInv, Accounted

LEMMA CacheAbandons ==
    ASSUME CacheInv, NEW t \in tasks, T!abandon(t)
    PROVE  CacheInv'
<1>1. /\ UNCHANGED <<play_queue, start, cap, index, total_bytes, saved>>
      /\ disk' = [disk EXCEPT ![T!part_path(t.id)] = None]
      /\ tasks' = tasks \ {t} /\ in_flight' = in_flight \ {t.id}
      /\ Downloading(t)
  BY DEF T!abandon, T!settings, Downloading
<1>2. t.id \in CachedSongs /\ disk \in [CachedSongs \X {"audio", "part"} -> CacheFile]
  BY DEF CacheInv, CacheTyped, DownloadTyped
<1>3. Reservations' /\ \A v \in tasks' : Downloading(v) => v.id # t.id
  BY <1>1, EndKeeps DEF CacheInv
<1>4. disk' \in [CachedSongs \X {"audio", "part"} -> CacheFile]
  BY <1>1, <1>2 DEF CacheFile
<1>5. CacheTyped'
  BY <1>1, <1>4 DEF CacheInv, CacheTyped, DownloadTyped, CacheFile
<1>6. \A id \in CachedSongs : disk'[T!final_path(id)] = disk[T!final_path(id)]
  BY <1>1, <1>2, CacheFileNames
<1>7. \A id \in CachedSongs : id # t.id => disk'[T!part_path(id)] = disk[T!part_path(id)]
  BY <1>1, <1>2, CacheFileNames
<1>8. ASSUME NEW v \in tasks', v.step = "rename"
      PROVE  disk'[T!part_path(v.id)].whole
  BY <1>1, <1>3, <1>7, <1>8 DEF CacheInv, CacheTyped, DownloadTyped, Files, Downloading
<1>9. Files'
  BY <1>6, <1>8 DEF CacheInv, Files, T!final_path, T!part_path
<1> QED BY <1>1, <1>3, <1>5, <1>9 DEF CacheInv, Accounted

LEMMA CacheRenames ==
    ASSUME CacheInv, NEW t \in tasks, T!Renames(t)
    PROVE  CacheInv'
<1> DEFINE u == [t EXCEPT !.step = "commit", !.cap = cap]
<1>1. /\ UNCHANGED <<play_queue, start, cap, index, in_flight, total_bytes, saved>>
      /\ t.step = "rename"
      /\ disk' = [disk EXCEPT ![T!part_path(t.id)] = None,
                              ![T!final_path(t.id)] = disk[T!part_path(t.id)]]
      /\ tasks' = (tasks \ {t}) \cup {u}
  BY DEF T!Renames, T!settings, T!memory
<1>2. DownloadTyped(t) /\ t.id \in CachedSongs /\ Downloading(t) /\ cap \in Caps
  BY <1>1 DEF CacheInv, CacheTyped, DownloadTyped, Downloading
<1>3. DownloadTyped(u) /\ u.id = t.id /\ u.step = "commit"
  BY <1>2 DEF DownloadTyped, DownloadSteps
<1> HIDE DEF u
<1>4. /\ \A v \in tasks' : DownloadTyped(v)
      /\ Reservations'
      /\ \A v \in tasks' : Downloading(v) => v = u \/ (v \in tasks /\ v.id # t.id)
  BY <1>1, <1>2, <1>3, GoesKeeps DEF CacheInv, CacheTyped
<1>5. disk \in [CachedSongs \X {"audio", "part"} -> CacheFile] /\ disk[T!part_path(t.id)].whole
  BY <1>1 DEF CacheInv, CacheTyped, Files
<1>6. disk' \in [CachedSongs \X {"audio", "part"} -> CacheFile]
  BY <1>1, <1>2, <1>5, CacheFileNames DEF CacheFile
<1>7. CacheTyped'
  BY <1>1, <1>4, <1>6 DEF CacheInv, CacheTyped, DownloadTyped, CacheFile
<1>8. disk'[T!final_path(t.id)].whole
  BY <1>1, <1>2, <1>5, CacheFileNames
<1>9. \A id \in CachedSongs : id # t.id =>
          /\ disk'[T!final_path(id)] = disk[T!final_path(id)]
          /\ disk'[T!part_path(id)] = disk[T!part_path(id)]
  BY <1>1, <1>2, <1>5, CacheFileNames
<1>10. \A id \in CachedSongs : disk'[T!final_path(id)] # None => disk'[T!final_path(id)].whole
  BY <1>8, <1>9 DEF CacheInv, Files
<1>11. ASSUME NEW v \in tasks', v.step = "rename"
       PROVE  disk'[T!part_path(v.id)].whole
  BY <1>3, <1>4, <1>9, <1>11 DEF CacheInv, CacheTyped, DownloadTyped, Files, Downloading
<1>12. Files'
  BY <1>10, <1>11 DEF Files, T!final_path, T!part_path
<1> QED BY <1>1, <1>4, <1>7, <1>12 DEF CacheInv, Accounted

(* The index grows and shrinks by one song, and the total with it.             *)
LEMMA CachePersists ==
    ASSUME CacheInv, T!persist, index' \subseteq CachedSongs, IsFiniteSet(index')
    PROVE  saved' \subseteq CachedSongs /\ IsFiniteSet(saved')
BY DEF CacheInv, CacheTyped, T!persist

LEMMA CacheCommits ==
    ASSUME CacheInv, NEW t \in tasks, T!commit(t)
    PROVE  CacheInv'
<1>1. /\ UNCHANGED <<play_queue, start, cap, disk>>
      /\ tasks' = tasks \ {t} /\ in_flight' = in_flight \ {t.id}
      /\ total_bytes' = total_bytes + 1 /\ index' = index \cup {t.id}
      /\ T!persist
      /\ Downloading(t)
  BY DEF T!commit, T!settings, Downloading
<1>2. t.id \in CachedSongs /\ t.id \notin index
  BY <1>1 DEF CacheInv, CacheTyped, DownloadTyped, Reservations
<1>3. IsFiniteSet(index') /\ Cardinality(index') = Cardinality(index) + 1
  BY <1>1, <1>2, FS_AddElement DEF CacheInv, CacheTyped
<1>4. saved' \subseteq CachedSongs /\ IsFiniteSet(saved')
  BY <1>1, <1>2, <1>3, CachePersists DEF CacheInv, CacheTyped
<1>5. CacheTyped'
  BY <1>1, <1>2, <1>3, <1>4 DEF CacheInv, CacheTyped, DownloadTyped, CacheFile
<1>6. Reservations'
  BY <1>1, EndKeeps DEF CacheInv
<1>7. Files'
  BY <1>1 DEF CacheInv, Files, T!final_path, T!part_path
<1>8. Accounted'
  BY <1>1, <1>3 DEF CacheInv, Accounted
<1> QED BY <1>5, <1>6, <1>7, <1>8 DEF CacheInv

LEMMA CacheEvicts ==
    ASSUME CacheInv, T!evict_to
    PROVE  CacheInv'
<1>1. PICK id \in index :
          /\ disk' = [disk EXCEPT ![T!final_path(id)] = None]
          /\ index' = index \ {id}
  BY DEF T!evict_to
<1>2. /\ UNCHANGED <<play_queue, start, cap, in_flight, saved, tasks>>
      /\ total_bytes' = total_bytes - 1
  BY DEF T!evict_to, T!settings
<1>3. id \in CachedSongs /\ disk \in [CachedSongs \X {"audio", "part"} -> CacheFile]
  BY DEF CacheInv, CacheTyped
<1>4. IsFiniteSet(index') /\ Cardinality(index') = Cardinality(index) - 1
  BY <1>1, FS_RemoveElement DEF CacheInv, CacheTyped
<1>5. disk' \in [CachedSongs \X {"audio", "part"} -> CacheFile]
  BY <1>1, <1>3 DEF CacheFile
<1>6. CacheTyped'
  BY <1>1, <1>2, <1>4, <1>5 DEF CacheInv, CacheTyped, DownloadTyped, CacheFile
<1>7. Reservations'
  BY <1>1, <1>2 DEF CacheInv, Reservations, Downloading
<1>8. /\ disk'[T!final_path(id)] = None
      /\ \A other \in CachedSongs :
             /\ disk'[T!part_path(other)] = disk[T!part_path(other)]
             /\ other # id => disk'[T!final_path(other)] = disk[T!final_path(other)]
  BY <1>1, <1>3, CacheFileNames
<1>9. \A other \in CachedSongs : disk'[T!final_path(other)] # None => disk'[T!final_path(other)].whole
  BY <1>8 DEF CacheInv, Files
<1>10. \A t \in tasks' : t.step = "rename" => disk'[T!part_path(t.id)].whole
  BY <1>2, <1>8 DEF CacheInv, CacheTyped, DownloadTyped, Files
<1>11. Files'
  BY <1>9, <1>10 DEF Files, T!final_path, T!part_path
<1>12. Accounted'
  BY <1>2, <1>4 DEF CacheInv, Accounted
<1> QED BY <1>6, <1>7, <1>11, <1>12 DEF CacheInv

LEMMA CacheEvictionEnds ==
    ASSUME CacheInv, T!EvictionEnds
    PROVE  CacheInv'
<1>1. UNCHANGED <<play_queue, start, cap, index, in_flight, total_bytes, disk, tasks>>
  BY DEF T!EvictionEnds, T!settings
<1>2. saved' \subseteq CachedSongs /\ IsFiniteSet(saved')
  <2>1. CASE T!persist
    BY <1>1, <2>1, CachePersists DEF CacheInv, CacheTyped
  <2>2. CASE UNCHANGED saved
    BY <2>2 DEF CacheInv, CacheTyped
  <2> QED BY <2>1, <2>2 DEF T!EvictionEnds
<1> QED
  BY <1>1, <1>2 DEF CacheInv, CacheTyped, DownloadTyped, CacheFile, Reservations, Downloading,
     Files, Accounted, T!final_path, T!part_path

LEMMA CacheVanishes ==
    ASSUME CacheInv, NEW id \in CachedSongs, T!Vanishes(id)
    PROVE  CacheInv'
<1>1. /\ disk' = [disk EXCEPT ![T!final_path(id)] = None]
      /\ UNCHANGED <<play_queue, start, cap, index, in_flight, total_bytes, saved, tasks>>
  BY DEF T!Vanishes, T!settings, T!memory
<1>2. disk \in [CachedSongs \X {"audio", "part"} -> CacheFile]
  BY DEF CacheInv, CacheTyped
<1>3. disk' \in [CachedSongs \X {"audio", "part"} -> CacheFile]
  BY <1>1, <1>2 DEF CacheFile
<1>4. CacheTyped' /\ Reservations' /\ Accounted'
  BY <1>1, <1>3 DEF CacheInv, CacheTyped, DownloadTyped, CacheFile, Reservations, Downloading,
     Accounted
<1>5. /\ disk'[T!final_path(id)] = None
      /\ \A other \in CachedSongs :
             /\ disk'[T!part_path(other)] = disk[T!part_path(other)]
             /\ other # id => disk'[T!final_path(other)] = disk[T!final_path(other)]
  BY <1>1, <1>2, CacheFileNames
<1>6. \A other \in CachedSongs : disk'[T!final_path(other)] # None => disk'[T!final_path(other)].whole
  BY <1>5 DEF CacheInv, Files
<1>7. \A t \in tasks' : t.step = "rename" => disk'[T!part_path(t.id)].whole
  BY <1>1, <1>5 DEF CacheInv, CacheTyped, DownloadTyped, Files
<1>8. Files'
  BY <1>6, <1>7 DEF Files, T!final_path, T!part_path
<1> QED BY <1>4, <1>8 DEF CacheInv

LEMMA CacheOpens ==
    ASSUME CacheInv, T!open
    PROVE  CacheInv'
<1>1. /\ index' \subseteq saved /\ total_bytes' = T!Cardinality(index')
      /\ in_flight' = {} /\ tasks' = {} /\ start' = None
      /\ UNCHANGED <<play_queue, cap, disk, saved>>
  BY DEF T!open, T!settings, T!files
<1>2. IsFiniteSet(index')
  BY <1>1, FS_Subset DEF CacheInv, CacheTyped
<1>3. total_bytes' = Cardinality(index')
  BY <1>1 DEF T!Cardinality, Cardinality
<1> QED
  BY <1>1, <1>2, <1>3 DEF CacheInv, CacheTyped, DownloadTyped, CacheFile, Reservations,
     Downloading, Files, Accounted, T!final_path, T!part_path

LEMMA CacheStep ==
    ASSUME CacheInv, [T!Next]_varsT
    PROVE  CacheInv'
<1>1. CASE T!EditsQueue
  <2>1. play_queue' \in Seq(CachedSongs)
    BY <1>1, CacheQueueTyped DEF CacheInv, CacheTyped
  <2> QED
    BY <1>1, <2>1 DEF T!EditsQueue, CacheInv, CacheTyped, DownloadTyped, CacheFile,
       Reservations, Downloading, Files, Accounted, T!final_path, T!part_path, T!settings,
       T!memory, T!files
<1>2. CASE T!set_offline_cache
  <2>1. cap' \in Caps
    BY <1>2 DEF T!set_offline_cache, CacheInv, CacheTyped
  <2> QED
    BY <1>2, <2>1 DEF T!set_offline_cache, CacheInv, CacheTyped, DownloadTyped, CacheFile,
       Reservations, Downloading, Files, Accounted, T!final_path, T!part_path, T!memory,
       T!files
<1>3. ASSUME NEW pos \in DOMAIN play_queue, T!commit_play_state(pos)
      PROVE  CacheInv'
  BY <1>3, CacheStarts
<1>4. CASE T!spawn_cache_population
  BY <1>4, CacheSpawns
<1>5. ASSUME NEW t \in tasks,
             T!begin(t) \/ T!download_to_path(t) \/ T!abandon(t) \/ T!Renames(t) \/ T!commit(t)
      PROVE  CacheInv'
  BY <1>5, CacheBegins, CacheDownloads, CacheAbandons, CacheRenames, CacheCommits
<1>6. CASE T!evict_to
  BY <1>6, CacheEvicts
<1>7. CASE T!EvictionEnds
  BY <1>7, CacheEvictionEnds
<1>8. ASSUME NEW id \in CachedSongs, T!Vanishes(id)
      PROVE  CacheInv'
  BY <1>8, CacheVanishes
<1>9. CASE T!open
  BY <1>9, CacheOpens
<1>10. CASE UNCHANGED varsT
  BY <1>10 DEF varsT, T!settings, T!memory, T!files, T!bounds, CacheInv, CacheTyped,
     DownloadTyped, CacheFile, Reservations, Downloading, Files, Accounted, T!final_path,
     T!part_path
<1> QED
  BY <1>1, <1>2, <1>3, <1>4, <1>5, <1>6, <1>7, <1>8, <1>9, <1>10 DEF T!Next

LEMMA CacheAtRest ==
    ASSUME CacheInv
    PROVE  T!CacheIsSound
<1>1. T!CacheIsAccounted
  BY DEF CacheInv, Accounted, T!CacheIsAccounted, T!Cardinality, Cardinality
<1> QED BY <1>1 DEF CacheInv, CacheTyped, Files, T!CacheIsSound, T!IndexedIsWhole

(***************************************************************************)
(* The sessions: in each, the invariant of what it runs.                   *)
(***************************************************************************)
SessionInv ==
    /\ Inv
    /\ session = "cache" => CacheInv
    /\ session = "reports" => ReportsInv
    /\ session \in {"folders", "marks", "library"} => LibraryInv

LEMMA SessionStart == SessionInit => SessionInv
BY InvInit, CacheInit, ReportsInit, LibraryInit DEF SessionInit, SessionInv, NoSave

LEMMA SessionStep ==
    SessionInv /\ [SessionNext]_<<session, vars, varsT, varsR, varsL>> => SessionInv'
<1> SUFFICES ASSUME SessionInv, [SessionNext]_<<session, vars, varsT, varsR, varsL>>
             PROVE  SessionInv'
  OBVIOUS
<1>1. session' = session
  BY DEF SessionNext
<1>2. [Next]_vars
  BY DEF SessionNext
<1>3. session = "cache" => [T!Next]_varsT
  BY DEF SessionNext
<1>4. session = "reports" => [R!Next]_varsR
  BY DEF SessionNext
<1>5. session \in {"folders", "marks", "library"} => [L!Next]_varsL
  BY DEF SessionNext, FoldersNext, MarksNext, LibraryNext, L!Next
<1> QED
  BY <1>1, <1>2, <1>3, <1>4, <1>5, InvNext, CacheStep, ReportsNext, LibraryStep DEF SessionInv

LEMMA SessionInvariance == SessionSpec => []SessionInv
BY SessionStart, SessionStep, PTL DEF SessionSpec

(* Whatever is asked for, fails, is deleted, killed and started again, the     *)
(* total that evictions go by is that of the songs indexed, and what is        *)
(* indexed has no partial file (TrackCache::commit, evict_to and open, and     *)
(* DaemonCore::populate_cache).                                                *)
THEOREM CacheStaysSound == SessionSpec => []CacheIsSound
<1>1. SessionInv => CacheIsSound
  BY CacheAtRest DEF SessionInv, CacheIsSound
<1> QED BY <1>1, SessionInvariance, PTL

(* Whatever the player does between the reads of a tick of the reporter, no    *)
(* play is submitted twice, but one that was rewound before the threshold      *)
(* while the reporter did not look (ScrobbleState::observe).                   *)
THEOREM NoPlayCountsTwice == SessionSpec => []CountedOnce
<1>1. SessionInv => CountedOnce
  BY DEF SessionInv, ReportsInv, CountedFollows, CountedOnce, R!CountedOnce
<1> QED BY <1>1, SessionInvariance, PTL

(* However refreshes and switches of the folder overlap, at rest the artists   *)
(* are those of the folder chosen, unless the list of faults says why not      *)
(* (refresh_artists and apply_music_folder).                                   *)
THEOREM ListEndsCurrent == SessionSpec => []QuietListIsCurrent
<1>1. SessionInv => QuietListIsCurrent
  BY LibraryAtRest DEF SessionInv, QuietListIsCurrent
<1> QED BY <1>1, SessionInvariance, PTL

(* However ratings, toggles, refreshes and switches overlap, at rest every     *)
(* copy of a song has the server's rating and star, unless the list of faults  *)
(* says why not (set_song_rating and toggle_star_song).                        *)
THEOREM MarksEndEqual == SessionSpec => []MarksAgree
<1>1. SessionInv => MarksAgree
  BY LibraryAtRest DEF SessionInv, MarksAgree
<1> QED BY <1>1, SessionInvariance, PTL
=============================================================================
