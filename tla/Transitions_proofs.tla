-------------------------- MODULE Transitions_proofs --------------------------
(***************************************************************************)
(* Proofs about Transitions, for every set of clients, every length of the *)
(* queue and every repeat mode.                                            *)
(***************************************************************************)
EXTENDS Transitions, SequenceTheorems, TLAPS

(* Auto-advance, manual skip and wrapping previous never leave the queue:  *)
(* from a valid position they return None or a valid position.             *)
LEMMA SuccessorInRange ==
    ASSUME NEW mode \in Modes, NEW len \in Nat, NEW cur \in 0..(len - 1)
    PROVE  /\ next_auto(mode, cur, len) \in {None} \union 0..(len - 1)
           /\ next_manual(mode, cur, len) \in {None} \union 0..(len - 1)
           /\ prev_wrap(mode, len) \in {None} \union 0..(len - 1)
<1>1. (cur + 1) % len \in 0..(len - 1)
  OBVIOUS
<1>2. mode = "Off" \/ mode = "One" \/ mode = "All"
  BY DEF Modes
<1>3. CASE mode = "Off"
  BY <1>3 DEF next_auto, next_manual, prev_wrap, None
<1>4. CASE mode = "One"
  BY <1>1, <1>4 DEF next_auto, next_manual, prev_wrap, None
<1>5. CASE mode = "All"
  BY <1>1, <1>5 DEF next_auto, next_manual, prev_wrap, None
<1> QED BY <1>2, <1>3, <1>4, <1>5

(* Removing the first entry of mpv's playlist. *)
LEMMA FirstRemoved ==
    ASSUME NEW S, NEW s \in Seq(S), s # <<>>
    PROVE  RemoveAt(s, 1) \in Seq(S) /\ Len(RemoveAt(s, 1)) = Len(s) - 1
<1> DEFINE front == SubSeq(s, 1, 0)
           back == SubSeq(s, 2, Len(s))
<1>1. Len(s) \in Nat /\ Len(s) > 0
  BY LenProperties, EmptySeq
<1>2. front \in Seq(S) /\ Len(front) = 0
  BY <1>1, SubSeqProperties, ElementOfSeq
<1>3. back \in Seq(S) /\ Len(back) = Len(s) - 1
  <2>1. 2 \in 1..(Len(s) + 1) /\ Len(s) \in 1..Len(s) /\ Len(s) - 2 + 1 = Len(s) - 1
    BY <1>1
  <2>2. \A i \in 2..Len(s) : s[i] \in S
    BY ElementOfSeq
  <2> QED BY <1>1, <2>1, <2>2, SubSeqProperties
<1>4. RemoveAt(s, 1) = front \o back
  <2>1. 1 - 1 = 0 /\ 1 + 1 = 2
    OBVIOUS
  <2> QED BY <2>1 DEF RemoveAt
<1> HIDE DEF front, back
<1> QED BY <1>1, <1>2, <1>3, <1>4, ConcatProperties

(***************************************************************************)
(* The inductive invariant, by the groups of variables an action leaves    *)
(* alone or disturbs.                                                      *)
(***************************************************************************)
ShownOK ==
    /\ queue_position \in Positions
    /\ status \in {"Stopped", "Playing", "Paused"}
    /\ near_end \in BOOLEAN

GuardsOK ==
    /\ transition \in Tasks \union {NoTask}
    /\ advance_in_flight \in BOOLEAN
    /\ advancing \subseteq {Tick, Listener}
    /\ AdvanceExclusive

GensOK ==
    /\ just_loaded \in BOOLEAN
    /\ gen_current \subseteq Tasks
    /\ settling \in {"none", "probing", "unpausing"}
    /\ late_unpause \in BOOLEAN

MpvOK(m) ==
    /\ m \in [alive : BOOLEAN, list : Seq(Positions), pos : {None, 0, 1}]
    /\ m.pos < Len(m.list)
    /\ Len(m.list) <= 2

PlayerOK ==
    /\ MpvOK(mpv)
    /\ mpv_paused \in BOOLEAN
    /\ mpv_late \in BOOLEAN

LocalsOK ==
    /\ eof \in 0..MaxEof
    /\ tick \in {"none", "near_end", "early", "preload", "gapless", "idle", "late"}
    /\ resume_late \subseteq Clients
    /\ coalesced \subseteq Clients

InstanceOK == instance_current \subseteq {Tick, Listener}

(* A task with one of these labels has picked the entry it works for. *)
Targeted == {"start_lock", "resume_lock", "commit", "recommit", "load",
             "preload", "append", "gapless", "gapless_remove", "read_mpv",
             "decide"}

TasksOK ==
    /\ pc \in [Tasks -> Labels]
    /\ target \in [Tasks -> Positions \union {None}]
    /\ \A t \in Tasks : pc[t] \in Targeted => target[t] \in Positions

Inv ==
    /\ ShownOK
    /\ GuardsOK
    /\ GensOK
    /\ InstanceOK
    /\ PlayerOK
    /\ LocalsOK
    /\ TasksOK
    /\ TransitionsExclusive

(***************************************************************************)
(* mpv's playlist: no command the daemon sends breaks it.                  *)
(***************************************************************************)
LEMMA IdleIsOK == MpvOK(IdleMpv)
<1>1. IdleMpv = [alive |-> TRUE, list |-> <<>>, pos |-> None]
  BY DEF IdleMpv
<1>2. <<>> \in Seq(Positions) /\ Len(<<>>) = 0
  OBVIOUS
<1> QED BY <1>1, <1>2 DEF MpvOK, None

LEMMA StopOK ==
    ASSUME NEW m, MpvOK(m)
    PROVE  MpvOK(mpv_stop(m))
<1>1. mpv_stop(m) = IdleMpv \/ mpv_stop(m) = m
  BY DEF mpv_stop
<1> QED BY <1>1, IdleIsOK

LEMMA LoadOK ==
    ASSUME NEW m, MpvOK(m), NEW p \in Positions
    PROVE  MpvOK(loadfile(m, p))
<1>1. <<p>> \in Seq(Positions) /\ Len(<<p>>) = 1
  OBVIOUS
<1> QED BY <1>1 DEF MpvOK, loadfile, None

LEMMA AppendOK ==
    ASSUME NEW m, MpvOK(m), NEW p \in Positions, Len(m.list) = 1
    PROVE  MpvOK(loadfile_append(m, p))
<1>1. m.list \in Seq(Positions)
  BY DEF MpvOK
<1>2. Append(m.list, p) \in Seq(Positions)
  BY <1>1, AppendProperties
<1>3. Len(Append(m.list, p)) = Len(m.list) + 1
  BY <1>1, AppendProperties
<1>4. Len(Append(m.list, p)) = 2
  BY <1>3
<1> QED BY <1>1, <1>2, <1>4 DEF MpvOK, loadfile_append, None

(* The gapless advance drops the finished entry.                           *)
LEMMA RemoveFirstOK ==
    ASSUME NEW m, MpvOK(m), m.pos = 1
    PROVE  MpvOK(playlist_remove(m, 0))
<1>1. m.list \in Seq(Positions)
  BY DEF MpvOK
<1>2. Len(m.list) \in Nat
  BY <1>1, LenProperties
<1>3. Len(m.list) = 2
  <2>1. 1 < Len(m.list) /\ Len(m.list) <= 2
    BY DEF MpvOK
  <2>2. \A n \in Nat : 1 < n /\ n <= 2 => n = 2
    OBVIOUS
  <2> QED BY <1>2, <2>1, <2>2
<1>4. 1 \in 1..Len(m.list)
  BY <1>3
<1> DEFINE list == RemoveAt(m.list, 1)
<1>5. list \in Seq(Positions) /\ Len(list) = Len(m.list) - 1
  BY <1>1, <1>4, EmptySeq, FirstRemoved
<1>6. playlist_remove(m, 0) = [alive |-> m.alive, list |-> list, pos |-> 0]
  BY DEF playlist_remove
<1> HIDE DEF list
<1>7. Len(list) = 1
  BY <1>3, <1>5
<1> QED BY <1>5, <1>6, <1>7 DEF MpvOK, None

LEMMA EndsOK ==
    ASSUME NEW m, MpvOK(m), m.pos # None
    PROVE  MpvOK(mpv_file_ends(m))
<1>1. m.list \in Seq(Positions)
  BY DEF MpvOK
<1>2. Len(m.list) \in Nat
  BY <1>1, LenProperties
<1> QED BY <1>1, <1>2 DEF MpvOK, mpv_file_ends, None

LEMMA InitInv == Init => Inv
<1> SUFFICES ASSUME Init PROVE Inv
  OBVIOUS
<1>1. ShownOK
  BY DEF Init, ShownOK
<1>6. GensOK
  BY DEF Init, GensOK
<1>7. InstanceOK
  BY DEF Init, InstanceOK
<1>8. LocalsOK
  BY TransitionsAssumption DEF Init, LocalsOK
<1>2. GuardsOK
  BY DEF Init, GuardsOK, AdvanceExclusive
<1>3. PlayerOK
  <2>1. MpvOK(IdleMpv)
    BY IdleIsOK
  <2> QED BY <2>1 DEF Init, PlayerOK
<1>4. TasksOK
  <2>1. "idle" \in Labels /\ "idle" \notin Targeted
    BY DEF Labels, Targeted
  <2> QED BY <2>1 DEF Init, TasksOK
<1>5. TransitionsExclusive
  BY DEF Init, TransitionsExclusive, InTransition
<1> QED BY <1>1, <1>2, <1>3, <1>4, <1>5, <1>6, <1>7, <1>8 DEF Inv

(***************************************************************************)
(* How a step re-establishes the invariant.                                *)
(***************************************************************************)
LEMMA StepInv ==
    ASSUME Inv,
           ShownOK' \/ UNCHANGED shownVars,
           GuardsOK' \/ UNCHANGED guardVars,
           GensOK' \/ UNCHANGED genVars,
           InstanceOK' \/ UNCHANGED instance_current,
           PlayerOK' \/ UNCHANGED playerVars,
           LocalsOK' \/ UNCHANGED <<eof, tick, resume_late, coalesced>>,
           TasksOK' \/ UNCHANGED <<target, pc>>,
           TransitionsExclusive' \/ UNCHANGED <<transition, pc>>
    PROVE  Inv'
<1>1. UNCHANGED shownVars => ShownOK'
  BY DEF Inv, shownVars, ShownOK
<1>2. UNCHANGED guardVars => GuardsOK'
  BY DEF Inv, guardVars, GuardsOK, AdvanceExclusive
<1>3. UNCHANGED genVars => GensOK'
  BY DEF Inv, genVars, GensOK
<1>4. UNCHANGED instance_current => InstanceOK'
  BY DEF Inv, InstanceOK
<1>5. UNCHANGED playerVars => PlayerOK'
  BY DEF Inv, playerVars, PlayerOK
<1>6. UNCHANGED <<eof, tick, resume_late, coalesced>> => LocalsOK'
  BY DEF Inv, LocalsOK
<1>7. UNCHANGED <<target, pc>> => TasksOK'
  BY DEF Inv, TasksOK
<1>8. UNCHANGED <<transition, pc>> => TransitionsExclusive'
  BY DEF Inv, TransitionsExclusive
<1> QED BY <1>1, <1>2, <1>3, <1>4, <1>5, <1>6, <1>7, <1>8 DEF Inv

(* A task moves on to a label and keeps its target ... *)
LEMMA KeepsTarget ==
    ASSUME TasksOK, NEW t \in Tasks, NEW l \in Labels,
           l \in Targeted => pc[t] \in Targeted,
           pc' = [pc EXCEPT ![t] = l], target' = target
    PROVE  TasksOK'
BY DEF TasksOK

(* ... or takes another one. *)
LEMMA SetsTarget ==
    ASSUME TasksOK, NEW t \in Tasks, NEW l \in Labels,
           NEW p \in Positions \union {None},
           l \in Targeted => p \in Positions,
           pc' = [pc EXCEPT ![t] = l], target' = [target EXCEPT ![t] = p]
    PROVE  TasksOK'
BY DEF TasksOK

(* A task enters a transition only as the holder of the lock, and only the *)
(* holder gives the lock back.                                             *)
LEMMA KeepsOrder ==
    ASSUME Inv, NEW t \in Tasks, NEW l \in Labels,
           pc' = [pc EXCEPT ![t] = l],
           l \in InTransition => transition' = t,
           transition' = transition \/ transition \in {t, NoTask}
    PROVE  TransitionsExclusive'
<1> SUFFICES ASSUME NEW s \in Tasks, pc'[s] \in InTransition
             PROVE  transition' = s
  BY DEF TransitionsExclusive
<1>1. pc \in [Tasks -> Labels]
  BY DEF Inv, TasksOK
<1>2. CASE s = t
  BY <1>1, <1>2
<1>3. CASE s # t
  <2>1. pc[s] \in InTransition
    BY <1>1, <1>3
  <2>2. transition = s
    BY <2>1 DEF Inv, TransitionsExclusive
  <2> QED BY <1>3, <2>2, TransitionsAssumption
<1> QED BY <1>2, <1>3

(* A handler returns. *)
LEMMA DoneOK ==
    ASSUME TasksOK, LocalsOK, NEW t \in Tasks, Done(t)
    PROVE  /\ TasksOK'
           /\ \E l \in {"idle", "tail_read"} : pc' = [pc EXCEPT ![t] = l]
           /\ tick' \in {tick, "none"}
<1> DEFINE l == IF t = Tick /\ tick = "preload" THEN "tail_read" ELSE "idle"
<1>1. l \in Labels /\ l \notin Targeted /\ l \in {"idle", "tail_read"}
  BY DEF Labels, Targeted
<1>2. pc' = [pc EXCEPT ![t] = l] /\ target' = [target EXCEPT ![t] = None]
  BY DEF Done, Goto
<1>3. tick' \in {tick, "none"}
  BY DEF Done
<1> HIDE DEF l
<1>4. TasksOK'
  BY <1>1, <1>2, SetsTarget
<1> QED BY <1>1, <1>2, <1>3, <1>4

(* Dropping the guards keeps the single flight. *)
LEMMA DropGuardsOK ==
    ASSUME GuardsOK, NEW t \in Tasks, drop_guards(t)
    PROVE  GuardsOK' /\ (transition' = transition \/ transition \in {t, NoTask})
<1>1. CASE t \in advancing
  <2>1. advancing = {t}
    BY <1>1 DEF GuardsOK, AdvanceExclusive
  <2> QED BY <1>1, <2>1 DEF GuardsOK, AdvanceExclusive, drop_guards
<1>2. CASE t \notin advancing
  <2>1. advancing' = advancing
    BY <1>2 DEF drop_guards
  <2> QED BY <1>2, <2>1 DEF GuardsOK, AdvanceExclusive, drop_guards
<1> QED BY <1>1, <1>2

(***************************************************************************)
(* The requests.                                                           *)
(***************************************************************************)
LEMMA NextRequestInv ==
    ASSUME Inv, NEW c \in Clients, NextRequest(c)
    PROVE  Inv'
<1>1. c \in Tasks /\ "next_lock" \in Labels \ (Targeted \union InTransition)
  BY DEF Tasks, Labels, Targeted, InTransition
<1>2. TasksOK'
  BY <1>1, KeepsTarget DEF NextRequest, Goto, Inv
<1>3. TransitionsExclusive'
  BY <1>1, KeepsOrder DEF NextRequest, Goto, guardVars
<1>4. LocalsOK'
  BY DEF NextRequest, Inv, LocalsOK
<1> QED BY <1>2, <1>3, <1>4, StepInv DEF NextRequest

LEMMA PrevRequestInv ==
    ASSUME Inv, NEW c \in Clients, PrevRequest(c)
    PROVE  Inv'
<1>1. c \in Tasks /\ "prev_lock" \in Labels \ (Targeted \union InTransition)
  BY DEF Tasks, Labels, Targeted, InTransition
<1>2. TasksOK'
  BY <1>1, KeepsTarget DEF PrevRequest, Goto, Inv, taskVars
<1>3. TransitionsExclusive'
  BY <1>1, KeepsOrder DEF PrevRequest, Goto, guardVars
<1> QED BY <1>2, <1>3, StepInv DEF PrevRequest, taskVars

LEMMA StopRequestInv ==
    ASSUME Inv, NEW c \in Clients, StopRequest(c)
    PROVE  Inv'
<1>1. c \in Tasks /\ "stop_mpv" \in Labels \ (Targeted \union InTransition)
  BY DEF Tasks, Labels, Targeted, InTransition
<1>2. TasksOK'
  BY <1>1, KeepsTarget DEF StopRequest, Goto, Inv, taskVars
<1>3. TransitionsExclusive'
  BY <1>1, KeepsOrder DEF StopRequest, Goto, guardVars
<1> QED BY <1>2, <1>3, StepInv DEF StopRequest, taskVars

LEMMA PlayRequestInv ==
    ASSUME Inv, NEW c \in Clients, NEW p \in Positions, PlayRequest(c, p)
    PROVE  Inv'
<1>1. c \in Tasks /\ "start_lock" \in Labels \ InTransition
  BY DEF Tasks, Labels, InTransition
<1>2. TasksOK'
  BY <1>1, SetsTarget DEF PlayRequest, Goto, Inv
<1>3. TransitionsExclusive'
  BY <1>1, KeepsOrder DEF PlayRequest, Goto, guardVars
<1> QED BY <1>2, <1>3, StepInv DEF PlayRequest

LEMMA ToggleRequestInv ==
    ASSUME Inv, NEW c \in Clients, ToggleRequest(c)
    PROVE  Inv'
<1> DEFINE l == CASE status = "Playing" -> "pause"
                  [] status = "Paused"  -> "resume"
                  [] status = "Stopped" -> "start_lock"
           p == IF status = "Stopped" THEN queue_position ELSE target[c]
<1>1. /\ c \in Tasks
      /\ l \in Labels \ InTransition
      /\ l \in Targeted => status = "Stopped"
  BY DEF Tasks, Labels, InTransition, Targeted, Inv, ShownOK
<1>2. p \in Positions \union {None} /\ (l \in Targeted => p \in Positions)
  BY <1>1 DEF Inv, ShownOK, TasksOK
<1>3. pc' = [pc EXCEPT ![c] = l] /\ target' = [target EXCEPT ![c] = p]
  BY DEF ToggleRequest, Goto
<1>4. TasksOK \in BOOLEAN /\ TasksOK
  BY DEF Inv, TasksOK
<1> HIDE DEF l, p
<1>5. TasksOK'
  BY <1>1, <1>2, <1>3, <1>4, SetsTarget
<1>6. TransitionsExclusive'
  BY <1>1, <1>3, KeepsOrder DEF ToggleRequest, guardVars
<1> QED BY <1>5, <1>6, StepInv DEF ToggleRequest

LEMMA PauseCommitInv ==
    ASSUME Inv, NEW c \in Clients, PauseCommit(c)
    PROVE  Inv'
<1>1. PICK l \in {"idle", "pause_mpv"} : pc' = [pc EXCEPT ![c] = l]
  BY DEF PauseCommit, Goto
<1>2. c \in Tasks /\ l \in Labels \ (Targeted \union InTransition)
  BY DEF Tasks, Labels, Targeted, InTransition
<1>3. TasksOK'
  BY <1>1, <1>2, KeepsTarget DEF PauseCommit, Inv, taskVars
<1>4. TransitionsExclusive'
  BY <1>1, <1>2, KeepsOrder DEF PauseCommit, guardVars
<1>5. ShownOK'
  BY DEF PauseCommit, Inv, ShownOK
<1> QED BY <1>3, <1>4, <1>5, StepInv DEF PauseCommit, taskVars

LEMMA ResumeReadInv ==
    ASSUME Inv, NEW c \in Clients, ResumeRead(c)
    PROVE  Inv'
<1>1. /\ c \in Tasks
      /\ "idle" \in Labels \ (Targeted \union InTransition)
      /\ "resume_lock" \in Labels \ InTransition
  BY DEF Tasks, Labels, Targeted, InTransition
<1>2. ASSUME pc' = [pc EXCEPT ![c] = "idle"], target' = target
      PROVE  TasksOK' /\ TransitionsExclusive'
  <2>1. TasksOK'
    BY <1>1, <1>2, KeepsTarget DEF Inv
  <2>2. TransitionsExclusive'
    BY <1>1, <1>2, KeepsOrder DEF ResumeRead, guardVars
  <2> QED BY <2>1, <2>2
<1>3. ASSUME pc' = [pc EXCEPT ![c] = "resume_lock"],
             target' = [target EXCEPT ![c] = queue_position]
      PROVE  TasksOK' /\ TransitionsExclusive'
  <2>1. TasksOK'
    BY <1>1, <1>3, SetsTarget DEF Inv, ShownOK
  <2>2. TransitionsExclusive'
    BY <1>1, <1>3, KeepsOrder DEF ResumeRead, guardVars
  <2> QED BY <2>1, <2>2
<1>4. LocalsOK'
  BY DEF ResumeRead, Inv, LocalsOK
<1>5. TasksOK' /\ TransitionsExclusive'
  BY <1>2, <1>3 DEF ResumeRead, Goto
<1> QED BY <1>4, <1>5, StepInv DEF ResumeRead

(***************************************************************************)
(* Taking the lock and picking the entry.                                  *)
(***************************************************************************)
LEMMA LockOK ==
    ASSUME GuardsOK, NEW t \in Tasks, lock_transition(t)
    PROVE  GuardsOK' /\ transition' = t /\ transition = NoTask
BY DEF GuardsOK, AdvanceExclusive, lock_transition

LEMMA StartLockInv ==
    ASSUME Inv, NEW c \in Clients, StartLock(c)
    PROVE  Inv'
<1> DEFINE l == IF pc[c] = "start_lock" THEN "commit" ELSE "recommit"
<1>1. c \in Tasks /\ l \in Labels /\ pc[c] \in Targeted
  BY DEF Tasks, Labels, Targeted, StartLock
<1>2. pc' = [pc EXCEPT ![c] = l] /\ target' = target
  BY DEF StartLock, Goto, taskVars
<1>3. lock_transition(c) /\ GuardsOK
  BY DEF StartLock, Inv
<1>4. GuardsOK' /\ transition' = c /\ transition = NoTask
  BY <1>1, <1>3, LockOK
<1> HIDE DEF l
<1>5. TasksOK'
  BY <1>1, <1>2, KeepsTarget DEF Inv
<1>6. TransitionsExclusive'
  BY <1>1, <1>2, <1>4, KeepsOrder
<1> QED BY <1>4, <1>5, <1>6, StepInv DEF StartLock, taskVars

LEMMA NextLockInv ==
    ASSUME Inv, NEW c \in Clients, NextLock(c)
    PROVE  Inv'
<1>1. PICK l \in {"idle", "next_resolve"} :
         /\ pc' = [pc EXCEPT ![c] = l]
         /\ \/ UNCHANGED guardVars /\ l = "idle"
            \/ lock_transition(c)
  BY DEF NextLock, Goto
<1>2. c \in Tasks /\ l \in Labels \ Targeted /\ "idle" \notin InTransition
  BY DEF Tasks, Labels, Targeted, InTransition
<1>3. TasksOK'
  BY <1>1, <1>2, KeepsTarget DEF NextLock, Inv
<1>4. GuardsOK
  BY DEF Inv
<1>5. (GuardsOK' \/ UNCHANGED guardVars) /\ TransitionsExclusive'
  <2>1. CASE UNCHANGED guardVars /\ l = "idle"
    BY <1>1, <1>2, <2>1, KeepsOrder DEF guardVars
  <2>2. CASE lock_transition(c)
    <3>1. GuardsOK' /\ transition' = c /\ transition = NoTask
      BY <1>2, <1>4, <2>2, LockOK
    <3> QED BY <1>1, <1>2, <3>1, KeepsOrder
  <2> QED BY <1>1, <2>1, <2>2
<1>6. LocalsOK'
  BY DEF NextLock, Inv, LocalsOK
<1> QED BY <1>3, <1>5, <1>6, StepInv DEF NextLock

LEMMA PrevLockInv ==
    ASSUME Inv, NEW c \in Clients, PrevLock(c)
    PROVE  Inv'
<1>1. c \in Tasks /\ "prev_resolve" \in Labels \ Targeted
  BY DEF Tasks, Labels, Targeted
<1>2. TasksOK'
  BY <1>1, KeepsTarget DEF PrevLock, Goto, Inv, taskVars
<1>3. lock_transition(c) /\ GuardsOK
  BY DEF PrevLock, Inv
<1>4. GuardsOK' /\ transition' = c /\ transition = NoTask
  BY <1>1, <1>3, LockOK
<1>5. TransitionsExclusive'
  BY <1>1, <1>4, KeepsOrder DEF PrevLock, Goto
<1> QED BY <1>2, <1>4, <1>5, StepInv DEF PrevLock, taskVars

(* A task that holds the lock takes the entry it found, if it found one.   *)
LEMMA ResolveInv ==
    ASSUME Inv, NEW t \in Tasks, NEW next \in Positions \union {None},
           pc[t] \in InTransition, resolve(t, next)
    PROVE  Inv'
<1> DEFINE l == IF next # None THEN "commit" ELSE "stop_mpv"
<1>1. l \in Labels /\ (l \in Targeted => next \in Positions)
  BY DEF Labels, Targeted
<1>2. pc' = [pc EXCEPT ![t] = l] /\ target' = [target EXCEPT ![t] = next]
  BY DEF resolve, Goto
<1>3. transition' = transition /\ transition = t
  BY DEF resolve, guardVars, Inv, TransitionsExclusive
<1> HIDE DEF l
<1>4. TasksOK'
  BY <1>1, <1>2, SetsTarget DEF Inv
<1>5. TransitionsExclusive'
  BY <1>1, <1>2, <1>3, KeepsOrder
<1> QED BY <1>4, <1>5, StepInv DEF resolve

(* next_auto, next_manual and prev_wrap find an entry of the queue or none. *)
LEMMA NextInQueue ==
    ASSUME NEW cur \in Positions
    PROVE  /\ next_auto(Mode, cur, QueueLen) \in Positions \union {None}
           /\ next_manual(Mode, cur, QueueLen) \in Positions \union {None}
           /\ prev_wrap(Mode, QueueLen) \in Positions \union {None}
<1>1. Mode \in Modes /\ QueueLen \in Nat /\ cur \in 0..(QueueLen - 1)
  BY TransitionsAssumption DEF Positions
<1> QED BY <1>1, SuccessorInRange DEF Positions

LEMMA NextResolveInv ==
    ASSUME Inv, NEW c \in Clients, NextResolve(c)
    PROVE  Inv'
<1>1. c \in Tasks /\ pc[c] \in InTransition
  BY DEF Tasks, NextResolve, InTransition
<1>2. next_manual(Mode, queue_position, QueueLen) \in Positions \union {None}
  BY NextInQueue DEF Inv, ShownOK
<1> QED BY <1>1, <1>2, ResolveInv DEF NextResolve

LEMMA AdvanceResolveInv ==
    ASSUME Inv, NEW t \in {Tick, Listener}, AdvanceResolve(t)
    PROVE  Inv'
<1>1. t \in Tasks /\ pc[t] \in InTransition
  BY DEF Tasks, AdvanceResolve, InTransition
<1>2. next_auto(Mode, queue_position, QueueLen) \in Positions \union {None}
  BY NextInQueue DEF Inv, ShownOK
<1> QED BY <1>1, <1>2, ResolveInv DEF AdvanceResolve

LEMMA PrevResolveInv ==
    ASSUME Inv, NEW c \in Clients, PrevResolve(c)
    PROVE  Inv'
<1> DEFINE back == IF queue_position > 0 THEN queue_position - 1
                   ELSE prev_wrap(Mode, QueueLen)
<1>1. c \in Tasks /\ pc[c] \in InTransition
  BY DEF Tasks, PrevResolve, InTransition
<1>2. back \in Positions \union {None}
  <2>1. queue_position \in 0..(QueueLen - 1) /\ QueueLen \in Nat
    BY TransitionsAssumption DEF Inv, ShownOK, Positions
  <2>2. prev_wrap(Mode, QueueLen) \in Positions \union {None}
    BY NextInQueue DEF Inv, ShownOK
  <2>3. queue_position > 0 => queue_position - 1 \in Positions
    BY <2>1 DEF Positions
  <2> QED BY <2>2, <2>3
<1>3. CASE resolve(c, back)
  <2> HIDE DEF back
  <2> QED BY <1>1, <1>2, <1>3, ResolveInv
<1>4. CASE /\ mpv_late' = FALSE
           /\ near_end' = FALSE
           /\ drop_guards(c)
           /\ Goto(c, "idle")
           /\ UNCHANGED <<queue_position, status, genVars, instance_current,
                          mpv, mpv_paused, eof, taskVars>>
  <2>1. "idle" \in Labels \ (Targeted \union InTransition)
    BY DEF Labels, Targeted, InTransition
  <2>2. GuardsOK' /\ (transition' = transition \/ transition \in {c, NoTask})
    <3>1. GuardsOK /\ drop_guards(c)
      BY <1>4 DEF Inv
    <3> QED BY <1>1, <3>1, DropGuardsOK
  <2>3. TasksOK'
    BY <1>1, <1>4, <2>1, KeepsTarget DEF Goto, Inv, taskVars
  <2>4. TransitionsExclusive'
    BY <1>1, <1>4, <2>1, <2>2, KeepsOrder DEF Goto
  <2>5. ShownOK' /\ PlayerOK'
    BY <1>4 DEF Inv, ShownOK, PlayerOK
  <2> QED BY <1>4, <2>2, <2>3, <2>4, <2>5, StepInv DEF taskVars
<1> QED BY <1>3, <1>4 DEF PrevResolve


(***************************************************************************)
(* A transition: commit, load, preload; and stopping.                      *)
(***************************************************************************)
LEMMA CommitInv ==
    ASSUME Inv, NEW t \in Tasks, Commit(t)
    PROVE  Inv'
<1>1. "load" \in Labels /\ pc[t] \in Targeted /\ pc[t] \in InTransition
  BY DEF Commit, Labels, Targeted, InTransition
<1>2. target[t] \in Positions
  BY <1>1 DEF Inv, TasksOK
<1>3. TasksOK'
  BY <1>1, KeepsTarget DEF Commit, Goto, Inv, taskVars
<1>4. transition' = transition /\ transition = t
  BY <1>1 DEF Commit, guardVars, Inv, TransitionsExclusive
<1>5. TransitionsExclusive'
  BY <1>1, <1>4, KeepsOrder DEF Commit, Goto
<1>6. ShownOK'
  BY <1>2 DEF Commit, ShownOK
<1>7. GensOK'
  BY DEF Commit, supersede_settle, Inv, GensOK
<1>8. InstanceOK' \/ UNCHANGED instance_current
  BY DEF Commit, mark_play_instance, InstanceOK
<1> QED BY <1>3, <1>5, <1>6, <1>7, <1>8, StepInv DEF Commit, taskVars

LEMMA LoadInv ==
    ASSUME Inv, NEW t \in Tasks, Load(t)
    PROVE  Inv'
<1>1. "preload" \in Labels \ InTransition /\ pc[t] \in Targeted
  BY DEF Load, Labels, Targeted, InTransition
<1>2. target[t] \in Positions
  BY <1>1 DEF Inv, TasksOK
<1>3. TasksOK'
  BY <1>1, KeepsTarget DEF Load, Goto, Inv, taskVars
<1>4. TransitionsExclusive'
  BY <1>1, KeepsOrder DEF Load, Goto, guardVars
<1>5. MpvOK(mpv')
  BY <1>2, LoadOK DEF Load, Inv, PlayerOK
<1>6. PlayerOK'
  BY <1>5 DEF Load, PlayerOK
<1>7. GensOK'
  BY DEF Load, supersede_settle, spawn_settle, Inv, GensOK
<1> QED BY <1>3, <1>4, <1>6, <1>7, StepInv DEF Load, taskVars

LEMMA PreloadCaptureInv ==
    ASSUME Inv, NEW t \in Tasks, PreloadCapture(t)
    PROVE  Inv'
<1>1. "append" \in Labels \ InTransition /\ pc[t] \in Targeted
  BY DEF PreloadCapture, Labels, Targeted, InTransition
<1>2. TasksOK'
  BY <1>1, KeepsTarget DEF PreloadCapture, Goto, Inv, taskVars
<1>3. TransitionsExclusive'
  BY <1>1, KeepsOrder DEF PreloadCapture, Goto, guardVars
<1>4. GensOK'
  BY DEF PreloadCapture, Inv, GensOK
<1> QED BY <1>2, <1>3, <1>4, StepInv DEF PreloadCapture, taskVars

(* What returning with the guards dropped does to the guards and labels.   *)
LEMMA ReturnOK ==
    ASSUME Inv, NEW t \in Tasks, drop_guards(t), Done(t)
    PROVE  GuardsOK' /\ TasksOK' /\ TransitionsExclusive' /\ tick' \in {tick, "none"}
<1>1. GuardsOK' /\ (transition' = transition \/ transition \in {t, NoTask})
  BY DropGuardsOK DEF Inv
<1>2. /\ TasksOK'
      /\ \E l \in {"idle", "tail_read"} : pc' = [pc EXCEPT ![t] = l]
      /\ tick' \in {tick, "none"}
  BY DoneOK DEF Inv
<1>3. PICK l \in {"idle", "tail_read"} : pc' = [pc EXCEPT ![t] = l]
  BY <1>2
<1>4. l \in Labels /\ l \notin InTransition
  BY DEF Labels, InTransition
<1>5. TransitionsExclusive'
  BY <1>1, <1>3, <1>4, KeepsOrder
<1> QED BY <1>1, <1>2, <1>5

LEMMA PreloadAppendInv ==
    ASSUME Inv, NEW t \in Tasks, PreloadAppend(t)
    PROVE  Inv'
<1> DEFINE next == next_auto(Mode, target[t], QueueLen)
<1>1. target[t] \in Positions
  BY DEF PreloadAppend, Inv, TasksOK, Targeted
<1>2. next \in Positions \union {None}
  BY <1>1, NextInQueue
<1>3. drop_guards(t) /\ Done(t)
  BY DEF PreloadAppend
<1>4. GuardsOK' /\ TasksOK' /\ TransitionsExclusive' /\ tick' \in {tick, "none"}
  BY <1>3, ReturnOK
<1>5. MpvOK(mpv')
  <2>1. mpv' = IF may_append(t) /\ next # None THEN loadfile_append(mpv, next)
               ELSE mpv
    BY DEF PreloadAppend
  <2> HIDE DEF next
  <2>2. CASE may_append(t) /\ next # None
    BY <1>2, <2>1, <2>2, AppendOK DEF may_append, Inv, PlayerOK
  <2>3. CASE ~(may_append(t) /\ next # None)
    BY <2>1, <2>3 DEF Inv, PlayerOK
  <2> QED BY <2>2, <2>3
<1>6. PlayerOK'
  BY <1>5 DEF PreloadAppend, Inv, PlayerOK
<1>7. ShownOK'
  BY DEF PreloadAppend, Inv, ShownOK
<1>8. GensOK'
  BY DEF PreloadAppend, Inv, GensOK
<1>9. LocalsOK'
  BY <1>4 DEF PreloadAppend, Inv, LocalsOK
<1> QED BY <1>4, <1>6, <1>7, <1>8, <1>9, StepInv DEF PreloadAppend

LEMMA StopMpvInv ==
    ASSUME Inv, NEW t \in Tasks, StopMpv(t)
    PROVE  Inv'
<1>1. PICK l \in {"idle", "stop_commit"} : pc' = [pc EXCEPT ![t] = l]
  BY DEF StopMpv, Goto
<1>2. l \in Labels \ (Targeted \union InTransition)
  BY DEF Labels, Targeted, InTransition
<1>3. TasksOK'
  BY <1>1, <1>2, KeepsTarget DEF StopMpv, Inv, taskVars
<1>4. TransitionsExclusive'
  BY <1>1, <1>2, KeepsOrder DEF StopMpv, guardVars
<1>5. MpvOK(mpv')
  BY StopOK DEF StopMpv, Inv, PlayerOK
<1>6. PlayerOK'
  BY <1>5 DEF StopMpv, Inv, PlayerOK
<1> QED BY <1>3, <1>4, <1>6, StepInv DEF StopMpv, taskVars

LEMMA StopCommitInv ==
    ASSUME Inv, NEW t \in Tasks, StopCommit(t)
    PROVE  Inv'
<1>1. drop_guards(t) /\ Done(t)
  BY DEF StopCommit
<1>2. GuardsOK' /\ TasksOK' /\ TransitionsExclusive' /\ tick' \in {tick, "none"}
  BY <1>1, ReturnOK
<1>3. ShownOK'
  BY DEF StopCommit, Inv, ShownOK
<1>4. LocalsOK'
  BY <1>2 DEF StopCommit, Inv, LocalsOK
<1> QED BY <1>2, <1>3, <1>4, StepInv DEF StopCommit

(***************************************************************************)
(* The automatic advances.                                                 *)
(***************************************************************************)
LEMMA AdvanceStartInv ==
    ASSUME Inv, NEW t \in {Tick, Listener}, AdvanceStart(t)
    PROVE  Inv'
<1>1. t \in Tasks /\ "advance_lock" \in Labels \ (Targeted \union InTransition)
  BY DEF Tasks, Labels, Targeted, InTransition
<1>2. CASE /\ advance_is_free
           /\ advance_in_flight' = TRUE
           /\ advancing' = advancing \union {t}
           /\ instance_current' = instance_current \union {t}
           /\ Goto(t, "advance_lock")
           /\ UNCHANGED <<tick, target>>
  <2>1. transition' = transition /\ resume_late' = resume_late
        /\ coalesced' = coalesced /\ eof' = eof
    BY DEF AdvanceStart
  <2>2. advancing = {}
    BY <1>2 DEF Inv, GuardsOK, AdvanceExclusive, advance_is_free
  <2>3. GuardsOK'
    BY <1>2, <2>1, <2>2 DEF Inv, GuardsOK, AdvanceExclusive
  <2>4. InstanceOK'
    BY <1>2 DEF Inv, InstanceOK
  <2>5. TasksOK'
    BY <1>1, <1>2, KeepsTarget DEF Goto, Inv
  <2>6. TransitionsExclusive'
    BY <1>1, <1>2, <2>1, KeepsOrder DEF Goto
  <2> QED BY <1>2, <2>1, <2>3, <2>4, <2>5, <2>6, StepInv DEF AdvanceStart
<1>3. CASE /\ Done(t)
           /\ UNCHANGED <<advance_in_flight, advancing, instance_current>>
  <2>1. /\ TasksOK'
        /\ \E l \in {"idle", "tail_read"} : pc' = [pc EXCEPT ![t] = l]
        /\ tick' \in {tick, "none"}
    BY <1>1, <1>3, DoneOK DEF Inv
  <2>2. PICK l \in {"idle", "tail_read"} : pc' = [pc EXCEPT ![t] = l]
    BY <2>1
  <2>3. l \in Labels /\ l \notin InTransition
    BY DEF Labels, InTransition
  <2>4. UNCHANGED guardVars
    BY <1>3 DEF AdvanceStart, guardVars
  <2>5. TransitionsExclusive'
    BY <1>1, <2>2, <2>3, <2>4, KeepsOrder DEF guardVars
  <2>6. LocalsOK'
    BY <2>1 DEF AdvanceStart, Inv, LocalsOK
  <2> QED BY <1>3, <2>1, <2>4, <2>5, <2>6, StepInv DEF AdvanceStart
<1> QED BY <1>2, <1>3 DEF AdvanceStart

LEMMA AdvanceLockInv ==
    ASSUME Inv, NEW t \in {Tick, Listener}, AdvanceLock(t)
    PROVE  Inv'
<1>1. t \in Tasks /\ "advance_check" \in Labels \ Targeted
  BY DEF Tasks, Labels, Targeted
<1>2. TasksOK'
  BY <1>1, KeepsTarget DEF AdvanceLock, Goto, Inv, taskVars
<1>3. lock_transition(t) /\ GuardsOK
  BY DEF AdvanceLock, Inv
<1>4. GuardsOK' /\ transition' = t /\ transition = NoTask
  BY <1>1, <1>3, LockOK
<1>5. TransitionsExclusive'
  BY <1>1, <1>4, KeepsOrder DEF AdvanceLock, Goto
<1> QED BY <1>2, <1>4, <1>5, StepInv DEF AdvanceLock, taskVars

LEMMA AdvanceCheckInv ==
    ASSUME Inv, NEW t \in {Tick, Listener}, AdvanceCheck(t)
    PROVE  Inv'
<1>1. /\ t \in Tasks
      /\ "advance_resolve" \in Labels \ Targeted
      /\ pc[t] \in InTransition
  BY DEF Tasks, AdvanceCheck, Labels, Targeted, InTransition
<1>2. InstanceOK'
  BY DEF AdvanceCheck, Inv, InstanceOK
<1>3. CASE Goto(t, "advance_resolve") /\ UNCHANGED <<guardVars, tick, target>>
  <2>1. transition' = transition /\ transition = t
    BY <1>1, <1>3 DEF guardVars, Inv, TransitionsExclusive
  <2>2. TasksOK'
    BY <1>1, <1>3, KeepsTarget DEF Goto, Inv
  <2>3. TransitionsExclusive'
    BY <1>1, <1>3, <2>1, KeepsOrder DEF Goto
  <2> QED BY <1>2, <1>3, <2>2, <2>3, StepInv DEF AdvanceCheck
<1>4. CASE drop_guards(t) /\ Done(t)
  <2>1. GuardsOK' /\ TasksOK' /\ TransitionsExclusive' /\ tick' \in {tick, "none"}
    BY <1>1, <1>4, ReturnOK
  <2>2. LocalsOK'
    BY <2>1 DEF AdvanceCheck, Inv, LocalsOK
  <2> QED BY <1>2, <2>1, <2>2, StepInv DEF AdvanceCheck
<1> QED BY <1>3, <1>4 DEF AdvanceCheck


(* Moving to a label that needs no target and is outside the transition.   *)
LEMMA FreeMove ==
    ASSUME Inv, NEW t \in Tasks,
           NEW l \in {"idle", "count", "advance", "tail_read", "tail_write"},
           Goto(t, l), UNCHANGED guardVars,
           target' = target \/ target' = [target EXCEPT ![t] = None]
    PROVE  TasksOK' /\ TransitionsExclusive'
<1>1. l \in Labels /\ l \notin Targeted /\ l \notin InTransition
  BY DEF Labels, Targeted, InTransition
<1>2. TasksOK'
  BY <1>1, KeepsTarget, SetsTarget DEF Goto, Inv
<1>3. TransitionsExclusive'
  BY <1>1, KeepsOrder DEF Goto, guardVars
<1> QED BY <1>2, <1>3

LEMMA ListenerInv == Inv /\ ListenerStep => Inv'
<1> SUFFICES ASSUME Inv, ListenerStep PROVE Inv'
  OBVIOUS
<1>1. Listener \in Tasks
  BY DEF Tasks
<1>2. CASE ListenerReceives
  <2>1. TasksOK' /\ TransitionsExclusive'
    BY <1>1, <1>2, FreeMove DEF ListenerReceives, taskVars
  <2>2. LocalsOK'
    BY <1>2, TransitionsAssumption DEF ListenerReceives, taskVars, Inv, LocalsOK
  <2> QED BY <1>2, <2>1, <2>2, StepInv DEF ListenerReceives
<1>3. CASE ListenerCounts
  <2>1. PICK l \in {"idle", "advance"} : Goto(Listener, l)
    BY <1>3 DEF ListenerCounts
  <2>2. TasksOK' /\ TransitionsExclusive'
    BY <1>1, <1>3, <2>1, FreeMove DEF ListenerCounts, taskVars
  <2> QED BY <1>3, <2>2, StepInv DEF ListenerCounts, taskVars
<1>4. CASE ListenerLagged
  <2>1. PICK l \in {"idle", "advance"} : Goto(Listener, l)
    BY <1>4 DEF ListenerLagged
  <2>2. TasksOK' /\ TransitionsExclusive'
    BY <1>1, <1>4, <2>1, FreeMove DEF ListenerLagged, taskVars
  <2>3. LocalsOK'
    BY <1>4, TransitionsAssumption DEF ListenerLagged, taskVars, Inv, LocalsOK
  <2> QED BY <1>4, <2>2, <2>3, StepInv DEF ListenerLagged
<1> QED BY <1>2, <1>3, <1>4 DEF ListenerStep

(***************************************************************************)
(* The tick.                                                               *)
(***************************************************************************)
LEMMA TickReadsStateInv ==
    ASSUME Inv, TickReadsState
    PROVE  Inv'
<1>1. Tick \in Tasks /\ "read_mpv" \in Labels \ InTransition
  BY DEF Tasks, Labels, InTransition
<1>2. LocalsOK'
  BY DEF TickReadsState, Inv, LocalsOK
<1>3. CASE /\ target' = [target EXCEPT ![Tick] = queue_position]
           /\ Goto(Tick, "read_mpv")
  <2>1. TasksOK'
    BY <1>1, <1>3, SetsTarget DEF Goto, Inv, ShownOK
  <2>2. TransitionsExclusive'
    BY <1>1, <1>3, KeepsOrder DEF TickReadsState, Goto, guardVars
  <2> QED BY <1>2, <2>1, <2>2, StepInv DEF TickReadsState
<1>4. CASE Goto(Tick, "tail_read") /\ target' = target
  <2>1. TasksOK' /\ TransitionsExclusive'
    BY <1>1, <1>4, FreeMove DEF TickReadsState
  <2> QED BY <1>2, <2>1, StepInv DEF TickReadsState
<1> QED BY <1>3, <1>4 DEF TickReadsState

LEMMA TickReadsMpvInv ==
    ASSUME Inv, TickReadsMpv
    PROVE  Inv'
<1>1. /\ Tick \in Tasks
      /\ "decide" \in Labels \ InTransition
      /\ pc[Tick] \in Targeted
  BY DEF TickReadsMpv, Tasks, Labels, Targeted, InTransition
<1>2. TasksOK'
  BY <1>1, KeepsTarget DEF TickReadsMpv, Goto, Inv
<1>3. TransitionsExclusive'
  BY <1>1, KeepsOrder DEF TickReadsMpv, Goto, guardVars
<1>4. tick' \in {"early", "preload", "gapless", "idle", "none"}
  BY DEF TickReadsMpv
<1>5. LocalsOK'
  BY <1>4 DEF TickReadsMpv, Inv, LocalsOK
<1> QED BY <1>2, <1>3, <1>5, StepInv DEF TickReadsMpv

LEMMA TickDecidesInv ==
    ASSUME Inv, TickDecides
    PROVE  Inv'
<1>1. Tick \in Tasks /\ pc[Tick] \in Targeted
  BY DEF TickDecides, Tasks, Targeted
<1>2. CASE \E l \in {"advance", "tail_read"} :
             Goto(Tick, l) /\ target' = [target EXCEPT ![Tick] = None]
  <2>1. TasksOK' /\ TransitionsExclusive'
    BY <1>1, <1>2, FreeMove DEF TickDecides
  <2> QED BY <2>1, StepInv DEF TickDecides
<1>3. CASE tick \in {"preload", "gapless"} /\ Goto(Tick, tick) /\ UNCHANGED target
  <2>1. tick \in Labels /\ tick \notin InTransition
    BY <1>3 DEF Labels, InTransition
  <2>2. TasksOK'
    BY <1>1, <1>3, <2>1, KeepsTarget DEF Goto, Inv
  <2>3. TransitionsExclusive'
    BY <1>1, <1>3, <2>1, KeepsOrder DEF TickDecides, Goto, guardVars
  <2> QED BY <2>2, <2>3, StepInv DEF TickDecides
<1> QED BY <1>2, <1>3 DEF TickDecides

LEMMA TickPreloadNotDueInv ==
    ASSUME Inv, TickPreloadNotDue
    PROVE  Inv'
<1>1. Tick \in Tasks /\ Done(Tick)
  BY DEF TickPreloadNotDue, Tasks
<1>2. /\ TasksOK'
      /\ \E l \in {"idle", "tail_read"} : pc' = [pc EXCEPT ![Tick] = l]
      /\ tick' \in {tick, "none"}
  BY <1>1, DoneOK DEF Inv
<1>3. TransitionsExclusive'
  BY <1>1, <1>2, KeepsOrder DEF TickPreloadNotDue, guardVars, Labels, InTransition
<1>4. LocalsOK'
  BY <1>2 DEF TickPreloadNotDue, Inv, LocalsOK
<1> QED BY <1>2, <1>3, <1>4, StepInv DEF TickPreloadNotDue

LEMMA GaplessCommitInv ==
    ASSUME Inv, GaplessCommit
    PROVE  Inv'
<1>1. /\ Tick \in Tasks
      /\ "gapless_remove" \in Labels \ InTransition
  BY DEF Tasks, Labels, InTransition
<1>2. gapless_next \in Positions \union {None}
  BY NextInQueue DEF gapless_next, Inv, ShownOK
<1>3. CASE gapless_next # None
  <2>1. gapless_next \in Positions
    BY <1>2, <1>3
  <2>2. /\ target' = [target EXCEPT ![Tick] = gapless_next]
        /\ Goto(Tick, "gapless_remove")
        /\ queue_position' = gapless_next
        /\ near_end' = FALSE
        /\ mark_play_instance
    BY <1>3 DEF GaplessCommit
  <2>3. TasksOK'
    BY <1>1, <2>1, <2>2, SetsTarget DEF Goto, Inv
  <2>4. TransitionsExclusive'
    BY <1>1, <2>2, KeepsOrder DEF GaplessCommit, Goto, guardVars
  <2>5. ShownOK'
    BY <2>1, <2>2 DEF GaplessCommit, Inv, ShownOK
  <2>6. InstanceOK'
    BY <2>2 DEF mark_play_instance, InstanceOK
  <2> QED BY <2>3, <2>4, <2>5, <2>6, StepInv DEF GaplessCommit
<1>4. CASE gapless_next = None
  <2>1. /\ Goto(Tick, "tail_read")
        /\ target' = [target EXCEPT ![Tick] = None]
        /\ UNCHANGED <<queue_position, near_end, instance_current>>
    BY <1>4 DEF GaplessCommit
  <2>2. TasksOK' /\ TransitionsExclusive'
    BY <1>1, <2>1, FreeMove DEF GaplessCommit
  <2> QED BY <2>1, <2>2, StepInv DEF GaplessCommit, shownVars
<1> QED BY <1>3, <1>4

LEMMA GaplessRemoveInv ==
    ASSUME Inv, GaplessRemove
    PROVE  Inv'
<1>1. /\ Tick \in Tasks
      /\ "preload" \in Labels \ InTransition
      /\ pc[Tick] \in Targeted
  BY DEF GaplessRemove, Tasks, Labels, Targeted, InTransition
<1>2. TasksOK'
  BY <1>1, KeepsTarget DEF GaplessRemove, Goto, Inv, taskVars
<1>3. TransitionsExclusive'
  BY <1>1, KeepsOrder DEF GaplessRemove, Goto, guardVars
<1>4. MpvOK(mpv')
  <2>1. CASE mpv.pos = 1
    BY <2>1, RemoveFirstOK DEF GaplessRemove, Inv, PlayerOK
  <2>2. CASE mpv.pos # 1
    BY <2>2 DEF GaplessRemove, Inv, PlayerOK
  <2> QED BY <2>1, <2>2
<1>5. PlayerOK'
  BY <1>4 DEF GaplessRemove, Inv, PlayerOK
<1> QED BY <1>2, <1>3, <1>5, StepInv DEF GaplessRemove, taskVars

LEMMA TailInv ==
    ASSUME Inv, TailRead \/ TailWrite
    PROVE  Inv'
<1>1. Tick \in Tasks
  BY DEF Tasks
<1>2. CASE TailRead
  <2>1. PICK l \in {"idle", "tail_write"} : Goto(Tick, l)
    BY <1>2 DEF TailRead
  <2>2. TasksOK' /\ TransitionsExclusive'
    BY <1>1, <1>2, <2>1, FreeMove DEF TailRead
  <2>3. LocalsOK'
    BY <1>2 DEF TailRead, Inv, LocalsOK
  <2> QED BY <1>2, <2>2, <2>3, StepInv DEF TailRead
<1>3. CASE TailWrite
  <2>1. TasksOK' /\ TransitionsExclusive'
    BY <1>1, <1>3, FreeMove DEF TailWrite
  <2>2. LocalsOK'
    BY <1>3 DEF TailWrite, Inv, LocalsOK
  <2>3. ShownOK'
    BY <1>3 DEF TailWrite, Inv, ShownOK
  <2> QED BY <1>3, <2>1, <2>2, <2>3, StepInv DEF TailWrite
<1> QED BY <1>2, <1>3

(***************************************************************************)
(* The settle tasks, mpv and the clock.                                    *)
(***************************************************************************)
LEMMA NoTaskMoves ==
    ASSUME Inv,
           UNCHANGED <<shownVars, guardVars, instance_current, taskVars, pc>>,
           GensOK' \/ UNCHANGED genVars,
           PlayerOK' \/ UNCHANGED playerVars,
           LocalsOK' \/ eof' = eof
    PROVE  Inv'
<1>1. UNCHANGED <<target, pc>> /\ UNCHANGED <<transition, pc>>
  BY DEF taskVars, guardVars
<1>2. LocalsOK' \/ UNCHANGED <<eof, tick, resume_late, coalesced>>
  BY DEF taskVars
<1> QED BY <1>1, <1>2, StepInv

LEMMA SettleInv ==
    ASSUME Inv, SettleChecks \/ SettleUnpauses \/ LateUnpause
    PROVE  Inv'
<1>1. CASE SettleChecks
  <2>1. GensOK'
    BY <1>1 DEF SettleChecks, Inv, GensOK
  <2> QED BY <1>1, <2>1, NoTaskMoves DEF SettleChecks
<1>2. CASE SettleUnpauses
  <2>1. GensOK'
    BY <1>2 DEF SettleUnpauses, Inv, GensOK
  <2>2. PlayerOK'
    BY <1>2 DEF SettleUnpauses, Inv, PlayerOK
  <2> QED BY <1>2, <2>1, <2>2, NoTaskMoves DEF SettleUnpauses
<1>3. CASE LateUnpause
  <2>1. GensOK'
    BY <1>3 DEF LateUnpause, Inv, GensOK
  <2>2. PlayerOK'
    BY <1>3 DEF LateUnpause, Inv, PlayerOK
  <2> QED BY <1>3, <2>1, <2>2, NoTaskMoves DEF LateUnpause
<1> QED BY <1>1, <1>2, <1>3

LEMMA EnvironmentInv ==
    ASSUME Inv, PlayheadNearsEnd \/ TrackEnds \/ WindowElapses
    PROVE  Inv'
<1>1. CASE PlayheadNearsEnd
  <2>1. PlayerOK'
    BY <1>1 DEF PlayheadNearsEnd, Inv, PlayerOK
  <2> QED BY <1>1, <2>1, NoTaskMoves DEF PlayheadNearsEnd
<1>2. CASE TrackEnds
  <2>1. MpvOK(mpv')
    BY <1>2, EndsOK DEF TrackEnds, Inv, PlayerOK
  <2>2. PlayerOK'
    BY <1>2, <2>1 DEF TrackEnds, Inv, PlayerOK
  <2>3. LocalsOK'
    BY <1>2, TransitionsAssumption DEF TrackEnds, taskVars, Inv, LocalsOK
  <2> QED BY <1>2, <2>2, <2>3, NoTaskMoves DEF TrackEnds
<1>3. CASE WindowElapses
  <2>1. GensOK'
    BY <1>3 DEF WindowElapses, Inv, GensOK
  <2> QED BY <1>3, <2>1, NoTaskMoves DEF WindowElapses
<1> QED BY <1>1, <1>2, <1>3

LEMMA NextInv == Inv /\ [Next]_vars => Inv'
<1> SUFFICES ASSUME Inv, [Next]_vars PROVE Inv'
  OBVIOUS
<1>1. CASE \E c \in Clients : ClientStep(c)
  BY <1>1, NextRequestInv, PrevRequestInv, ToggleRequestInv, PlayRequestInv,
     PauseCommitInv, StopRequestInv, ResumeReadInv, StartLockInv, NextLockInv,
     PrevLockInv, NextResolveInv, PrevResolveInv DEF ClientStep
<1>2. CASE \E t \in Tasks : TransitionStep(t)
  BY <1>2, CommitInv, LoadInv, PreloadCaptureInv, PreloadAppendInv, StopMpvInv,
     StopCommitInv DEF TransitionStep
<1>3. CASE \E t \in {Tick, Listener} : AdvanceStep(t)
  BY <1>3, AdvanceStartInv, AdvanceLockInv, AdvanceCheckInv, AdvanceResolveInv
     DEF AdvanceStep
<1>4. CASE ListenerStep
  BY <1>4, ListenerInv
<1>5. CASE TickStep
  BY <1>5, TickReadsStateInv, TickReadsMpvInv, TickDecidesInv,
     TickPreloadNotDueInv, GaplessCommitInv, GaplessRemoveInv, TailInv
     DEF TickStep
<1>6. CASE SettleChecks \/ SettleUnpauses \/ LateUnpause
  BY <1>6, SettleInv
<1>7. CASE PlayheadNearsEnd \/ TrackEnds \/ WindowElapses
  BY <1>7, EnvironmentInv
<1>8. CASE UNCHANGED vars
  BY <1>8, StepInv DEF vars, shownVars, guardVars, genVars, playerVars
<1> QED BY <1>1, <1>2, <1>3, <1>4, <1>5, <1>6, <1>7, <1>8 DEF Next

LEMMA InvHolds == Spec => []Inv
BY InitInv, NextInv, PTL DEF Spec

(***************************************************************************)
(* The theorems.                                                           *)
(***************************************************************************)

(* Every variable keeps its type, and every task works for an entry of the *)
(* queue, whatever the queue length and the repeat mode.                   *)
THEOREM TypeCorrect == Spec => []TypeOK
<1>1. Inv => TypeOK
  <2> SUFFICES ASSUME Inv PROVE TypeOK
    OBVIOUS
  <2>1. mpv \in [alive : BOOLEAN, list : Seq(Positions), pos : Int]
    BY DEF Inv, PlayerOK, MpvOK, None
  <2>2. mpv.pos \in {None} \union 0..(Len(mpv.list) - 1)
    <3>1. mpv.list \in Seq(Positions)
      BY DEF Inv, PlayerOK, MpvOK
    <3>2. Len(mpv.list) \in Nat
      BY <3>1, LenProperties
    <3> QED BY <3>2 DEF Inv, PlayerOK, MpvOK, None
  <2>3. mpv_paused \in BOOLEAN /\ mpv_late \in BOOLEAN
    BY DEF Inv, PlayerOK
  <2> QED BY <2>1, <2>2, <2>3
      DEF TypeOK, Inv, ShownOK, GuardsOK, GensOK, InstanceOK, LocalsOK, TasksOK
<1> QED BY InvHolds, <1>1, PTL

(* Automatic advances are single-flight: the flag is set exactly while one *)
(* AdvanceGuard exists, for any number of clients that interfere           *)
(* (advance_auto).                                                         *)
THEOREM AdvanceSingleFlight == Spec => []AdvanceExclusive
<1>1. Inv => AdvanceExclusive
  BY DEF Inv, GuardsOK
<1> QED BY InvHolds, <1>1, PTL

(* Every task between taking playback_transitions and finishing its load   *)
(* is the holder of the lock, so no two of them overlap.                   *)
THEOREM TransitionsNeverOverlap == Spec => []TransitionsExclusive
<1>1. Inv => TransitionsExclusive
  BY DEF Inv
<1> QED BY InvHolds, <1>1, PTL

(* Racing preloads never put a third entry into mpv's playlist: the count  *)
(* is checked under the same mpv lock as the append (preload_next_track).  *)
THEOREM PreloadNeverDoubles == Spec => []OnePreload
<1>1. Inv => OnePreload
  BY DEF Inv, PlayerOK, MpvOK, OnePreload
<1> QED BY InvHolds, <1>1, PTL

(***************************************************************************)
(* Manual transitions: no file ends by itself (MaxEof = 0), so mpv never   *)
(* plays the preloaded entry and the tick never advances the cursor.       *)
(***************************************************************************)
NoGapless ==
    /\ mpv.alive
    /\ mpv.pos # 1
    /\ eof = 0
    /\ tick # "gapless"
    /\ pc[Tick] \notin {"gapless", "gapless_remove"}

(* Between the commit and the load the holder of the transition works for  *)
(* the entry that is shown ...                                             *)
LoadsShown == \A t \in Tasks : pc[t] = "load" => target[t] = queue_position

(* ... and at any other time the first entry of mpv is that one.           *)
FirstIsShown ==
    (\A t \in Tasks : pc[t] # "load") /\ status = "Playing" /\ mpv.pos = 0
        => mpv.list[1] = queue_position

ManualInv == NoGapless /\ LoadsShown /\ FirstIsShown

(* mpv is stopped, or goes on with the file it plays.                      *)
KeepsFile ==
    /\ mpv'.alive
    /\ mpv'.pos # 1
    /\ mpv'.pos = 0 => mpv.pos = 0 /\ mpv'.list[1] = mpv.list[1]

(* A step of t that is neither the commit, nor the load, nor gapless.      *)
LEMMA OrdinaryStep ==
    ASSUME Inv, ManualInv, NEW t \in Tasks,
           NEW l \in Labels \ {"load", "gapless", "gapless_remove"},
           pc[t] # "load", pc' = [pc EXCEPT ![t] = l],
           \A u \in Tasks : u # t => target'[u] = target[u],
           queue_position' = queue_position, status' \in {status, "Paused", "Stopped"},
           tick' # "gapless", eof' = eof, KeepsFile
    PROVE  ManualInv'
<1>1. pc \in [Tasks -> Labels] /\ Tick \in Tasks
  BY DEF Inv, TasksOK, Tasks
<1>2. \A u \in Tasks : /\ u # t => pc'[u] = pc[u]
                       /\ u = t => pc'[u] = l
  BY <1>1
<1>3. NoGapless'
  BY <1>1, <1>2 DEF ManualInv, NoGapless, KeepsFile
<1>4. LoadsShown'
  BY <1>2 DEF ManualInv, LoadsShown
<1>5. FirstIsShown'
  <2> SUFFICES ASSUME \A u \in Tasks : pc'[u] # "load", status' = "Playing", mpv'.pos = 0
               PROVE  mpv'.list[1] = queue_position
    BY DEF FirstIsShown
  <2>1. \A u \in Tasks : pc[u] # "load"
    BY <1>2
  <2> QED BY <2>1 DEF ManualInv, FirstIsShown, KeepsFile
<1> QED BY <1>3, <1>4, <1>5 DEF ManualInv

LEMMA SameFile ==
    ASSUME ManualInv, mpv' = mpv
    PROVE  KeepsFile
BY DEF ManualInv, NoGapless, KeepsFile

(* Steps that move no task. *)
LEMMA OutsideStep ==
    ASSUME ManualInv, pc' = pc, target' = target, UNCHANGED shownVars, mpv' = mpv,
           eof' = eof, tick' = tick
    PROVE  ManualInv'
BY DEF ManualInv, NoGapless, LoadsShown, FirstIsShown, shownVars

LEMMA ClientStepManual ==
    ASSUME Inv, ManualInv, NEW c \in Clients, ClientStep(c)
    PROVE  ManualInv'
<1>1. /\ c \in Tasks /\ pc \in [Tasks -> Labels]
      /\ target \in [Tasks -> Positions \union {None}] /\ tick # "gapless"
      /\ c # Tick
  BY TransitionsAssumption DEF Inv, TasksOK, Tasks, ManualInv, NoGapless
<1>2. /\ pc[c] # "load"
      /\ \E l \in Labels \ {"load", "gapless", "gapless_remove"} : pc' = [pc EXCEPT ![c] = l]
      /\ \A u \in Tasks : u # c => target'[u] = target[u]
      /\ queue_position' = queue_position /\ status' \in {status, "Paused", "Stopped"}
      /\ tick' = tick /\ eof' = eof /\ mpv' = mpv
  <2>1. CASE NextRequest(c) \/ PrevRequest(c) \/ ToggleRequest(c) \/ StopRequest(c)
    <3>1. CASE ToggleRequest(c)
      BY <1>1, <3>1 DEF ToggleRequest, Goto, Labels, shownVars, playerVars, Inv, ShownOK
    <3> QED BY <1>1, <2>1, <3>1 DEF NextRequest, PrevRequest, StopRequest, Goto,
            Labels, shownVars, playerVars, taskVars
  <2>2. CASE \E p \in Positions : PlayRequest(c, p)
    BY <1>1, <2>2 DEF PlayRequest, Goto, Labels, shownVars, playerVars
  <2>3. CASE PauseCommit(c) \/ ResumeRead(c)
    BY <1>1, <2>3 DEF PauseCommit, ResumeRead, Goto, Labels, shownVars, playerVars, taskVars
  <2>4. CASE StartLock(c) \/ PrevLock(c) \/ NextLock(c)
    BY <1>1, <2>4 DEF StartLock, PrevLock, NextLock, Goto, Labels, shownVars, playerVars,
       taskVars
  <2>5. CASE NextResolve(c)
    BY <1>1, <2>5 DEF NextResolve, resolve, Goto, Labels, shownVars, playerVars
  <2>6. CASE PrevResolve(c)
    BY <1>1, <2>6 DEF PrevResolve, resolve, Goto, Labels, shownVars, playerVars, taskVars
  <2> QED BY <2>1, <2>2, <2>3, <2>4, <2>5, <2>6 DEF ClientStep
<1>3. KeepsFile
  BY <1>2, SameFile
<1> QED BY <1>1, <1>2, <1>3, OrdinaryStep

LEMMA CommitManual ==
    ASSUME Inv, ManualInv, NEW t \in Tasks, Commit(t)
    PROVE  ManualInv'
<1>1. /\ pc \in [Tasks -> Labels] /\ Tick \in Tasks /\ pc[t] \in {"commit", "recommit"}
      /\ pc' = [pc EXCEPT ![t] = "load"] /\ target' = target
      /\ queue_position' = target[t] /\ mpv' = mpv /\ eof' = eof /\ tick' = tick
  BY DEF Inv, TasksOK, Tasks, Commit, Goto, playerVars, taskVars
<1>2. NoGapless'
  BY <1>1 DEF ManualInv, NoGapless
<1>3. ASSUME NEW u \in Tasks, pc'[u] = "load" PROVE u = t
  <2>1. transition = t
    BY <1>1 DEF Inv, TransitionsExclusive, InTransition
  <2>2. u # t => pc[u] = "load"
    BY <1>1, <1>3
  <2> QED BY <2>1, <2>2 DEF Inv, TransitionsExclusive, InTransition
<1>4. LoadsShown'
  BY <1>1, <1>3 DEF LoadsShown
<1>5. pc'[t] = "load"
  BY <1>1
<1>6. FirstIsShown'
  BY <1>5 DEF FirstIsShown
<1> QED BY <1>2, <1>4, <1>6 DEF ManualInv

LEMMA LoadManual ==
    ASSUME Inv, ManualInv, NEW t \in Tasks, Load(t)
    PROVE  ManualInv'
<1>1. /\ pc \in [Tasks -> Labels] /\ Tick \in Tasks /\ pc[t] = "load"
      /\ pc' = [pc EXCEPT ![t] = "preload"] /\ target' = target
      /\ queue_position' = queue_position /\ eof' = eof /\ tick' = tick
      /\ mpv' = loadfile(mpv, target[t])
  BY DEF Inv, TasksOK, Tasks, Load, Goto, shownVars, taskVars
<1>2. target[t] = queue_position
  BY <1>1 DEF ManualInv, LoadsShown
<1>3. mpv' = [alive |-> TRUE, list |-> <<queue_position>>, pos |-> 0]
  BY <1>1, <1>2 DEF ManualInv, NoGapless, loadfile
<1>4. NoGapless'
  BY <1>1, <1>3 DEF ManualInv, NoGapless
<1>5. LoadsShown'
  BY <1>1 DEF ManualInv, LoadsShown
<1>6. FirstIsShown'
  BY <1>1, <1>3 DEF FirstIsShown
<1> QED BY <1>4, <1>5, <1>6 DEF ManualInv

LEMMA PreloadManual ==
    ASSUME Inv, ManualInv, NEW t \in Tasks, PreloadCapture(t) \/ PreloadAppend(t)
    PROVE  ManualInv'
<1>1. /\ pc \in [Tasks -> Labels] /\ target \in [Tasks -> Positions \union {None}]
      /\ tick # "gapless"
  BY DEF Inv, TasksOK, ManualInv, NoGapless
<1>2. CASE PreloadCapture(t)
  <2>1. /\ pc[t] # "load" /\ pc' = [pc EXCEPT ![t] = "append"]
        /\ "append" \in Labels \ {"load", "gapless", "gapless_remove"}
        /\ target' = target /\ queue_position' = queue_position /\ status' = status
        /\ tick' = tick /\ eof' = eof /\ mpv' = mpv
    BY <1>2 DEF PreloadCapture, Goto, Labels, shownVars, playerVars, taskVars
  <2>2. KeepsFile
    BY <2>1, SameFile
  <2> QED BY <1>1, <2>1, <2>2, OrdinaryStep
<1>3. CASE PreloadAppend(t)
  <2>1. /\ pc[t] # "load" /\ Done(t)
        /\ queue_position' = queue_position /\ status' = status /\ eof' = eof
    BY <1>3 DEF PreloadAppend
  <2>2. PICK l \in {"idle", "tail_read"} : pc' = [pc EXCEPT ![t] = l]
    BY <2>1, DoneOK DEF Inv
  <2>3. l \in Labels \ {"load", "gapless", "gapless_remove"}
    BY DEF Labels
  <2>4. /\ tick' # "gapless"
        /\ \A u \in Tasks : u # t => target'[u] = target[u]
    BY <1>1, <2>1 DEF Done
  <2>5. KeepsFile
    <3>1. CASE mpv' = mpv
      BY <3>1, SameFile
    <3>2. ASSUME NEW next, mpv' = loadfile_append(mpv, next), Len(mpv.list) = 1
          PROVE  KeepsFile
      <4>1. mpv.list \in Seq(Positions) /\ mpv \in [alive : BOOLEAN, list : Seq(Positions), pos : {None, 0, 1}]
        BY DEF Inv, PlayerOK, MpvOK
      <4>2. Append(mpv.list, next)[1] = mpv.list[1]
        BY <3>2, <4>1
      <4>3. mpv'.list = Append(mpv.list, next) /\ mpv'.pos = mpv.pos /\ mpv'.alive = mpv.alive
        BY <3>2, <4>1 DEF loadfile_append
      <4> QED BY <4>2, <4>3 DEF KeepsFile, ManualInv, NoGapless
    <3> QED BY <1>3, <3>1, <3>2 DEF PreloadAppend, may_append
  <2> QED BY <2>1, <2>2, <2>3, <2>4, <2>5, OrdinaryStep
<1> QED BY <1>2, <1>3

LEMMA StopManual ==
    ASSUME Inv, ManualInv, NEW t \in Tasks, StopMpv(t) \/ StopCommit(t)
    PROVE  ManualInv'
<1>1. /\ pc \in [Tasks -> Labels] /\ target \in [Tasks -> Positions \union {None}]
      /\ tick # "gapless"
  BY DEF Inv, TasksOK, ManualInv, NoGapless
<1>2. CASE StopMpv(t)
  <2>1. /\ pc[t] # "load" /\ target' = target /\ queue_position' = queue_position
        /\ status' = status /\ tick' = tick /\ eof' = eof
        /\ mpv' = mpv_stop(mpv)
        /\ \E l \in Labels \ {"load", "gapless", "gapless_remove"} :
              pc' = [pc EXCEPT ![t] = l]
    BY <1>2 DEF StopMpv, Goto, Labels, shownVars, taskVars
  <2>2. KeepsFile
    BY <2>1 DEF mpv_stop, IdleMpv, None, ManualInv, NoGapless, KeepsFile
  <2> QED BY <1>1, <2>1, <2>2, OrdinaryStep
<1>3. CASE StopCommit(t)
  <2>1. /\ pc[t] # "load" /\ Done(t) /\ mpv' = mpv
        /\ queue_position' = queue_position /\ status' = "Stopped" /\ eof' = eof
    BY <1>3 DEF StopCommit, playerVars
  <2>2. PICK l \in {"idle", "tail_read"} : pc' = [pc EXCEPT ![t] = l]
    BY <2>1, DoneOK DEF Inv
  <2>3. l \in Labels \ {"load", "gapless", "gapless_remove"}
    BY DEF Labels
  <2>4. /\ tick' # "gapless"
        /\ \A u \in Tasks : u # t => target'[u] = target[u]
    BY <1>1, <2>1 DEF Done
  <2>5. KeepsFile
    BY <2>1, SameFile
  <2> QED BY <2>1, <2>2, <2>3, <2>4, <2>5, OrdinaryStep
<1> QED BY <1>2, <1>3

LEMMA AdvanceManual ==
    ASSUME Inv, ManualInv, NEW t \in {Tick, Listener}, AdvanceStep(t)
    PROVE  ManualInv'
<1>1. /\ t \in Tasks /\ pc \in [Tasks -> Labels]
      /\ target \in [Tasks -> Positions \union {None}] /\ tick # "gapless"
  BY DEF Inv, TasksOK, Tasks, ManualInv, NoGapless
<1>2. /\ pc[t] # "load" /\ queue_position' = queue_position /\ status' = status
      /\ eof' = eof /\ mpv' = mpv
  BY DEF AdvanceStep, AdvanceStart, AdvanceLock, AdvanceCheck, AdvanceResolve, resolve,
         shownVars, playerVars
<1>3. KeepsFile
  BY <1>2, SameFile
<1>4. CASE Done(t)
  <2>1. PICK l \in {"idle", "tail_read"} : pc' = [pc EXCEPT ![t] = l]
    BY <1>1, <1>4, DoneOK DEF Inv
  <2>2. l \in Labels \ {"load", "gapless", "gapless_remove"}
    BY DEF Labels
  <2>3. /\ tick' # "gapless"
        /\ \A u \in Tasks : u # t => target'[u] = target[u]
    BY <1>1, <1>4 DEF Done
  <2> QED BY <1>1, <1>2, <1>3, <2>1, <2>2, <2>3, OrdinaryStep
<1>5. CASE /\ \E l \in {"advance_lock", "advance_check", "advance_resolve", "commit",
                        "stop_mpv"} : Goto(t, l)
           /\ \A u \in Tasks : u # t => target'[u] = target[u]
           /\ tick' = tick
  <2>1. PICK l \in {"advance_lock", "advance_check", "advance_resolve", "commit",
                    "stop_mpv"} : pc' = [pc EXCEPT ![t] = l]
    BY <1>5 DEF Goto
  <2>2. l \in Labels \ {"load", "gapless", "gapless_remove"}
    BY DEF Labels
  <2> QED BY <1>1, <1>2, <1>3, <1>5, <2>1, <2>2, OrdinaryStep
<1>6. AdvanceResolve(t) => \A u \in Tasks : u # t => target'[u] = target[u]
  BY <1>1 DEF AdvanceResolve, resolve
<1> QED BY <1>4, <1>5, <1>6
        DEF AdvanceStep, AdvanceStart, AdvanceLock, AdvanceCheck, AdvanceResolve,
            resolve, taskVars

LEMMA ListenerManual ==
    ASSUME ManualInv, ListenerReceives \/ ListenerLagged
    PROVE  FALSE
BY DEF ListenerReceives, ListenerLagged, ManualInv, NoGapless

LEMMA ListenerCountsManual ==
    ASSUME Inv, ManualInv, ListenerCounts
    PROVE  ManualInv'
<1>1. /\ Listener \in Tasks /\ pc[Listener] # "load" /\ target' = target
      /\ queue_position' = queue_position /\ status' = status /\ tick' = tick
      /\ eof' = eof /\ mpv' = mpv /\ tick # "gapless"
      /\ \E l \in Labels \ {"load", "gapless", "gapless_remove"} :
            pc' = [pc EXCEPT ![Listener] = l]
  BY DEF ListenerCounts, Goto, Labels, shownVars, playerVars, taskVars, Tasks,
         ManualInv, NoGapless
<1>2. KeepsFile
  BY <1>1, SameFile
<1> QED BY <1>1, <1>2, OrdinaryStep

LEMMA TickManual ==
    ASSUME Inv, ManualInv, TickStep
    PROVE  ManualInv'
<1>1. /\ Tick \in Tasks /\ pc \in [Tasks -> Labels]
      /\ target \in [Tasks -> Positions \union {None}] /\ tick # "gapless"
      /\ mpv.pos # 1
  BY DEF Inv, TasksOK, Tasks, ManualInv, NoGapless
<1>2. ~GaplessCommit /\ ~GaplessRemove
  BY DEF GaplessCommit, GaplessRemove, ManualInv, NoGapless
<1>3. /\ pc[Tick] # "load" /\ queue_position' = queue_position /\ status' = status
      /\ eof' = eof /\ mpv' = mpv
  BY <1>2 DEF TickStep, TickReadsState, TickReadsMpv, TickDecides, TickPreloadNotDue,
              TailRead, TailWrite, shownVars, playerVars
<1>4. /\ tick' # "gapless"
      /\ \A u \in Tasks : u # Tick => target'[u] = target[u]
      /\ \E l \in Labels \ {"load", "gapless", "gapless_remove"} :
            pc' = [pc EXCEPT ![Tick] = l]
  <2>1. CASE TickReadsState
    BY <1>1, <2>1 DEF TickReadsState, Goto, Labels
  <2>2. CASE TickReadsMpv
    BY <1>1, <2>2 DEF TickReadsMpv, Goto, Labels
  <2>3. CASE TickDecides
    BY <1>1, <2>3 DEF TickDecides, Goto, Labels
  <2>4. CASE TickPreloadNotDue
    BY <1>1, <2>4 DEF TickPreloadNotDue, Done, Goto, Labels
  <2>5. CASE TailRead \/ TailWrite
    BY <1>1, <2>5 DEF TailRead, TailWrite, Goto, Labels
  <2> QED BY <1>2, <2>1, <2>2, <2>3, <2>4, <2>5 DEF TickStep
<1>5. KeepsFile
  BY <1>3, SameFile
<1> QED BY <1>1, <1>3, <1>4, <1>5, OrdinaryStep

LEMMA OutsideManual ==
    ASSUME MaxEof = 0, ManualInv,
           \/ SettleChecks \/ SettleUnpauses \/ LateUnpause
           \/ PlayheadNearsEnd \/ TrackEnds \/ WindowElapses \/ UNCHANGED vars
    PROVE  ManualInv'
<1>1. ~TrackEnds
  BY DEF TrackEnds, ManualInv, NoGapless
<1> QED BY <1>1, OutsideStep
        DEF SettleChecks, SettleUnpauses, LateUnpause, PlayheadNearsEnd, WindowElapses,
            playerVars, taskVars, vars, shownVars

LEMMA ManualStep ==
    ASSUME MaxEof = 0, Inv, ManualInv, [Next]_vars
    PROVE  ManualInv'
BY ClientStepManual, CommitManual, LoadManual, PreloadManual, StopManual, AdvanceManual,
   ListenerManual, ListenerCountsManual, TickManual, OutsideManual
   DEF Next, TransitionStep, ListenerStep

(* As long as no file ends by itself, the first entry of mpv is the entry  *)
(* that is shown as playing whenever no handler is inside a transition, a  *)
(* stop or a preload: however many clients start, skip, pause, resume and  *)
(* stop at once, and wherever the tick's early advance falls between them  *)
(* (playback_ops.rs under playback_transitions).  With files that end the  *)
(* gapless advance, which takes no lock, breaks it: see README.            *)
THEOREM ManualAudibleIsShown ==
    ASSUME MaxEof = 0
    PROVE  Spec => []AudibleIsShown
<1>1. Init => ManualInv
  <2> SUFFICES ASSUME Init PROVE ManualInv
    OBVIOUS
  <2>1. mpv.alive /\ mpv.pos = None /\ Tick \in Tasks
    BY DEF Init, IdleMpv, Tasks
  <2> QED BY <2>1 DEF Init, ManualInv, NoGapless, LoadsShown, FirstIsShown, None
<1>2. Inv /\ ManualInv /\ [Next]_vars => Inv' /\ ManualInv'
  BY NextInv, ManualStep
<1>3. ManualInv => AudibleIsShown
  BY DEF ManualInv, FirstIsShown, AudibleIsShown, AtRest
<1> QED BY <1>1, <1>2, <1>3, InitInv, PTL DEF Spec
=============================================================================
