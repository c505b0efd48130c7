----------------------------- MODULE Transitions -----------------------------
(***************************************************************************)
(* How playback requests, the automatic advances of the 500 ms tick and of *)
(* mpv's end-file listener, and the rate-settle tasks interleave.          *)
(*                                                                         *)
(* A step here is what a task does between two awaits, so another task may *)
(* run between any two steps.  The queue is fixed (editing it is module    *)
(* PlayQueue) and an entry is named by its position.  A captured           *)
(* generation (loadfile_gen, play_instance) is only ever compared for      *)
(* equality with the current one, so it is kept as one bit per holder:     *)
(* membership in gen_current or instance_current.                          *)
(***************************************************************************)
EXTENDS RepeatMode, MpvPlaylist, FiniteSets

CONSTANTS
    Clients,     \* tasks serving client requests, one request at a time each
    Requests,    \* the kinds of request the clients make
    QueueLen,    \* length of the queue
    Mode,        \* repeat_mode
    MaxEof,      \* bound: end-file events the listener has not read yet
    Quick,       \* assume that a handler is over well within 1.5 s and a track
    Tick,        \* the tick task
    Listener,    \* the end-file listener task
    NoTask       \* playback_transitions is free

Tasks == Clients \union {Tick, Listener}

RequestKinds == {"Next", "Prev", "Play", "Pause", "Resume", "Stop", "Toggle"}

ASSUME TransitionsAssumption ==
    /\ Requests \subseteq RequestKinds
    /\ QueueLen \in Nat \ {0}
    /\ Mode \in Modes
    /\ MaxEof \in Nat
    /\ Quick \in BOOLEAN
    /\ Tick # Listener
    /\ Tick \notin Clients
    /\ Listener \notin Clients
    /\ NoTask \notin Tasks

Positions == 0..(QueueLen - 1)

VARIABLES
    queue_position,    \* state.queue_position
    status,            \* state.now_playing.state
    near_end,          \* now_playing.position is within 2 s of the duration
    just_loaded,       \* last_loadfile is less than 1.5 s ago
    transition,        \* holder of playback_transitions
    advance_in_flight, \* the single-flight flag of advance_auto
    advancing,         \* tasks holding an AdvanceGuard
    gen_current,       \* tasks whose captured loadfile_gen is current
    instance_current,  \* tasks whose captured play_instance is current
    mpv,               \* mpv's playlist of positions
    mpv_paused,        \* mpv's pause property
    mpv_late,          \* mpv's playhead is in the last 2 s of the file
    settling,          \* the settle task of the current loadfile_gen
    late_unpause,      \* a superseded settle is past its last check
    eof,               \* end-file (eof) events not read yet
    tick,              \* what the tick has read
    resume_late,       \* clients resuming from the last 2 s of a track
    coalesced,         \* clients whose Next saw advance_in_flight set
    target,            \* the position each task works for
    pc                 \* where each task is

vars == <<queue_position, status, near_end, just_loaded, transition,
          advance_in_flight, advancing, gen_current, instance_current, mpv,
          mpv_paused, mpv_late, settling, late_unpause, eof, tick,
          resume_late, coalesced, target, pc>>

shownVars  == <<queue_position, status, near_end>>
guardVars  == <<transition, advance_in_flight, advancing>>
genVars    == <<just_loaded, gen_current, settling, late_unpause>>
playerVars == <<mpv, mpv_paused, mpv_late>>
taskVars   == <<tick, resume_late, coalesced, target>>
-----------------------------------------------------------------------------
Goto(t, label) == pc' = [pc EXCEPT ![t] = label]

(* A task's handler returns and its locals are forgotten.  A tick that     *)
(* only preloaded goes on to its tail.                                     *)
Done(t) ==
    /\ Goto(t, IF t = Tick /\ tick = "preload" THEN "tail_read" ELSE "idle")
    /\ target' = [target EXCEPT ![t] = None]
    /\ tick' = IF t = Tick THEN "none" ELSE tick

(* Two faults, for trying out the properties: a lock that is never given   *)
(* back, and an AdvanceGuard whose drop leaves the flag set.               *)
drop_guards_keeps_lock(t) ==
    /\ transition' = transition
    /\ advance_in_flight' = IF t \in advancing THEN FALSE ELSE advance_in_flight
    /\ advancing' = advancing \ {t}

drop_guards_keeps_flag(t) ==
    /\ transition' = IF transition = t THEN NoTask ELSE transition
    /\ advance_in_flight' = advance_in_flight
    /\ advancing' = advancing \ {t}

(* Leaving drops the transition lock and the AdvanceGuard. *)
drop_guards(t) ==
    /\ transition' = IF transition = t THEN NoTask ELSE transition
    /\ advance_in_flight' = IF t \in advancing THEN FALSE ELSE advance_in_flight
    /\ advancing' = advancing \ {t}

(* stamp_loadfile: every captured generation is now old.  A settle beyond  *)
(* its last check can no longer be stopped.                                *)
supersede_settle ==
    /\ late_unpause' = (late_unpause \/ settling = "unpausing")
    /\ gen_current' = {}
    /\ just_loaded' = TRUE

mark_play_instance == instance_current' = {}
-----------------------------------------------------------------------------
(* Requests as a client task receives them.  next_track reads the          *)
(* single-flight flag before it waits for the lock.                        *)
NextRequest(c) ==
    /\ pc[c] = "idle" /\ "Next" \in Requests
    /\ coalesced' = IF advance_in_flight THEN coalesced \union {c} ELSE coalesced
    /\ Goto(c, "next_lock")
    /\ UNCHANGED <<shownVars, guardVars, genVars, instance_current, playerVars,
                   eof, tick, resume_late, target>>

PrevRequest(c) ==
    /\ pc[c] = "idle" /\ "Prev" \in Requests
    /\ Goto(c, "prev_lock")
    /\ UNCHANGED <<shownVars, guardVars, genVars, instance_current, playerVars,
                   eof, taskVars>>

PlayRequest(c, p) ==
    /\ pc[c] = "idle" /\ "Play" \in Requests
    /\ target' = [target EXCEPT ![c] = p]
    /\ Goto(c, "start_lock")
    /\ UNCHANGED <<shownVars, guardVars, genVars, instance_current, playerVars,
                   eof, tick, resume_late, coalesced>>

(* toggle_pause reads the state, then delegates. *)
ToggleRequest(c) ==
    /\ pc[c] = "idle" /\ "Toggle" \in Requests
    /\ Goto(c, CASE status = "Playing" -> "pause"
                 [] status = "Paused"  -> "resume"
                 [] status = "Stopped" -> "start_lock")
    /\ target' = [target EXCEPT ![c] = IF status = "Stopped" THEN queue_position ELSE @]
    /\ UNCHANGED <<shownVars, guardVars, genVars, instance_current, playerVars,
                   eof, tick, resume_late, coalesced>>

(* pause_playback: commit Paused, then stop mpv.  No lock is held.         *)
PauseCommit(c) ==
    /\ \/ pc[c] = "idle" /\ "Pause" \in Requests
       \/ pc[c] = "pause"
    /\ \/ /\ status = "Playing"
          /\ status' = "Paused"
          /\ Goto(c, "pause_mpv")
       \/ /\ status # "Playing"
          /\ status' = status
          /\ Goto(c, "idle")
    /\ UNCHANGED <<queue_position, near_end, guardVars, genVars,
                   instance_current, playerVars, eof, taskVars>>

(* stop_keep_queue: stop mpv, then commit Stopped.  No lock is held.       *)
StopRequest(c) ==
    /\ pc[c] = "idle" /\ "Stop" \in Requests
    /\ Goto(c, "stop_mpv")
    /\ UNCHANGED <<shownVars, guardVars, genVars, instance_current, playerVars,
                   eof, taskVars>>

(* mpv.stop() in pause_playback, stop_keep_queue and finish_at_queue_end. *)
StopMpv(t) ==
    /\ pc[t] \in {"pause_mpv", "stop_mpv"}
    /\ mpv' = mpv_stop(mpv)
    /\ mpv_late' = FALSE
    /\ Goto(t, IF pc[t] = "pause_mpv" THEN "idle" ELSE "stop_commit")
    /\ UNCHANGED <<shownVars, guardVars, genVars, instance_current, mpv_paused,
                   eof, taskVars>>

StopCommit(t) ==
    /\ pc[t] = "stop_commit"
    /\ status' = "Stopped"
    /\ near_end' = FALSE
    /\ drop_guards(t)
    /\ Done(t)
    /\ UNCHANGED <<queue_position, genVars, instance_current, playerVars, eof,
                   resume_late, coalesced>>

(* resume_playback: read the state, then wait for the lock.                *)
ResumeRead(c) ==
    /\ \/ pc[c] = "idle" /\ "Resume" \in Requests
       \/ pc[c] = "resume"
    /\ \/ /\ status = "Playing"
          /\ Goto(c, "idle")
          /\ UNCHANGED <<target, resume_late>>
       \/ /\ status # "Playing"
          /\ Goto(c, "resume_lock")
          /\ target' = [target EXCEPT ![c] = queue_position]
          /\ resume_late' = IF status = "Paused" /\ near_end THEN resume_late \union {c}
                            ELSE resume_late
    /\ UNCHANGED <<shownVars, guardVars, genVars, instance_current, playerVars,
                   eof, tick, coalesced>>
-----------------------------------------------------------------------------
(* Taking playback_transitions.  Fault: a transition that does not wait.   *)
lock_transition_shared(t) ==
    /\ transition' = t
    /\ UNCHANGED <<advance_in_flight, advancing>>

lock_transition(t) ==
    /\ transition = NoTask
    /\ transition' = t
    /\ UNCHANGED <<advance_in_flight, advancing>>

StartLock(c) ==
    /\ pc[c] \in {"start_lock", "resume_lock"}
    /\ lock_transition(c)
    /\ Goto(c, IF pc[c] = "start_lock" THEN "commit" ELSE "recommit")
    /\ UNCHANGED <<shownVars, genVars, instance_current, playerVars, eof, taskVars>>

(* A Next pressed while an automatic advance was in flight does nothing.   *)
next_coalesces(c) == c \in coalesced

NextLock(c) ==
    /\ pc[c] = "next_lock"
    /\ \/ /\ next_coalesces(c)
          /\ transition = NoTask
          /\ UNCHANGED guardVars
          /\ Goto(c, "idle")
       \/ /\ ~next_coalesces(c)
          /\ lock_transition(c)
          /\ Goto(c, "next_resolve")
    /\ coalesced' = coalesced \ {c}
    /\ UNCHANGED <<shownVars, genVars, instance_current, playerVars, eof, tick,
                   resume_late, target>>

PrevLock(c) ==
    /\ pc[c] = "prev_lock"
    /\ lock_transition(c)
    /\ Goto(c, "prev_resolve")
    /\ UNCHANGED <<shownVars, genVars, instance_current, playerVars, eof, taskVars>>

(* Read the cursor and pick the entry to start; None ends the queue.       *)
resolve(t, next) ==
    /\ target' = [target EXCEPT ![t] = next]
    /\ Goto(t, IF next # None THEN "commit" ELSE "stop_mpv")
    /\ UNCHANGED <<shownVars, guardVars, genVars, instance_current, playerVars,
                   eof, tick, resume_late, coalesced>>

NextResolve(c) ==
    /\ pc[c] = "next_resolve"
    /\ resolve(c, next_manual(Mode, queue_position, QueueLen))

AdvanceResolve(t) ==
    /\ pc[t] = "advance_resolve"
    /\ resolve(t, next_auto(Mode, queue_position, QueueLen))

(* Late in the track, or at position 0 without wrap, prev only seeks.      *)
PrevResolve(c) ==
    /\ pc[c] = "prev_resolve"
    /\ LET back == IF queue_position > 0 THEN queue_position - 1
                   ELSE prev_wrap(Mode, QueueLen)
       IN \/ /\ back # None
             /\ resolve(c, back)
          \/ /\ mpv_late' = FALSE     \* seek(0)
             /\ near_end' = FALSE
             /\ drop_guards(c)
             /\ Goto(c, "idle")
             /\ UNCHANGED <<queue_position, status, genVars, instance_current,
                            mpv, mpv_paused, eof, taskVars>>
-----------------------------------------------------------------------------
(* commit_play_state_in_lock: publish the entry as Playing before mpv has  *)
(* loaded it.  Resuming keeps the play instance.                           *)
Commit(t) ==
    /\ pc[t] \in {"commit", "recommit"}
    /\ queue_position' = target[t]
    /\ status' = "Playing"
    /\ near_end' = FALSE
    /\ supersede_settle
    /\ settling' = "none"
    /\ IF pc[t] = "commit" THEN mark_play_instance ELSE UNCHANGED instance_current
    /\ Goto(t, "load")
    /\ UNCHANGED <<guardVars, playerVars, eof, taskVars>>

(* dispatch_play: load paused, at the resume position if there is one, and *)
(* spawn the settle task that will unpause.  Fault: no settle is spawned.  *)
spawn_settle_missing == settling' = settling

spawn_settle == settling' = "probing"

Load(t) ==
    /\ pc[t] = "load"
    /\ mpv' = loadfile(mpv, target[t])
    /\ mpv_paused' = TRUE
    /\ mpv_late' = (t \in resume_late)
    /\ supersede_settle
    /\ spawn_settle
    /\ Goto(t, "preload")
    /\ UNCHANGED <<shownVars, guardVars, instance_current, eof, taskVars>>

(* preload_next_track(target[t]): capture the generation ...               *)
PreloadCapture(t) ==
    /\ pc[t] = "preload"
    /\ gen_current' = gen_current \union {t}
    /\ Goto(t, "append")
    /\ UNCHANGED <<shownVars, guardVars, just_loaded, settling, late_unpause,
                   instance_current, playerVars, eof, taskVars>>

(* ... and append under the mpv lock, unless a newer load superseded it or *)
(* the playing track is not the lone entry.                                *)
may_append_uncounted(t) == t \in gen_current     \* fault: no count check

may_append(t) == t \in gen_current /\ Len(mpv.list) = 1

PreloadAppend(t) ==
    /\ pc[t] = "append"
    /\ LET next == next_auto(Mode, target[t], QueueLen)
       IN mpv' = IF may_append(t) /\ next # None THEN loadfile_append(mpv, next)
                 ELSE mpv
    /\ gen_current' = gen_current \ {t}
    /\ near_end' = (near_end \/ t \in resume_late)     \* position = start_at
    /\ resume_late' = resume_late \ {t}
    /\ drop_guards(t)
    /\ Done(t)
    /\ UNCHANGED <<queue_position, status, just_loaded, settling, late_unpause,
                   instance_current, mpv_paused, mpv_late, eof, coalesced>>
-----------------------------------------------------------------------------
(* advance_auto: single flight, then superseded if a new play instance     *)
(* started while it waited for the lock.                                   *)
advance_is_free_always == TRUE     \* fault: no compare-exchange

advance_is_free == ~advance_in_flight

AdvanceStart(t) ==
    /\ pc[t] = "advance"
    /\ \/ /\ advance_is_free
          /\ advance_in_flight' = TRUE
          /\ advancing' = advancing \union {t}
          /\ instance_current' = instance_current \union {t}
          /\ Goto(t, "advance_lock")
          /\ UNCHANGED <<tick, target>>
       \/ /\ ~advance_is_free
          /\ Done(t)
          /\ UNCHANGED <<advance_in_flight, advancing, instance_current>>
    /\ UNCHANGED <<shownVars, transition, genVars, playerVars, eof, resume_late,
                   coalesced>>

AdvanceLock(t) ==
    /\ pc[t] = "advance_lock"
    /\ lock_transition(t)
    /\ Goto(t, "advance_check")
    /\ UNCHANGED <<shownVars, genVars, instance_current, playerVars, eof, taskVars>>

AdvanceCheck(t) ==
    /\ pc[t] = "advance_check"
    /\ \/ /\ t \in instance_current
          /\ Goto(t, "advance_resolve")
          /\ UNCHANGED <<guardVars, tick, target>>
       \/ /\ t \notin instance_current
          /\ drop_guards(t)
          /\ Done(t)
    /\ instance_current' = instance_current \ {t}
    /\ UNCHANGED <<shownVars, genVars, playerVars, eof, resume_late, coalesced>>
-----------------------------------------------------------------------------
(* The end-file listener: with a preload in the playlist the tick owns the *)
(* advance.  A lagged receiver has lost its events and looks at mpv.       *)
ListenerReceives ==
    /\ pc[Listener] = "idle"
    /\ eof > 0
    /\ eof' = eof - 1
    /\ Goto(Listener, "count")
    /\ UNCHANGED <<shownVars, guardVars, genVars, instance_current, playerVars,
                   taskVars>>

ListenerCounts ==
    /\ pc[Listener] = "count"
    /\ Goto(Listener, IF Len(mpv.list) >= 2 THEN "idle" ELSE "advance")
    /\ UNCHANGED <<shownVars, guardVars, genVars, instance_current, playerVars,
                   eof, taskVars>>

ListenerLagged ==
    /\ pc[Listener] = "idle"
    /\ eof > 0
    /\ eof' = 0
    /\ Goto(Listener, IF mpv.pos = None THEN "advance" ELSE "idle")
    /\ UNCHANGED <<shownVars, guardVars, genVars, instance_current, playerVars,
                   taskVars>>
-----------------------------------------------------------------------------
(* The tick gathers its inputs one lock at a time.  What it keeps of them  *)
(* is what it decides on, by priority: AdvanceEarly > Preload >            *)
(* GaplessAdvance > AdvanceOnIdle.                                         *)
has_next == queue_position + 1 < QueueLen

TickReadsState ==
    /\ pc[Tick] = "idle"
    /\ \/ /\ status = "Playing"
          /\ tick' = IF near_end /\ has_next THEN "near_end" ELSE "none"
          /\ target' = [target EXCEPT ![Tick] = queue_position]
          /\ Goto(Tick, "read_mpv")
       \/ /\ status = "Paused"
          /\ Goto(Tick, "tail_read")
          /\ UNCHANGED <<tick, target>>
    /\ UNCHANGED <<shownVars, guardVars, genVars, instance_current, playerVars,
                   eof, resume_late, coalesced>>

TickReadsMpv ==
    /\ pc[Tick] = "read_mpv"
    /\ tick' = IF tick = "near_end" /\ Len(mpv.list) < 2 THEN "early"
               ELSE IF Len(mpv.list) = 1 THEN "preload"
               ELSE IF mpv.pos = 1 THEN "gapless"
               ELSE IF mpv.pos = None THEN "idle"
               ELSE "none"
    /\ Goto(Tick, "decide")
    /\ UNCHANGED <<shownVars, guardVars, genVars, instance_current, playerVars,
                   eof, resume_late, coalesced, target>>

TickDecides ==
    /\ pc[Tick] = "decide"
    /\ \/ /\ tick = "early" \/ (tick = "idle" /\ ~just_loaded)
          /\ Goto(Tick, "advance")
          /\ target' = [target EXCEPT ![Tick] = None]
       \/ /\ tick \in {"preload", "gapless"}
          /\ Goto(Tick, tick)
          /\ UNCHANGED target
       \/ /\ tick = "none" \/ (tick = "idle" /\ just_loaded)
          /\ Goto(Tick, "tail_read")
          /\ target' = [target EXCEPT ![Tick] = None]
    /\ UNCHANGED <<shownVars, guardVars, genVars, instance_current, playerVars,
                   eof, tick, resume_late, coalesced>>

(* preload_due: a preload attempted less than 5 s ago is not repeated. *)
TickPreloadNotDue ==
    /\ pc[Tick] = "preload"
    /\ tick = "preload"
    /\ Done(Tick)
    /\ UNCHANGED <<shownVars, guardVars, genVars, instance_current, playerVars,
                   eof, resume_late, coalesced>>

(* try_gapless_advance commits under the state lock alone ...              *)
gapless_next == next_auto(Mode, queue_position, QueueLen)

GaplessCommit ==
    /\ pc[Tick] = "gapless"
    /\ \/ /\ gapless_next # None
          /\ queue_position' = gapless_next
          /\ near_end' = FALSE
          /\ mark_play_instance
          /\ target' = [target EXCEPT ![Tick] = gapless_next]
          /\ Goto(Tick, "gapless_remove")
       \/ /\ gapless_next = None
          /\ Goto(Tick, "tail_read")
          /\ target' = [target EXCEPT ![Tick] = None]
          /\ UNCHANGED <<queue_position, near_end, instance_current>>
    /\ UNCHANGED <<status, guardVars, genVars, playerVars, eof, tick, resume_late,
                   coalesced>>

(* ... then drops the finished entry, if mpv is still in its second one.   *)
GaplessRemove ==
    /\ pc[Tick] = "gapless_remove"
    /\ mpv' = IF mpv.pos = 1 THEN playlist_remove(mpv, 0) ELSE mpv
    /\ Goto(Tick, "preload")
    /\ UNCHANGED <<shownVars, guardVars, genVars, instance_current, mpv_paused,
                   mpv_late, eof, taskVars>>

(* The tail of the tick: read mpv's playhead, then publish it. *)
TailRead ==
    /\ pc[Tick] = "tail_read"
    /\ \/ /\ mpv.pos # None
          /\ tick' = IF mpv_late THEN "late" ELSE "none"
          /\ Goto(Tick, "tail_write")
       \/ /\ mpv.pos = None
          /\ tick' = "none"
          /\ Goto(Tick, "idle")
    /\ UNCHANGED <<shownVars, guardVars, genVars, instance_current, playerVars,
                   eof, resume_late, coalesced, target>>

TailWrite ==
    /\ pc[Tick] = "tail_write"
    /\ near_end' = IF status = "Playing" THEN (tick = "late") ELSE near_end
    /\ tick' = "none"
    /\ Goto(Tick, "idle")
    /\ UNCHANGED <<queue_position, status, guardVars, genVars, instance_current,
                   playerVars, eof, resume_late, coalesced, target>>
-----------------------------------------------------------------------------
(* settle_rate_then_unpause: the last supersession check, then the unpause *)
(* under the mpv lock.                                                     *)
SettleChecks ==
    /\ settling = "probing"
    /\ settling' = "unpausing"
    /\ UNCHANGED <<shownVars, guardVars, just_loaded, gen_current, late_unpause,
                   instance_current, playerVars, eof, taskVars, pc>>

SettleUnpauses ==
    /\ settling = "unpausing"
    /\ settling' = "none"
    /\ mpv_paused' = FALSE
    /\ UNCHANGED <<shownVars, guardVars, just_loaded, gen_current, late_unpause,
                   instance_current, mpv, mpv_late, eof, taskVars, pc>>

(* There may be more than one superseded settle past its check. *)
LateUnpause ==
    /\ late_unpause
    /\ late_unpause' \in BOOLEAN
    /\ mpv_paused' = FALSE
    /\ UNCHANGED <<shownVars, guardVars, just_loaded, gen_current, settling,
                   instance_current, mpv, mpv_late, eof, taskVars, pc>>
-----------------------------------------------------------------------------
(* mpv and the clock.  Without Quick a handler may take arbitrarily long.  *)
time_passes == Quick => \A t \in Tasks : pc[t] = "idle"

PlayheadNearsEnd ==
    /\ mpv.pos # None /\ ~mpv_paused /\ ~mpv_late
    /\ time_passes
    /\ mpv_late' = TRUE
    /\ UNCHANGED <<shownVars, guardVars, genVars, instance_current, mpv,
                   mpv_paused, eof, taskVars, pc>>

TrackEnds ==
    /\ mpv.pos # None /\ ~mpv_paused /\ mpv_late
    /\ mpv' = mpv_file_ends(mpv)
    /\ mpv_late' = FALSE
    /\ eof < MaxEof
    /\ eof' = eof + 1
    /\ UNCHANGED <<shownVars, guardVars, genVars, instance_current, mpv_paused,
                   taskVars, pc>>

(* The 1.5 s after a load.  mpv takes a load command within them.          *)
WindowElapses ==
    /\ just_loaded
    /\ time_passes
    /\ \A t \in Tasks : pc[t] # "load"
    /\ just_loaded' = FALSE
    /\ UNCHANGED <<shownVars, guardVars, gen_current, settling, late_unpause,
                   instance_current, playerVars, eof, taskVars, pc>>
-----------------------------------------------------------------------------
(* A queue restored as paused. *)
Init ==
    /\ queue_position \in Positions
    /\ status = "Paused"
    /\ near_end = FALSE
    /\ just_loaded = FALSE
    /\ transition = NoTask
    /\ advance_in_flight = FALSE
    /\ advancing = {}
    /\ gen_current = {}
    /\ instance_current = {}
    /\ mpv = IdleMpv
    /\ mpv_paused = FALSE
    /\ mpv_late = FALSE
    /\ settling = "none"
    /\ late_unpause = FALSE
    /\ eof = 0
    /\ tick = "none"
    /\ resume_late = {}
    /\ coalesced = {}
    /\ target = [t \in Tasks |-> None]
    /\ pc = [t \in Tasks |-> "idle"]

ClientStep(c) ==
    \/ NextRequest(c) \/ PrevRequest(c) \/ ToggleRequest(c)
    \/ \E p \in Positions : PlayRequest(c, p)
    \/ PauseCommit(c) \/ StopRequest(c) \/ ResumeRead(c)
    \/ StartLock(c) \/ NextLock(c) \/ PrevLock(c)
    \/ NextResolve(c) \/ PrevResolve(c)

TransitionStep(t) ==
    \/ Commit(t) \/ Load(t) \/ PreloadCapture(t) \/ PreloadAppend(t)
    \/ StopMpv(t) \/ StopCommit(t)

AdvanceStep(t) ==
    AdvanceStart(t) \/ AdvanceLock(t) \/ AdvanceCheck(t) \/ AdvanceResolve(t)

ListenerStep == ListenerReceives \/ ListenerCounts \/ ListenerLagged

TickStep ==
    \/ TickReadsState \/ TickReadsMpv \/ TickDecides \/ TickPreloadNotDue
    \/ GaplessCommit \/ GaplessRemove \/ TailRead \/ TailWrite

Next ==
    \/ \E c \in Clients : ClientStep(c)
    \/ \E t \in Tasks : TransitionStep(t)
    \/ \E t \in {Tick, Listener} : AdvanceStep(t)
    \/ ListenerStep
    \/ TickStep
    \/ SettleChecks \/ SettleUnpauses \/ LateUnpause
    \/ PlayheadNearsEnd \/ TrackEnds \/ WindowElapses

Spec == Init /\ [][Next]_vars

(* A handler that is running keeps running.  tokio's Mutex queues its      *)
(* waiters, so a task waiting for the transition lock gets it.             *)
Continues(t) ==
    /\ pc[t] # "idle"
    /\ \/ t \in Clients /\ ClientStep(t)
       \/ TransitionStep(t)
       \/ t \in {Tick, Listener} /\ AdvanceStep(t)
       \/ t = Listener /\ ListenerStep
       \/ t = Tick /\ TickStep

FairSpec ==
    /\ Spec
    /\ \A t \in Tasks : SF_vars(Continues(t))
    /\ WF_vars(TickReadsState)
    /\ WF_vars(ListenerReceives)
    /\ WF_vars(SettleChecks)
    /\ WF_vars(SettleUnpauses)
    /\ SF_vars(WindowElapses)
-----------------------------------------------------------------------------
Labels == {"idle", "start_lock", "resume_lock", "next_lock", "prev_lock",
           "next_resolve", "prev_resolve", "commit", "recommit", "load",
           "preload", "append", "pause", "pause_mpv", "stop_mpv", "stop_commit",
           "resume", "advance", "advance_lock", "advance_check",
           "advance_resolve", "count", "read_mpv", "decide", "gapless",
           "gapless_remove", "tail_read", "tail_write"}

(* The type of every variable; a task's position is always one of the      *)
(* queue's, whatever next_auto, next_manual and prev_wrap return.          *)
TypeOK ==
    /\ queue_position \in Positions
    /\ status \in {"Stopped", "Playing", "Paused"}
    /\ near_end \in BOOLEAN
    /\ just_loaded \in BOOLEAN
    /\ transition \in Tasks \union {NoTask}
    /\ advance_in_flight \in BOOLEAN
    /\ advancing \subseteq {Tick, Listener}
    /\ gen_current \subseteq Tasks
    /\ instance_current \subseteq {Tick, Listener}
    /\ mpv \in [alive : BOOLEAN, list : Seq(Positions), pos : Int]
    /\ mpv.pos \in {None} \union 0..(Len(mpv.list) - 1)
    /\ mpv_paused \in BOOLEAN
    /\ mpv_late \in BOOLEAN
    /\ settling \in {"none", "probing", "unpausing"}
    /\ late_unpause \in BOOLEAN
    /\ eof \in 0..MaxEof
    /\ tick \in {"none", "near_end", "early", "preload", "gapless", "idle", "late"}
    /\ resume_late \subseteq Clients
    /\ coalesced \subseteq Clients
    /\ target \in [Tasks -> Positions \union {None}]
    /\ pc \in [Tasks -> Labels]

(* However preloads race (a dispatch, the tick and a gapless advance may   *)
(* each be appending), the playlist never gets a third entry, which the    *)
(* gapless advance could not follow (comment in preload_next_track).       *)
OnePreload == Len(mpv.list) <= 2

(* The single-flight flag says whether an AdvanceGuard exists, and there   *)
(* is at most one: the listener and the tick never advance at once         *)
(* (advance_auto).                                                         *)
AdvanceExclusive ==
    /\ advance_in_flight <=> advancing # {}
    /\ \A s, t \in advancing : s = t

(* Whoever is between resolving a position and finishing its preload holds *)
(* playback_transitions, on every path that leads there and until every    *)
(* way out: two transitions never overlap.  The exception is the gapless   *)
(* advance and the tick's preload, which never take the lock.              *)
InTransition == {"next_resolve", "prev_resolve", "advance_check",
                 "advance_resolve", "commit", "recommit", "load"}

TransitionsExclusive ==
    \A t \in Tasks : pc[t] \in InTransition => transition = t

(* No handler is inside a transition, a stop or a preload. *)
AtRest ==
    \A t \in Tasks : pc[t] \in {"idle", "start_lock", "resume_lock", "next_lock",
        "prev_lock", "advance", "advance_lock", "count", "read_mpv", "decide",
        "tail_read", "tail_write"}

(* Once every transition is over, mpv's first entry is the entry the       *)
(* daemon shows as playing.                                                *)
AudibleIsShown ==
    AtRest /\ status = "Playing" /\ mpv.pos = 0 => mpv.list[1] = queue_position

(* A file that was loaded paused is unpaused, unless playback ends or is   *)
(* stopped meanwhile: no supersession loses the unpause of the last load.  *)
EventuallyAudible ==
    (status = "Playing" /\ mpv.pos # None /\ mpv_paused)
        ~> (~mpv_paused \/ status # "Playing" \/ mpv.pos = None)

(* Every request returns: no early return keeps a lock, no two handlers    *)
(* wait for each other.                                                    *)
RequestsReturn == \A c \in Clients : pc[c] # "idle" ~> pc[c] = "idle"

(* When mpv runs out of files while the daemon shows Playing, playback     *)
(* goes on or is shown as stopped.                                         *)
IdleIsNoticed ==
    (status = "Playing" /\ mpv.pos = None)
        ~> (status # "Playing" \/ mpv.pos # None)
=============================================================================
