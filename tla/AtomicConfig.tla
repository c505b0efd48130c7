---------------------------- MODULE AtomicConfig ----------------------------
(* What the settings of the daemon promise to the tasks that change them: each *)
(* change is made at one instant, to the settings as the changes before it     *)
(* left them, or not at all; a task told that its change was made can rely on  *)
(* it surviving a crash, and one told of a failure that nothing was changed.   *)
CONSTANTS
    Tasks,          \* the requests and background tasks that change a setting
    Changes,        \* the changes they may ask for
    NoChange,       \* what a task that waits for nothing asks for
    Default,        \* the settings of a daemon that was never configured
    Mutate(_, _)    \* Mutate(c, s): the settings s after change c

VARIABLES
    settings,       \* the settings a restarted daemon would have
    asked,          \* the change a task has asked for
    outcome         \* "idle", "open", "done" or "failed", of each task

vars == <<settings, asked, outcome>>

Init ==
    /\ settings = Default
    /\ asked = [t \in Tasks |-> NoChange]
    /\ outcome = [t \in Tasks |-> "idle"]

Ask(t) ==
    /\ outcome[t] = "idle"
    /\ \E c \in Changes : asked' = [asked EXCEPT ![t] = c]
    /\ outcome' = [outcome EXCEPT ![t] = "open"]
    /\ UNCHANGED settings

Change(t) ==
    /\ outcome[t] = "open"
    /\ settings' = Mutate(asked[t], settings)
    /\ outcome' = [outcome EXCEPT ![t] = "done"]
    /\ UNCHANGED asked

Refuse(t) ==
    /\ outcome[t] = "open"
    /\ outcome' = [outcome EXCEPT ![t] = "failed"]
    /\ UNCHANGED <<settings, asked>>

Answer(t) ==
    /\ outcome[t] \in {"done", "failed"}
    /\ outcome' = [outcome EXCEPT ![t] = "idle"]
    /\ asked' = [asked EXCEPT ![t] = NoChange]
    /\ UNCHANGED settings

(* The tasks die, the settings do not.                                         *)
Crash ==
    /\ outcome' = [t \in Tasks |-> "idle"]
    /\ asked' = [t \in Tasks |-> NoChange]
    /\ UNCHANGED settings

Next ==
    \/ \E t \in Tasks : Ask(t) \/ Change(t) \/ Refuse(t) \/ Answer(t)
    \/ Crash

Spec == Init /\ [][Next]_vars
=============================================================================
