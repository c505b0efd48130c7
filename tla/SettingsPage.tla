---------------------------- MODULE SettingsPage ----------------------------
(* The Settings page and its editors (src/src/app/input_settings.rs) against   *)
(* the daemon's configuration and its ConfigChanged events (settings_ops.rs,   *)
(* core.rs, event_pump.rs). A key changes the copy the page shows, then asks   *)
(* the daemon, which may fail to save; other clients change settings too.      *)
(*                                                                             *)
(* The settings are a switch, which stands for the simple ones, the playback   *)
(* filters, a rating and the excluded names, which are saved as one, and the   *)
(* key bindings.                                                               *)
EXTENDS Integers, Sequences

CONSTANTS
    None,
    Names,        \* genres or artists to exclude
    Bindings,     \* key bindings without a conflict
    Conflicting,  \* key bindings two actions of which share a key
    MaxRating,    \* the highest rating to filter by
    MaxChanges    \* bound on the changes the daemon is asked for

VARIABLES
    settings,    \* settings_state: what the page shows
    keymap,      \* App.keymap: the bindings in force
    filter_editor, keybinding_editor,  \* the entries being edited, or None
    request,     \* what the key handler waits for, or None
    reply,       \* its answer, or None
    daemon,      \* the daemon's configuration
    emitting,    \* copies of it on their way to the event bus
    events,      \* ConfigChanged events the pump has yet to apply
    changes,
    emitted,     \* history: the newest change an event on the bus carried
    drifted,     \* history: what left the page apart from the daemon
    lost         \* history: the newest event never reached the pump

editors == <<filter_editor, keybinding_editor>>
bus == <<daemon, emitting, events, changes, emitted, lost>>
vars == <<settings, keymap, editors, request, reply, bus, drifted>>

Filters == [min_rating : 0..MaxRating, excluded : SUBSET Names]

Requests ==
    [op : {"read switch", "read filters", "switch", "filters", "filter list", "keybindings"},
     value : BOOLEAN \cup Filters \cup Bindings \cup {None}]

Init ==
    /\ daemon \in [switch : {FALSE}, playback_filters : [min_rating : {0}, excluded : {{}}],
                   keybindings : Bindings]
    /\ settings = daemon
    /\ keymap = daemon.keybindings
    /\ filter_editor = None /\ keybinding_editor = None
    /\ request = None /\ reply = None
    /\ emitting = {} /\ events = <<>>
    /\ changes = 0 /\ emitted = 0
    /\ drifted = FALSE /\ lost = FALSE

-----------------------------------------------------------------------------
(* A key on the page changes the shown value under one lock; the handler then  *)
(* reads the value to send under another. *)

Keys == request = None

Browsing == Keys /\ filter_editor = None /\ keybinding_editor = None

(* Left and Right stop at the bounds of a rating, where nothing is sent. *)
adjusted(rating, step) ==
    IF rating + step \in 0..MaxRating THEN rating + step ELSE rating

adjust_setting ==
    /\ Browsing
    /\ changes < MaxChanges
    /\ \/ /\ settings' = [settings EXCEPT !.switch = ~@]
          /\ request' = [op |-> "read switch", value |-> None]
       \/ \E step \in {-1, 1} :
              /\ settings' = [settings EXCEPT
                     !.playback_filters.min_rating = adjusted(@, step)]
              /\ settings' # settings
              /\ request' = [op |-> "read filters", value |-> None]
    /\ UNCHANGED <<keymap, editors, reply, bus, drifted>>

Sends(op, value) == request' = [op |-> op, value |-> value]

ReadsChange ==
    /\ request # None
    /\ \/ request.op = "read switch" /\ Sends("switch", settings.switch)
       \/ request.op = "read filters" /\ Sends("filters", settings.playback_filters)
    /\ UNCHANGED <<settings, keymap, editors, reply, bus, drifted>>

-----------------------------------------------------------------------------
(* The editors of the excluded names and of the key bindings. *)

OpensEditor ==
    /\ Browsing
    /\ \/ filter_editor' = settings.playback_filters.excluded /\ UNCHANGED keybinding_editor
       \/ keybinding_editor' = settings.keybindings /\ UNCHANGED filter_editor
    /\ UNCHANGED <<settings, keymap, request, reply, bus, drifted>>

(* A name is added once; a chord that conflicts is refused. *)
Edits ==
    /\ Keys
    /\ \/ /\ filter_editor # None
          /\ \/ \E n \in Names \ filter_editor : filter_editor' = filter_editor \cup {n}
             \/ \E n \in filter_editor : filter_editor' = filter_editor \ {n}
          /\ UNCHANGED keybinding_editor
       \/ /\ keybinding_editor # None
          /\ keybinding_editor' \in Bindings \cup Conflicting
          /\ UNCHANGED filter_editor
    /\ UNCHANGED <<settings, keymap, request, reply, bus, drifted>>

ClosesEditor ==
    /\ Keys
    /\ ~Browsing
    /\ filter_editor' = None /\ keybinding_editor' = None
    /\ UNCHANGED <<settings, keymap, request, reply, bus, drifted>>

(* Ctrl+S. The rest of the filters is what the page shows; bindings that were  *)
(* in conflict before they were opened are refused. *)
SavesEditor ==
    /\ Keys
    /\ changes < MaxChanges
    /\ \/ /\ filter_editor # None
          /\ Sends("filter list", [settings.playback_filters EXCEPT !.excluded = filter_editor])
       \/ /\ keybinding_editor # None
          /\ keybinding_editor \in Bindings
          /\ Sends("keybindings", keybinding_editor)
    /\ UNCHANGED <<settings, keymap, editors, reply, bus, drifted>>

-----------------------------------------------------------------------------
(* The daemon: a setter saves the file and commits, then reads the whole       *)
(* configuration again and emits it. *)

Commits(c) ==
    /\ changes < MaxChanges
    /\ daemon' = c
    /\ changes' = changes + 1
    /\ emitting' = emitting \cup {[n |-> changes + 1, seen |-> 0, config |-> None]}
    /\ UNCHANGED <<events, emitted, lost>>

Asked ==
    CASE request.op = "switch" -> [daemon EXCEPT !.switch = request.value]
      [] request.op \in {"filters", "filter list"} ->
            [daemon EXCEPT !.playback_filters = request.value]
      [] request.op = "keybindings" -> [daemon EXCEPT !.keybindings = request.value]

Requested ==
    /\ request # None /\ reply = None
    /\ request.op \in {"switch", "filters", "filter list", "keybindings"}

persist_config ==
    /\ Requested
    /\ Commits(Asked)
    /\ reply' = [n |-> changes + 1]
    /\ UNCHANGED <<settings, keymap, editors, request, drifted>>

(* The file cannot be written, or the daemon cannot be reached: the page keeps *)
(* the value it showed. *)
FailsToSave ==
    /\ Requested
    /\ reply' = [n |-> 0]
    /\ drifted' = (drifted \/ request.op \in {"switch", "filters"})
    /\ UNCHANGED <<settings, keymap, editors, request, bus>>

ChangedElsewhere ==
    /\ \/ Commits([daemon EXCEPT !.switch = ~@])
       \/ \E f \in Filters : Commits([daemon EXCEPT !.playback_filters = f])
       \/ \E b \in Bindings : Commits([daemon EXCEPT !.keybindings = b])
    /\ UNCHANGED <<settings, keymap, editors, request, reply, drifted>>

(* emit_config_changed reads the configuration under the state lock. *)
ReadsConfig ==
    /\ \E e \in emitting :
           /\ e.config = None
           /\ emitting' = (emitting \ {e}) \cup {[e EXCEPT !.config = daemon, !.seen = changes]}
    /\ UNCHANGED <<settings, keymap, editors, request, reply, daemon, events, changes,
                   emitted, drifted, lost>>

(* Two setters may emit in the other order than they read. The event may be    *)
(* lost on its way: where a full writer queue drops it, where a ring runs over *)
(* and where the pump, which fell behind, subscribes again. It is not sent     *)
(* again, and the snapshot the pump takes then leaves the page as it was.      *)
emit_config_changed ==
    /\ \E e \in emitting :
           /\ e.config # None
           /\ emitting' = emitting \ {e}
           /\ \/ events' = Append(events, e.config) /\ lost' = FALSE
              \/ events' = events /\ lost' = TRUE
           /\ drifted' = (drifted \/ e.seen < emitted)
           /\ emitted' = IF e.seen > emitted THEN e.seen ELSE emitted
    /\ UNCHANGED <<settings, keymap, editors, request, reply, daemon, changes>>

-----------------------------------------------------------------------------
(* The event pump copies every setting; the keymap is left alone. *)

(* Fault: the filters are not copied. *)
Shown_without_filters(config) ==
    [config EXCEPT !.playback_filters = settings.playback_filters]

Shown(config) == config

apply_config_changed ==
    /\ events # <<>>
    /\ settings' = Shown(Head(events))
    /\ events' = Tail(events)
    /\ UNCHANGED <<keymap, editors, request, reply, daemon, emitting, changes, emitted,
                   drifted, lost>>

Quiet == emitting = {} /\ events = <<>>

(* The handler goes on. An editor writes what it saved over what the page      *)
(* shows, which an event may have replaced by something newer. *)
HandlesReply ==
    /\ reply # None
    /\ request' = None /\ reply' = None
    /\ IF reply.n = 0 \/ request.op \in {"switch", "filters"}
       THEN UNCHANGED <<settings, keymap, editors, drifted>>
       ELSE /\ filter_editor' = None /\ keybinding_editor' = None
            /\ IF request.op = "keybindings"
               THEN /\ keymap' = request.value
                    /\ settings' = [settings EXCEPT !.keybindings = request.value]
                    /\ drifted' = (drifted \/ (Quiet /\ daemon.keybindings # request.value))
               ELSE /\ settings' = [settings EXCEPT !.playback_filters = request.value]
                    /\ drifted' = (drifted \/ (Quiet /\ daemon.playback_filters # request.value))
                    /\ UNCHANGED keymap
    /\ UNCHANGED bus

Next ==
    \/ adjust_setting
    \/ ReadsChange
    \/ OpensEditor
    \/ Edits
    \/ ClosesEditor
    \/ SavesEditor
    \/ persist_config
    \/ FailsToSave
    \/ ChangedElsewhere
    \/ ReadsConfig
    \/ emit_config_changed
    \/ apply_config_changed
    \/ HandlesReply

Spec == Init /\ [][Next]_vars

-----------------------------------------------------------------------------
(* At rest the page shows the daemon's settings, but for what is known to make *)
(* it drift: a change that failed to save, an editor that writes its value     *)
(* over a newer one, two events emitted in the wrong order, and the newest     *)
(* event lost on its way, until another arrives. A key pressed while a change  *)
(* by another client is under way does not, nor does losing an older event.    *)
QuietSettingsAreConfig ==
    (request = None /\ Quiet /\ ~drifted /\ ~lost) => settings = daemon
=============================================================================
