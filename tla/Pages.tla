------------------------------- MODULE Pages --------------------------------
(* The pages of the terminal interface, what opens over them and the quit      *)
(* prompt: the routing of keys and header clicks (src/src/app/input.rs,        *)
(* mouse.rs, lifecycle.rs), the Server page's form (input_server.rs), the      *)
(* event loop (mod.rs) and the order the layers are drawn in (ui/layout.rs).   *)
(* The loop handles one event at a time; the event pump and the signal handler *)
(* run beside it.                                                              *)
EXTENDS Naturals

CONSTANTS
    None,
    Urls, Secrets,   \* what the form may hold
    MaxChanges       \* bound on changes of the login by this or another client

PageNames == {"QuickPlay", "Library", "Queue", "Playlists", "Server", "Settings"}

VARIABLES
    page, quit_prompt,
    picker, lyrics, info, editor,  \* the overlays that are open
    box,            \* the text boxes and confirmations of the pages that are open
    filter,         \* the Library search has text
    form,           \* server_state: base_url, password, selected_field is a text field
    committed_password,
    base_url,       \* the URL in the mirrored configuration
    changes,
    request,        \* the request the key handler waits for, or None
    should_quit, daemon_backed,
    phase           \* of run_with_source: "check", "event", "busy", "stopped"

overlays == <<picker, lyrics, info, editor>>
server == <<form, committed_password, base_url, changes>>
quitting == <<should_quit, daemon_backed>>
vars == <<page, quit_prompt, overlays, box, filter, server, request, quitting, phase>>

PageOf(b) == CASE b = "filter_active" -> "Library"
               [] b = "naming_playlist" -> "Queue"
               [] b \in {"renaming", "confirming_delete"} -> "Playlists"

Boxes == {"filter_active", "naming_playlist", "renaming", "confirming_delete"}

Init ==
    /\ page = "QuickPlay" /\ quit_prompt = FALSE
    /\ picker = FALSE /\ lyrics = FALSE /\ info = FALSE /\ editor = FALSE
    /\ box = {} /\ filter = FALSE
    /\ base_url \in Urls
    /\ committed_password \in Secrets
    /\ form = [base_url |-> base_url, password |-> committed_password, text |-> TRUE]
    /\ changes = 0
    /\ request = None
    /\ should_quit = FALSE /\ daemon_backed \in BOOLEAN
    /\ phase = "check"

-----------------------------------------------------------------------------
(* The layers, in the order handle_key asks them and in the order they are     *)
(* drawn, the last on top.                                                     *)

KeyOwner ==
    CASE quit_prompt -> "quit_prompt"
      [] ~quit_prompt /\ picker -> "picker"
      [] ~quit_prompt /\ ~picker /\ lyrics -> "lyrics"
      [] ~quit_prompt /\ ~picker /\ ~lyrics /\ info -> "info"
      [] ~quit_prompt /\ ~picker /\ ~lyrics /\ ~info /\ editor -> "editor"
      [] OTHER -> "page"

OnTop ==
    CASE info -> "info"
      [] ~info /\ lyrics -> "lyrics"
      [] ~info /\ ~lyrics /\ editor -> "editor"
      [] ~info /\ ~lyrics /\ ~editor /\ picker -> "picker"
      [] ~info /\ ~lyrics /\ ~editor /\ ~picker /\ quit_prompt -> "quit_prompt"
      [] OTHER -> "page"

Key(owner) == phase = "event" /\ KeyOwner = owner

(* A text field or box takes every key but the page switches. *)
Typing ==
    \/ page = "Server" /\ form.text
    \/ \E b \in box : PageOf(b) = page

(* The key reaches the global actions, and if it is none of them the page. *)
Command == Key("page") /\ ~Typing

Handled == phase' = "check" /\ UNCHANGED request

Asks(r) == phase' = "busy" /\ request' = r

(* The playback, star, rating, repeat and refresh keys; the mouse reaches the  *)
(* header's buttons and the progress bar under every overlay.                  *)
AsksDaemon ==
    /\ phase = "event"
    /\ Asks("daemon")
    /\ UNCHANGED <<page, quit_prompt, overlays, box, filter, server, quitting>>

-----------------------------------------------------------------------------
(* Leaving a page, by key or by a click on a header tab. *)

(* Fault: only the form is reverted, a box stays open behind the other page. *)
revert_page_edits_form_only ==
    /\ form' = IF page = "Server"
               THEN [form EXCEPT !.base_url = base_url, !.password = committed_password]
               ELSE form
    /\ UNCHANGED box

revert_page_edits ==
    /\ form' = IF page = "Server"
               THEN [form EXCEPT !.base_url = base_url, !.password = committed_password]
               ELSE form
    /\ box' = {b \in box : PageOf(b) # page}

(* The header is in reach of the mouse under every overlay. *)
SwitchesPage ==
    /\ phase = "event"
    /\ page' \in PageNames
    /\ revert_page_edits
    /\ Handled
    /\ UNCHANGED <<quit_prompt, overlays, filter, committed_password, base_url, changes,
                   quitting>>

-----------------------------------------------------------------------------
(* Quitting. *)

PressesQuit ==
    /\ Command
    /\ IF page = "Library" /\ filter
       THEN filter' = FALSE /\ UNCHANGED <<quit_prompt, should_quit>>
       ELSE IF daemon_backed
       THEN quit_prompt' = TRUE /\ UNCHANGED <<filter, should_quit>>
       ELSE should_quit' = TRUE /\ UNCHANGED <<filter, quit_prompt>>
    /\ Handled
    /\ UNCHANGED <<page, overlays, box, server, daemon_backed>>

(* y also asks the daemon to stop; Esc keeps the interface. *)
AnswersQuitPrompt ==
    /\ Key("quit_prompt")
    /\ quit_prompt' = FALSE
    /\ \/ should_quit' = TRUE /\ Asks("shutdown")
       \/ should_quit' = TRUE /\ Handled
       \/ UNCHANGED should_quit /\ Handled
    /\ UNCHANGED <<page, overlays, box, filter, server, daemon_backed>>

(* A signal, or the daemon's Shutdown event. *)
handle_signal_received ==
    /\ phase # "stopped"
    /\ should_quit' = TRUE
    /\ UNCHANGED <<page, quit_prompt, overlays, box, filter, server, request, daemon_backed,
                   phase>>

(* run_with_source: draw, look at the flag, then wait for one event. *)
ChecksQuit ==
    /\ phase = "check"
    /\ phase' = IF should_quit THEN "stopped" ELSE "event"
    /\ UNCHANGED <<page, quit_prompt, overlays, box, filter, server, request, quitting>>

TimesOut ==
    /\ phase = "event"
    /\ phase' = "check"
    /\ UNCHANGED <<page, quit_prompt, overlays, box, filter, server, request, quitting>>

-----------------------------------------------------------------------------
(* What opens and closes over the pages. *)

Steady == UNCHANGED <<page, quit_prompt, server, quitting>>

TogglesLyrics ==
    /\ Command \/ Key("lyrics")
    /\ lyrics' = ~lyrics
    /\ Handled /\ Steady /\ UNCHANGED <<picker, info, editor, box, filter>>

OpensInfo ==
    /\ Command /\ page = "Library"
    /\ info' = TRUE
    /\ Handled /\ Steady /\ UNCHANGED <<picker, lyrics, editor, box, filter>>

OpensPicker ==
    /\ Command /\ page \in {"QuickPlay", "Library", "Queue", "Playlists"}
    /\ picker' = TRUE
    /\ Handled /\ Steady /\ UNCHANGED <<lyrics, info, editor, box, filter>>

OpensEditor ==
    /\ Command /\ page = "Settings"
    /\ editor' = TRUE
    /\ Handled /\ Steady /\ UNCHANGED <<picker, lyrics, info, box, filter>>

(* Esc; the picker's Enter closes it too, then asks the daemon. *)
ClosesOverlay ==
    /\ \/ Key("picker") /\ picker' = FALSE /\ UNCHANGED <<info, editor>>
          /\ (Handled \/ Asks("playlist"))
       \/ Key("info") /\ info' = FALSE /\ Handled /\ UNCHANGED <<picker, editor>>
       \/ Key("editor") /\ editor' = FALSE /\ Handled /\ UNCHANGED <<picker, info>>
    /\ Steady /\ UNCHANGED <<lyrics, box, filter>>

SavesEditor ==
    /\ Key("editor")
    /\ Asks("editor")
    /\ Steady /\ UNCHANGED <<overlays, box, filter>>

OpensBox ==
    /\ Command
    /\ \E b \in Boxes : PageOf(b) = page /\ box' = box \cup {b}
    /\ Handled /\ Steady /\ UNCHANGED <<overlays, filter>>

(* Esc or Enter; the search keeps its text when it is left with Enter. *)
LeavesBox ==
    /\ Key("page")
    /\ \E b \in box :
           /\ PageOf(b) = page
           /\ box' = box \ {b}
           /\ IF b = "filter_active" THEN filter' \in {FALSE, filter} /\ Handled
              ELSE UNCHANGED filter /\ (Handled \/ Asks("playlist"))
    /\ Steady /\ UNCHANGED overlays

TypesFilter ==
    /\ Key("page") /\ page = "Library" /\ "filter_active" \in box
    /\ filter' \in BOOLEAN
    /\ Handled /\ Steady /\ UNCHANGED <<overlays, box>>

-----------------------------------------------------------------------------
(* The form of the Server page. *)

MovesInForm ==
    /\ Key("page") /\ page = "Server"
    /\ form' \in {[form EXCEPT !.text = t] : t \in BOOLEAN}
    /\ Handled
    /\ UNCHANGED <<page, quit_prompt, overlays, box, filter, committed_password, base_url,
                   changes, quitting>>

TypesInForm ==
    /\ Key("page") /\ page = "Server" /\ form.text
    /\ \/ \E u \in Urls : form' = [form EXCEPT !.base_url = u]
       \/ \E s \in Secrets : form' = [form EXCEPT !.password = s]
    /\ Handled
    /\ UNCHANGED <<page, quit_prompt, overlays, box, filter, committed_password, base_url,
                   changes, quitting>>

(* Enter on Test or Save with a URL that parses. *)
SubmitsForm ==
    /\ Key("page") /\ page = "Server" /\ ~form.text
    /\ Asks("test") \/ (changes < MaxChanges /\ Asks("save"))
    /\ UNCHANGED <<page, quit_prompt, overlays, box, filter, server, quitting>>

(* Any answer or error; the editor closes when it was saved. *)
Answered ==
    /\ phase = "busy"
    /\ phase' = "check" /\ request' = None
    /\ editor' \in IF request = "editor" THEN {FALSE, editor} ELSE {editor}
    /\ \/ UNCHANGED server
       \/ /\ request = "save"
          /\ committed_password' = form.password
          /\ changes' = changes + 1
          /\ UNCHANGED <<form, base_url>>
    /\ UNCHANGED <<page, quit_prompt, picker, lyrics, info, box, filter, quitting>>

(* ConfigChanged leaves the form alone. *)
apply_config_changed ==
    /\ phase # "stopped"
    /\ changes < MaxChanges
    /\ base_url' \in Urls
    /\ changes' = changes + 1
    /\ UNCHANGED <<page, quit_prompt, overlays, box, filter, form, committed_password,
                   request, quitting, phase>>

Next ==
    \/ AsksDaemon
    \/ SwitchesPage
    \/ PressesQuit
    \/ AnswersQuitPrompt
    \/ handle_signal_received
    \/ ChecksQuit
    \/ TimesOut
    \/ TogglesLyrics
    \/ OpensInfo
    \/ OpensPicker
    \/ OpensEditor
    \/ ClosesOverlay
    \/ SavesEditor
    \/ OpensBox
    \/ LeavesBox
    \/ TypesFilter
    \/ MovesInForm
    \/ TypesInForm
    \/ SubmitsForm
    \/ Answered
    \/ apply_config_changed

Spec == Init /\ [][Next]_vars

-----------------------------------------------------------------------------
(* handle_key asks the layers from the bottom of the drawing order: a key goes *)
(* to the layer the user sees on top because two never open together. A box    *)
(* that captures keys, and text not yet saved, do not outlive their page.      *)
KeysGoWhereTheUserLooks ==
    /\ KeyOwner = OnTop
    /\ \A b \in box : PageOf(b) = page
    /\ \A b, c \in box : b = c
    /\ page # "Server" => form.password = committed_password
=============================================================================
