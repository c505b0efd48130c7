------------------------------ MODULE Tui_proofs ------------------------------
(***************************************************************************)
(* What the terminal interface shows is what it says it shows, for any     *)
(* playlists, songs, queries, covers and settings, and any bounds.         *)
(***************************************************************************)
EXTENDS MCTui, SequenceTheorems, FiniteSetTheorems, TLAPS

(***************************************************************************)
(* Pages, overlays and the Server form (Pages, as G): what opens over the  *)
(* pages opens by a key that reached the page, and a key reaches the page  *)
(* only when nothing is open over it.                                      *)
(***************************************************************************)
LayersTyped ==
    /\ quit_prompt \in BOOLEAN
    /\ picker_open \in BOOLEAN /\ lyrics_open \in BOOLEAN
    /\ info_open \in BOOLEAN /\ editor \in BOOLEAN

OneLayer ==
    /\ quit_prompt => ~picker_open /\ ~lyrics_open /\ ~info_open /\ ~editor
    /\ picker_open => ~lyrics_open /\ ~info_open /\ ~editor
    /\ lyrics_open => ~info_open /\ ~editor
    /\ info_open => ~editor

OneBox ==
    /\ boxes \subseteq G!Boxes
    /\ \A b \in boxes : G!PageOf(b) = page
    /\ \A b, c \in boxes : b = c

FormTyped == form = [base_url |-> form.base_url, password |-> form.password, text |-> form.text]

FormKept == page # "Server" => form.password = committed_password

PagesInv == LayersTyped /\ OneLayer /\ OneBox /\ FormTyped /\ FormKept

LEMMA PagesInit == G!Init => PagesInv
<1> SUFFICES ASSUME G!Init
             PROVE  PagesInv
  OBVIOUS
<1>1. LayersTyped /\ OneLayer
  BY DEF G!Init, LayersTyped, OneLayer
<1>2. OneBox /\ FormTyped /\ FormKept
  BY DEF G!Init, OneBox, FormTyped, FormKept
<1> QED BY <1>1, <1>2 DEF PagesInv

LEMMA KeyToPage ==
    ASSUME LayersTyped, G!Key("page")
    PROVE  ~quit_prompt /\ ~picker_open /\ ~lyrics_open /\ ~info_open /\ ~editor
BY DEF LayersTyped, G!Key, G!KeyOwner

Layers == <<quit_prompt, picker_open, lyrics_open, info_open, editor>>

LEMMA LayersKept ==
    ASSUME LayersTyped, OneLayer, UNCHANGED Layers
    PROVE  LayersTyped' /\ OneLayer'
BY DEF Layers, LayersTyped, OneLayer

(* A layer that opens where nothing was open, or closes.                   *)
LEMMA LayersStep ==
    ASSUME PagesInv, G!Next
    PROVE  LayersTyped' /\ OneLayer'
<1> USE DEF G!overlays
<1>1. CASE G!PressesQuit
  <2>1. ~quit_prompt /\ ~picker_open /\ ~lyrics_open /\ ~info_open /\ ~editor
    BY <1>1, KeyToPage DEF G!PressesQuit, G!Command, PagesInv
  <2>2. /\ quit_prompt' \in {TRUE, quit_prompt}
        /\ UNCHANGED <<picker_open, lyrics_open, info_open, editor>>
    BY <1>1 DEF G!PressesQuit
  <2> QED BY <2>1, <2>2 DEF PagesInv, LayersTyped, OneLayer
<1>2. CASE G!TogglesLyrics
  <2>1. ~quit_prompt /\ ~picker_open /\ ~info_open /\ ~editor
    <3>1. CASE G!Command
      BY <3>1, KeyToPage DEF G!Command, PagesInv
    <3>2. CASE G!Key("lyrics")
      BY <3>2 DEF G!Key, G!KeyOwner, PagesInv, LayersTyped, OneLayer
    <3> QED BY <1>2, <3>1, <3>2 DEF G!TogglesLyrics
  <2>2. lyrics_open' \in BOOLEAN /\ UNCHANGED <<quit_prompt, picker_open, info_open, editor>>
    BY <1>2 DEF G!TogglesLyrics, G!Steady
  <2> QED BY <2>1, <2>2 DEF PagesInv, LayersTyped, OneLayer
<1>3. CASE G!OpensInfo \/ G!OpensPicker \/ G!OpensEditor
  <2>1. ~quit_prompt /\ ~picker_open /\ ~lyrics_open /\ ~info_open /\ ~editor
    BY <1>3, KeyToPage DEF G!OpensInfo, G!OpensPicker, G!OpensEditor, G!Command, PagesInv
  <2>2. \/ info_open' = TRUE /\ UNCHANGED <<quit_prompt, picker_open, lyrics_open, editor>>
        \/ picker_open' = TRUE /\ UNCHANGED <<quit_prompt, lyrics_open, info_open, editor>>
        \/ editor' = TRUE /\ UNCHANGED <<quit_prompt, picker_open, lyrics_open, info_open>>
    BY <1>3 DEF G!OpensInfo, G!OpensPicker, G!OpensEditor, G!Steady
  <2>3. LayersTyped'
    BY <2>2 DEF PagesInv, LayersTyped
  <2>4. /\ ~quit_prompt' /\ ~lyrics_open'
        /\ picker_open' => ~info_open' /\ ~editor'
        /\ info_open' => ~editor'
    BY <2>1, <2>2
  <2> QED BY <2>3, <2>4 DEF OneLayer
<1>4. CASE G!ClosesOverlay \/ G!Answered \/ G!AnswersQuitPrompt
  <2>1. /\ ~quit_prompt' \/ UNCHANGED quit_prompt
        /\ ~picker_open' \/ UNCHANGED picker_open
        /\ ~info_open' \/ UNCHANGED info_open
        /\ ~editor' \/ UNCHANGED editor
        /\ UNCHANGED lyrics_open
    <3>1. CASE G!ClosesOverlay
      BY <3>1 DEF G!ClosesOverlay, G!Steady
    <3>2. CASE G!Answered
      BY <3>2 DEF G!Answered
    <3>3. CASE G!AnswersQuitPrompt
      BY <3>3 DEF G!AnswersQuitPrompt
    <3> QED BY <1>4, <3>1, <3>2, <3>3
  <2>2. LayersTyped'
    <3>1. CASE G!ClosesOverlay
      BY <3>1 DEF G!ClosesOverlay, G!Steady, PagesInv, LayersTyped
    <3>2. CASE G!Answered
      BY <3>2 DEF G!Answered, PagesInv, LayersTyped
    <3>3. CASE G!AnswersQuitPrompt
      BY <3>3 DEF G!AnswersQuitPrompt, PagesInv, LayersTyped
    <3> QED BY <1>4, <3>1, <3>2, <3>3
  <2> QED BY <2>1, <2>2 DEF PagesInv, OneLayer
<1>5. CASE UNCHANGED Layers
  BY <1>5, LayersKept DEF PagesInv
<1>6. \/ G!PressesQuit \/ G!TogglesLyrics \/ G!OpensInfo \/ G!OpensPicker \/ G!OpensEditor
      \/ G!ClosesOverlay \/ G!Answered \/ G!AnswersQuitPrompt
      \/ UNCHANGED Layers
  BY DEF G!Next, G!AsksDaemon, G!SwitchesPage, G!handle_signal_received, G!ChecksQuit,
     G!TimesOut, G!SavesEditor, G!OpensBox, G!LeavesBox, G!TypesFilter, G!MovesInForm,
     G!TypesInForm, G!SubmitsForm, G!apply_config_changed, G!Steady, Layers
<1> QED BY <1>1, <1>2, <1>3, <1>4, <1>5, <1>6

LEMMA BoxesStep ==
    ASSUME PagesInv, G!Next
    PROVE  OneBox'
<1> USE DEF PagesInv, OneBox
<1>1. CASE G!SwitchesPage
  BY <1>1 DEF G!SwitchesPage, G!revert_page_edits
<1>2. CASE G!OpensBox
  <2>1. boxes = {}
    BY <1>2 DEF G!OpensBox, G!Command, G!Typing
  <2>2. PICK b \in G!Boxes : G!PageOf(b) = page /\ boxes' = boxes \cup {b}
    BY <1>2 DEF G!OpensBox
  <2>3. page' = page
    BY <1>2 DEF G!OpensBox, G!Steady
  <2> QED BY <2>1, <2>2, <2>3 DEF G!PageOf
<1>3. CASE G!LeavesBox
  BY <1>3 DEF G!LeavesBox, G!Steady, G!PageOf
<1>4. CASE /\ UNCHANGED <<page, boxes>>
  BY <1>4 DEF G!PageOf
<1>5. \/ G!SwitchesPage \/ G!OpensBox \/ G!LeavesBox
      \/ UNCHANGED <<page, boxes>>
  BY DEF G!Next, G!AsksDaemon, G!PressesQuit, G!AnswersQuitPrompt, G!handle_signal_received,
     G!ChecksQuit, G!TimesOut, G!TogglesLyrics, G!OpensInfo, G!OpensPicker, G!OpensEditor,
     G!ClosesOverlay, G!SavesEditor, G!TypesFilter, G!MovesInForm, G!TypesInForm,
     G!SubmitsForm, G!Answered, G!apply_config_changed, G!Steady
<1> QED BY <1>1, <1>2, <1>3, <1>4, <1>5

LEMMA FormStep ==
    ASSUME PagesInv, G!Next
    PROVE  FormTyped' /\ FormKept'
<1> USE DEF PagesInv, FormTyped, FormKept
<1>1. CASE G!SwitchesPage
  BY <1>1 DEF G!SwitchesPage, G!revert_page_edits
<1>2. CASE G!MovesInForm
  BY <1>2 DEF G!MovesInForm
<1>3. CASE G!TypesInForm
  BY <1>3 DEF G!TypesInForm
<1>4. CASE G!Answered
  BY <1>4 DEF G!Answered, G!server
<1>5. CASE UNCHANGED <<page, form, committed_password>>
  BY <1>5
<1>6. \/ G!SwitchesPage \/ G!MovesInForm \/ G!TypesInForm \/ G!Answered
      \/ UNCHANGED <<page, form, committed_password>>
  BY DEF G!Next, G!AsksDaemon, G!PressesQuit, G!AnswersQuitPrompt, G!handle_signal_received,
     G!ChecksQuit, G!TimesOut, G!TogglesLyrics, G!OpensInfo, G!OpensPicker, G!OpensEditor,
     G!ClosesOverlay, G!SavesEditor, G!OpensBox, G!LeavesBox, G!TypesFilter,
     G!SubmitsForm, G!apply_config_changed, G!Steady, G!server
<1> QED BY <1>1, <1>2, <1>3, <1>4, <1>5, <1>6

LEMMA PagesStep == PagesInv /\ [G!Next]_varsG => PagesInv'
<1>1. PagesInv /\ G!Next => PagesInv'
  BY LayersStep, BoxesStep, FormStep DEF PagesInv
<1>2. ASSUME PagesInv, UNCHANGED varsG
      PROVE  PagesInv'
  <2>1. LayersTyped' /\ OneLayer'
    BY <1>2, LayersKept DEF varsG, Layers, PagesInv
  <2>2. OneBox'
    BY <1>2 DEF varsG, PagesInv, OneBox, G!PageOf
  <2>3. FormTyped' /\ FormKept'
    BY <1>2 DEF varsG, PagesInv, FormTyped, FormKept
  <2> QED BY <2>1, <2>2, <2>3 DEF PagesInv
<1> QED BY <1>1, <1>2

LEMMA PagesAtRest == PagesInv => G!KeysGoWhereTheUserLooks
<1> SUFFICES ASSUME PagesInv
             PROVE  G!KeysGoWhereTheUserLooks
  OBVIOUS
<1>1. G!KeyOwner = G!OnTop
  BY DEF PagesInv, LayersTyped, OneLayer, G!KeyOwner, G!OnTop
<1> QED BY <1>1 DEF PagesInv, OneBox, FormKept, G!KeysGoWhereTheUserLooks

(***************************************************************************)
(* The search box (LibraryPage, as L): the search of the current query is  *)
(* under way, has failed, or its answer is what the tree shows.            *)
(***************************************************************************)
SearchTyped(t) == t = [gen |-> t.gen, query |-> t.query, phase |-> t.phase]

LibraryInv ==
    /\ search_gen \in Nat
    /\ \A t \in searches : SearchTyped(t) /\ t.gen \in Nat /\ t.gen <= search_gen
    /\ filter # Empty => \A t \in searches : t.gen = search_gen => t.query = filter
    /\ ~failed /\ filter # Empty =>
           search_results = filter \/ \E t \in searches : t.gen = search_gen

LEMMA LibraryInit == L!Init => LibraryInv
BY DEF L!Init, LibraryInv

LEMMA NewQueryStep ==
    ASSUME LibraryInv, NEW query, L!NewQuery(query)
    PROVE  LibraryInv'
<1> DEFINE t == [gen |-> search_gen', query |-> query, phase |-> "sleeping"]
<1>1. search_gen \in Nat /\ search_gen' = search_gen + 1 /\ filter' = query
  BY DEF L!NewQuery, LibraryInv
<1>2. \A u \in searches : u.gen \in Nat /\ u.gen <= search_gen
  BY DEF LibraryInv
<1>3. CASE query = Empty
  <2>1. searches' = searches
    BY <1>3 DEF L!NewQuery
  <2> QED BY <1>1, <1>2, <1>3, <2>1 DEF LibraryInv, SearchTyped
<1>4. CASE query # Empty
  <2>1. searches' = searches \cup {t}
    BY <1>4 DEF L!NewQuery
  <2>2. SearchTyped(t) /\ t.gen = search_gen' /\ t.query = query
    BY DEF SearchTyped
  <2> HIDE DEF t
  <2>3. \A u \in searches' : SearchTyped(u) /\ u.gen \in Nat /\ u.gen <= search_gen'
    BY <1>1, <1>2, <2>1, <2>2 DEF LibraryInv
  <2>4. \A u \in searches' : u.gen = search_gen' => u = t
    BY <1>1, <1>2, <2>1
  <2> QED BY <1>1, <2>1, <2>2, <2>3, <2>4 DEF LibraryInv, SearchTyped
<1> QED BY <1>3, <1>4

LEMMA SearchWakesStep ==
    ASSUME LibraryInv, NEW t \in searches, L!SearchWakes(t)
    PROVE  LibraryInv'
<1>1. UNCHANGED <<filter, search_results, search_gen, failed>>
  BY DEF L!SearchWakes
<1>2. CASE L!Superseded(t)
  <2>1. searches' = searches \ {t} /\ t.gen # search_gen
    BY <1>2 DEF L!SearchWakes, L!Superseded
  <2> QED BY <1>1, <2>1 DEF LibraryInv, SearchTyped
<1>3. CASE ~L!Superseded(t)
  <2> DEFINE u == [t EXCEPT !.phase = "asked"]
  <2>1. searches' = (searches \ {t}) \cup {u} /\ t.gen = search_gen
    BY <1>3 DEF L!SearchWakes, L!Superseded
  <2>2. SearchTyped(t)
    BY DEF LibraryInv
  <2>3. SearchTyped(u) /\ u.gen = t.gen /\ u.query = t.query
    BY <2>2 DEF SearchTyped
  <2> HIDE DEF u
  <2>4. u \in searches'
    BY <2>1
  <2>5. filter # Empty => t.query = filter
    BY <2>1 DEF LibraryInv
  <2>6. search_gen \in Nat
    BY DEF LibraryInv
  <2>7. \A v \in searches' : SearchTyped(v) /\ v.gen \in Nat /\ v.gen <= search_gen'
    BY <1>1, <2>1, <2>3, <2>6 DEF LibraryInv
  <2>8. filter' # Empty => \A v \in searches' : v.gen = search_gen' => v.query = filter'
    BY <1>1, <2>1, <2>3, <2>5 DEF LibraryInv
  <2> QED BY <1>1, <2>1, <2>3, <2>4, <2>6, <2>7, <2>8 DEF LibraryInv, SearchTyped
<1> QED BY <1>2, <1>3

(* A late answer is dropped; the current one is the one of the query.      *)
LEMMA SearchReturnsStep ==
    ASSUME LibraryInv, NEW t \in searches, L!SearchReturns(t)
    PROVE  LibraryInv'
<1>1. UNCHANGED <<filter, search_gen>> /\ searches' = searches \ {t}
  BY DEF L!SearchReturns
<1>2. CASE L!Superseded(t)
  <2>1. t.gen # search_gen
    BY <1>2 DEF L!Superseded
  <2>2. UNCHANGED search_results /\ (~failed' => ~failed)
    <3>1. CASE L!Commit(t) /\ UNCHANGED <<failed, failures>>
      BY <1>2, <3>1 DEF L!Commit
    <3>2. CASE /\ failed' = (failed \/ ~L!Superseded(t))
               /\ UNCHANGED search_results \/ ~L!Superseded(t)
      BY <1>2, <3>2, Zenon
    <3> QED BY <3>1, <3>2 DEF L!SearchReturns
  <2> QED BY <1>1, <2>1, <2>2 DEF LibraryInv, SearchTyped
<1>3. CASE ~L!Superseded(t)
  <2>1. t.gen = search_gen
    BY <1>3 DEF L!Superseded
  <2>2. search_results' = t.query \/ failed'
    BY <1>3 DEF L!SearchReturns, L!Commit
  <2> QED BY <1>1, <2>1, <2>2 DEF LibraryInv, SearchTyped
<1> QED BY <1>2, <1>3

LEMMA LibraryStep == LibraryInv /\ [L!Next]_varsL => LibraryInv'
<1> SUFFICES ASSUME LibraryInv, [L!Next]_varsL
             PROVE  LibraryInv'
  OBVIOUS
<1>1. ASSUME NEW query, L!NewQuery(query)
      PROVE  LibraryInv'
  BY <1>1, NewQueryStep
<1>2. ASSUME NEW t \in searches, L!SearchWakes(t) \/ L!SearchReturns(t)
      PROVE  LibraryInv'
  BY <1>2, SearchWakesStep, SearchReturnsStep
<1>3. CASE L!LeavesBox \/ L!exit_search
  <2>1. UNCHANGED <<search_gen, searches, failed>>
    BY <1>3 DEF L!LeavesBox, L!exit_search
  <2>2. filter' = Empty \/ UNCHANGED <<filter, search_results>>
    BY <1>3 DEF L!LeavesBox, L!exit_search
  <2> QED BY <2>1, <2>2 DEF LibraryInv, SearchTyped
<1>4. CASE UNCHANGED <<filter, search_results, search_gen, searches, failed>>
  BY <1>4 DEF LibraryInv, SearchTyped
<1>5. CASE L!Types \/ L!RecallsOlder \/ L!RecallsNewer
  BY <1>1, <1>5 DEF L!Types, L!RecallsOlder, L!RecallsNewer
<1>6. CASE \/ L!OpensBox \/ L!StepsInTree(TRUE) \/ L!StepsInTree(FALSE) \/ L!StepPanics
           \/ L!EntersTree \/ L!ClicksTree \/ L!ScrollsTree
           \/ L!MovesInSongs \/ L!SwitchesPane \/ L!Requests
  BY <1>4, <1>6 DEF L!OpensBox, L!StepsInTree, L!StepPanics, L!EntersTree, L!ClicksTree,
     L!ScrollsTree, L!MovesInSongs, L!SwitchesPane, L!Requests, L!search
<1>7. CASE \/ L!handle_library_view_toggle \/ L!CyclesSort \/ L!MovesInAlbums \/ L!EntersAlbum
           \/ \E t \in album_loads : L!AlbumsArrive(t) \/ L!FirstAlbumArrives(t)
           \/ L!Answers \/ L!RequestFails \/ L!PumpAlbums \/ L!PumpArtists
           \/ UNCHANGED varsL
  BY <1>4, <1>7 DEF L!handle_library_view_toggle, L!CyclesSort, L!MovesInAlbums, L!EntersAlbum,
     L!AlbumsArrive, L!FirstAlbumArrives, L!Answers, L!RequestFails, L!PumpAlbums,
     L!PumpArtists, L!search, varsL
<1> QED BY <1>2, <1>3, <1>5, <1>6, <1>7 DEF L!Next

LEMMA LibraryAtRest == LibraryInv => L!QuietSearchIsCurrent
BY DEF LibraryInv, L!QuietSearchIsCurrent, L!Superseded

(***************************************************************************)
(* The Settings page (SettingsPage, as S): the newest change is in an      *)
(* event, or about to be in one, until the page shows it. What makes the   *)
(* page differ while no event is under way is a key whose request has not  *)
(* been answered (Dirty), or is in the histories drifted and lost.         *)
(***************************************************************************)
Config == [switch : BOOLEAN, playback_filters : S!Filters, keybindings : Bindings]

Emission == [n : Nat, seen : Nat, config : Config \cup {None}]

Setters == {"switch", "filters", "filter list", "keybindings"}

ValueOf(op) ==
    CASE op = "switch" -> BOOLEAN
      [] op \in {"filters", "filter list"} -> S!Filters
      [] op = "keybindings" -> Bindings
      [] OTHER -> {None}

RequestTyped(r) == r \in S!Requests /\ r.value \in ValueOf(r.op)

SettingsTyped ==
    /\ daemon \in Config /\ settings \in Config
    /\ filter_editor # None => filter_editor \subseteq Names
    /\ settings_request # None => RequestTyped(settings_request)
    /\ reply # None => settings_request # None /\ settings_request.op \in Setters
    /\ \A e \in emitting : e \in Emission
    /\ config_events \in Seq(Config)
    /\ settings_changes \in Nat /\ emitted \in Nat

Dirty ==
    /\ settings_request # None /\ reply = None
    /\ settings_request.op \in {"read switch", "read filters", "switch", "filters"}

Emissions ==
    /\ emitted <= settings_changes
    /\ \A e \in emitting :
           /\ e.n <= settings_changes /\ e.seen <= settings_changes
           /\ e.config # None => e.n <= e.seen
           /\ e.config # None /\ e.seen = settings_changes => e.config = daemon
    /\ emitted = settings_changes \/ \E e \in emitting : e.n = settings_changes

NewestIsLast ==
    ~drifted /\ ~lost /\ config_events # <<>> /\ emitted = settings_changes =>
        config_events[Len(config_events)] = daemon

ShownAtRest == ~drifted /\ ~lost /\ S!Quiet /\ ~Dirty => settings = daemon

SettingsInv == SettingsTyped /\ Emissions /\ NewestIsLast /\ ShownAtRest

LEMMA SettingsInit == S!Init => SettingsInv
<1> SUFFICES ASSUME S!Init
             PROVE  SettingsInv
  OBVIOUS
<1>1. daemon \in Config /\ settings = daemon
  <2> DEFINE d == daemon
  <2>1. /\ d \in [switch : {FALSE}, playback_filters : [min_rating : {0}, excluded : {{}}],
                 keybindings : Bindings]
        /\ settings = d
    BY DEF S!Init
  <2>2. 0 \in 0..MaxRating
    BY TuiAssumption DEF TuiAssumption
  <2>3. d.playback_filters \in S!Filters
    BY <2>1, <2>2 DEF S!Filters
  <2> HIDE DEF d
  <2>4. d \in Config
    BY <2>1, <2>3 DEF Config
  <2> QED BY <2>1, <2>4 DEF d
<1>2. SettingsTyped
  BY <1>1 DEF S!Init, SettingsTyped
<1>3. Emissions /\ NewestIsLast /\ ShownAtRest
  BY <1>1 DEF S!Init, Emissions, NewestIsLast, ShownAtRest
<1> QED BY <1>2, <1>3 DEF SettingsInv

(* Keys. *)
LEMMA AdjustStep ==
    ASSUME SettingsInv, S!adjust_setting
    PROVE  SettingsInv'
<1>1. /\ UNCHANGED <<daemon, emitting, config_events, settings_changes, emitted, drifted, lost,
                     reply, filter_editor>>
      /\ settings_request = None
  BY DEF S!adjust_setting, S!Browsing, S!Keys, S!editors, S!bus
<1>2. /\ settings' \in Config
      /\ RequestTyped(settings_request')
      /\ settings_request' # None => settings_request'.op \in {"read switch", "read filters"}
  <2>1. settings \in Config
    BY DEF SettingsInv, SettingsTyped
  <2>2. CASE /\ settings' = [settings EXCEPT !.switch = ~@]
             /\ settings_request' = [op |-> "read switch", value |-> None]
    BY <2>1, <2>2 DEF Config, RequestTyped, ValueOf, S!Requests
  <2>3. CASE \E step \in {-1, 1} :
                 /\ settings' = [settings EXCEPT
                        !.playback_filters.min_rating = S!adjusted(@, step)]
                 /\ settings_request' = [op |-> "read filters", value |-> None]
    <3>1. PICK step \in {-1, 1} :
                 /\ settings' = [settings EXCEPT
                        !.playback_filters.min_rating = S!adjusted(@, step)]
                 /\ settings_request' = [op |-> "read filters", value |-> None]
      BY <2>3
    <3>2. S!adjusted(settings.playback_filters.min_rating, step) \in 0..MaxRating
      BY <2>1 DEF S!adjusted, Config, S!Filters
    <3>3. settings' \in Config
      BY <2>1, <3>1, <3>2 DEF Config, S!Filters
    <3> QED BY <3>1, <3>3 DEF RequestTyped, ValueOf, S!Requests
  <2> QED BY <2>2, <2>3 DEF S!adjust_setting
<1>3. settings_request' # None
  BY <1>2, TuiAssumption DEF RequestTyped, TuiAssumption
<1>4. SettingsTyped'
  BY <1>1, <1>2 DEF SettingsInv, SettingsTyped
<1>5. Emissions' /\ NewestIsLast'
  BY <1>1 DEF SettingsInv, Emissions, NewestIsLast
<1>6. ShownAtRest'
  <2>1. reply' = None
    BY <1>1 DEF SettingsInv, SettingsTyped
  <2> QED BY <1>2, <1>3, <2>1 DEF ShownAtRest, Dirty
<1> QED BY <1>4, <1>5, <1>6 DEF SettingsInv

LEMMA ReadsChangeStep ==
    ASSUME SettingsInv, S!ReadsChange
    PROVE  SettingsInv'
<1>1. /\ UNCHANGED <<settings, daemon, emitting, config_events, settings_changes, emitted, drifted,
                     lost, reply, filter_editor>>
      /\ settings_request # None
      /\ settings_request.op \in {"read switch", "read filters"}
  BY DEF S!ReadsChange, S!editors, S!bus
<1>2. reply = None
  BY <1>1 DEF SettingsInv, SettingsTyped, Setters
<1>3. RequestTyped(settings_request') /\ settings_request'.op \in {"switch", "filters"}
  <2>1. settings.switch \in BOOLEAN /\ settings.playback_filters \in S!Filters
    BY DEF SettingsInv, SettingsTyped, Config
  <2>2. CASE S!Sends("switch", settings.switch)
    BY <2>1, <2>2 DEF S!Sends, RequestTyped, ValueOf, S!Requests
  <2>3. CASE S!Sends("filters", settings.playback_filters)
    BY <2>1, <2>3 DEF S!Sends, RequestTyped, ValueOf, S!Requests
  <2> QED BY <2>2, <2>3 DEF S!ReadsChange
<1>4. settings_request' # None
  BY <1>3, TuiAssumption DEF RequestTyped, TuiAssumption
<1>5. SettingsTyped'
  BY <1>1, <1>2, <1>3 DEF SettingsInv, SettingsTyped
<1>6. Emissions' /\ NewestIsLast'
  BY <1>1 DEF SettingsInv, Emissions, NewestIsLast
<1>7. ShownAtRest'
  BY <1>1, <1>2, <1>3, <1>4 DEF ShownAtRest, Dirty
<1> QED BY <1>5, <1>6, <1>7 DEF SettingsInv

(* An editor opens on what the page shows and leaves the page as it is.    *)
LEMMA EditorStep ==
    ASSUME SettingsInv, S!OpensEditor \/ S!Edits \/ S!ClosesEditor
    PROVE  SettingsInv'
<1>1. UNCHANGED <<settings, settings_request, reply, daemon, emitting, config_events,
                  settings_changes, emitted, drifted, lost>>
  BY DEF S!OpensEditor, S!Edits, S!ClosesEditor, S!bus
<1>2. filter_editor' # None => filter_editor' \subseteq Names
  <2>1. CASE S!OpensEditor
    <3>1. settings.playback_filters.excluded \subseteq Names
      BY DEF SettingsInv, SettingsTyped, Config, S!Filters
    <3> QED BY <2>1, <3>1 DEF S!OpensEditor, SettingsInv, SettingsTyped
  <2>2. CASE S!Edits
    BY <2>2 DEF S!Edits, SettingsInv, SettingsTyped
  <2>3. CASE S!ClosesEditor
    BY <2>3 DEF S!ClosesEditor
  <2> QED BY <2>1, <2>2, <2>3
<1>3. SettingsTyped'
  BY <1>1, <1>2 DEF SettingsInv, SettingsTyped
<1>4. Emissions' /\ NewestIsLast' /\ ShownAtRest'
  BY <1>1 DEF SettingsInv, Emissions, NewestIsLast, ShownAtRest, Dirty, S!Quiet
<1> QED BY <1>3, <1>4 DEF SettingsInv

LEMMA SavesEditorStep ==
    ASSUME SettingsInv, S!SavesEditor
    PROVE  SettingsInv'
<1>1. /\ UNCHANGED <<settings, filter_editor, reply, daemon, emitting, config_events,
                     settings_changes, emitted, drifted, lost>>
      /\ settings_request = None
  BY DEF S!SavesEditor, S!Keys, S!editors, S!bus
<1>2. RequestTyped(settings_request') /\ settings_request'.op \in {"filter list", "keybindings"}
  <2> DEFINE f == [settings.playback_filters EXCEPT !.excluded = filter_editor]
  <2>1. CASE filter_editor # None /\ S!Sends("filter list", f)
    <3>1. f \in S!Filters
      BY <2>1 DEF SettingsInv, SettingsTyped, Config, S!Filters
    <3> HIDE DEF f
    <3> QED BY <2>1, <3>1 DEF S!Sends, RequestTyped, ValueOf, S!Requests
  <2>2. CASE keybinding_editor \in Bindings /\ S!Sends("keybindings", keybinding_editor)
    BY <2>2 DEF S!Sends, RequestTyped, ValueOf, S!Requests
  <2> QED BY <2>1, <2>2 DEF S!SavesEditor
<1>3. reply = None
  BY <1>1 DEF SettingsInv, SettingsTyped
<1>4. SettingsTyped'
  BY <1>1, <1>2, <1>3 DEF SettingsInv, SettingsTyped
<1>5. Emissions' /\ NewestIsLast'
  BY <1>1 DEF SettingsInv, Emissions, NewestIsLast
<1>6. ShownAtRest'
  BY <1>1, <1>2 DEF SettingsInv, ShownAtRest, Dirty, S!Quiet
<1> QED BY <1>4, <1>5, <1>6 DEF SettingsInv

(* The daemon. A commit is the newest change, and an emission is under way. *)
LEMMA CommitsStep ==
    ASSUME SettingsInv, NEW c \in Config, S!Commits(c),
           UNCHANGED <<settings, filter_editor, settings_request, drifted>>,
           reply' # None => settings_request # None /\ settings_request.op \in Setters
    PROVE  SettingsInv'
<1> DEFINE e == [n |-> settings_changes + 1, seen |-> 0, config |-> None]
<1>1. /\ daemon' = c /\ settings_changes' = settings_changes + 1
      /\ emitting' = emitting \cup {e} /\ UNCHANGED <<config_events, emitted>>
  BY DEF S!Commits
<1>2. settings_changes \in Nat /\ emitted \in Nat /\ emitted <= settings_changes
  BY DEF SettingsInv, SettingsTyped, Emissions
<1>3. e \in Emission /\ e.n = settings_changes' /\ e.seen <= settings_changes' /\ e.config = None
  BY <1>1, <1>2 DEF Emission
<1> HIDE DEF e
<1>4. SettingsTyped'
  <2>1. \A f \in emitting' : f \in Emission
    BY <1>1, <1>3 DEF SettingsInv, SettingsTyped
  <2>2. settings_changes' \in Nat
    BY <1>1, <1>2
  <2> QED BY <1>1, <2>1, <2>2 DEF SettingsInv, SettingsTyped, RequestTyped
<1>5. Emissions'
  <2>1. ASSUME NEW f \in emitting
        PROVE  /\ f.n <= settings_changes' /\ f.seen < settings_changes'
               /\ f.config # None => f.n <= f.seen
    BY <1>1, <1>2 DEF SettingsInv, SettingsTyped, Emissions, Emission
  <2>2. ASSUME NEW f \in emitting'
        PROVE  /\ f.n <= settings_changes' /\ f.seen <= settings_changes'
               /\ f.config # None => f.n <= f.seen
               /\ f.config # None /\ f.seen = settings_changes' => f.config = daemon'
    <3>1. CASE f = e
      BY <1>1, <1>2, <1>3, <3>1
    <3>2. CASE f \in emitting
      <4>1. f.seen \in Nat
        BY <3>2 DEF SettingsInv, SettingsTyped, Emission
      <4> QED BY <1>1, <1>2, <2>1, <3>2, <4>1
    <3> QED BY <1>1, <3>1, <3>2
  <2>3. emitted' <= settings_changes' /\ e \in emitting'
    BY <1>1, <1>2
  <2> QED BY <1>3, <2>2, <2>3 DEF Emissions
<1>6. NewestIsLast'
  BY <1>1, <1>2 DEF NewestIsLast
<1>7. ShownAtRest'
  BY <1>1 DEF ShownAtRest, S!Quiet
<1> QED BY <1>4, <1>5, <1>6, <1>7 DEF SettingsInv

LEMMA PersistStep ==
    ASSUME SettingsInv, S!persist_config
    PROVE  SettingsInv'
<1>1. /\ settings_request # None /\ RequestTyped(settings_request)
      /\ settings_request.op \in Setters
  BY DEF S!persist_config, S!Requested, Setters, SettingsInv, SettingsTyped
<1>2. daemon \in Config
  BY DEF SettingsInv, SettingsTyped
<1>3. S!Asked \in Config
  <2>1. CASE settings_request.op = "switch"
    <3>1. settings_request.value \in BOOLEAN
      BY <1>1, <2>1 DEF RequestTyped, ValueOf
    <3> QED BY <1>2, <2>1, <3>1 DEF S!Asked, Config
  <2>2. CASE settings_request.op \in {"filters", "filter list"}
    <3>1. settings_request.value \in S!Filters
      BY <1>1, <2>2 DEF RequestTyped, ValueOf
    <3> QED BY <1>2, <2>2, <3>1 DEF S!Asked, Config
  <2>3. CASE settings_request.op = "keybindings"
    <3>1. settings_request.value \in Bindings
      BY <1>1, <2>3 DEF RequestTyped, ValueOf
    <3> QED BY <1>2, <2>3, <3>1 DEF S!Asked, Config
  <2> QED BY <1>1, <2>1, <2>2, <2>3 DEF Setters
<1>4. /\ S!Commits(S!Asked)
      /\ UNCHANGED <<settings, filter_editor, settings_request, drifted>>
  BY DEF S!persist_config, S!editors
<1> QED BY <1>1, <1>3, <1>4, CommitsStep

LEMMA FailsToSaveStep ==
    ASSUME SettingsInv, S!FailsToSave
    PROVE  SettingsInv'
<1>1. /\ UNCHANGED <<settings, filter_editor, settings_request, daemon, emitting, config_events,
                     settings_changes, emitted, lost>>
      /\ settings_request # None /\ reply = None /\ settings_request.op \in Setters
  BY DEF S!FailsToSave, S!Requested, S!editors, S!bus, Setters
<1>2. ~drifted' => ~drifted /\ settings_request.op \notin {"switch", "filters"}
  <2>1. drifted' = (drifted \/ settings_request.op \in {"switch", "filters"})
    BY DEF S!FailsToSave
  <2> QED BY <2>1, Zenon
<1>3. SettingsTyped'
  BY <1>1 DEF SettingsInv, SettingsTyped, RequestTyped
<1>4. Emissions'
  BY <1>1 DEF SettingsInv, Emissions
<1>5. NewestIsLast'
  BY <1>1, <1>2 DEF SettingsInv, NewestIsLast
<1>6. ShownAtRest'
  <2>1. ~drifted' => ~Dirty
    BY <1>1, <1>2 DEF Dirty, Setters
  <2> QED BY <1>1, <1>2, <2>1 DEF SettingsInv, ShownAtRest, S!Quiet
<1> QED BY <1>3, <1>4, <1>5, <1>6 DEF SettingsInv

LEMMA ChangedElsewhereStep ==
    ASSUME SettingsInv, S!ChangedElsewhere
    PROVE  SettingsInv'
<1>1. /\ UNCHANGED <<settings, filter_editor, settings_request, reply, drifted>>
      /\ reply' # None => settings_request # None /\ settings_request.op \in Setters
  BY DEF S!ChangedElsewhere, S!editors, SettingsInv, SettingsTyped
<1>2. daemon \in Config
  BY DEF SettingsInv, SettingsTyped
<1>3. ASSUME NEW c \in Config, S!Commits(c)
      PROVE  SettingsInv'
  BY <1>1, <1>3, CommitsStep
<1>4. [daemon EXCEPT !.switch = ~@] \in Config
  BY <1>2 DEF Config
<1>5. \A f \in S!Filters : [daemon EXCEPT !.playback_filters = f] \in Config
  BY <1>2 DEF Config
<1>6. \A b \in Bindings : [daemon EXCEPT !.keybindings = b] \in Config
  BY <1>2 DEF Config
<1> QED BY <1>3, <1>4, <1>5, <1>6 DEF S!ChangedElsewhere

LEMMA ReadsConfigStep ==
    ASSUME SettingsInv, S!ReadsConfig
    PROVE  SettingsInv'
<1>1. PICK e \in emitting :
          /\ e.config = None
          /\ emitting' = (emitting \ {e})
                         \cup {[e EXCEPT !.config = daemon, !.seen = settings_changes]}
  BY DEF S!ReadsConfig
<1>2. UNCHANGED <<settings, filter_editor, settings_request, reply, daemon, config_events,
                  settings_changes, emitted, drifted, lost>>
  BY DEF S!ReadsConfig, S!editors
<1> DEFINE u == [e EXCEPT !.config = daemon, !.seen = settings_changes]
<1>3. e \in Emission /\ daemon \in Config /\ settings_changes \in Nat /\ e.n <= settings_changes
  BY DEF SettingsInv, SettingsTyped, Emissions
<1>4. u \in Emission /\ u.n = e.n /\ u.config = daemon /\ u.seen = settings_changes
  BY <1>3 DEF Emission
<1>5. emitting' = (emitting \ {e}) \cup {u}
  BY <1>1
<1> HIDE DEF u
<1>6. SettingsTyped'
  <2>1. \A f \in emitting' : f \in Emission
    BY <1>4, <1>5 DEF SettingsInv, SettingsTyped
  <2> QED BY <1>2, <2>1 DEF SettingsInv, SettingsTyped, RequestTyped
<1>7. Emissions'
  <2>1. ASSUME NEW f \in emitting'
        PROVE  /\ f.n <= settings_changes' /\ f.seen <= settings_changes'
               /\ f.config # None => f.n <= f.seen
               /\ f.config # None /\ f.seen = settings_changes' => f.config = daemon'
    <3>1. CASE f = u
      BY <1>2, <1>3, <1>4, <3>1
    <3>2. CASE f \in emitting
      BY <1>2, <3>2 DEF SettingsInv, Emissions
    <3> QED BY <1>5, <3>1, <3>2
  <2>2. emitted' = settings_changes' \/ \E f \in emitting' : f.n = settings_changes'
    BY <1>2, <1>4, <1>5 DEF SettingsInv, Emissions
  <2>3. emitted' <= settings_changes'
    BY <1>2 DEF SettingsInv, Emissions
  <2> QED BY <2>1, <2>2, <2>3 DEF Emissions
<1>8. NewestIsLast'
  BY <1>2 DEF SettingsInv, NewestIsLast
<1>9. ShownAtRest'
  BY <1>5 DEF ShownAtRest, S!Quiet
<1> QED BY <1>6, <1>7, <1>8, <1>9 DEF SettingsInv

(* The event that carries the newest change carries what the daemon has.   *)
LEMMA EmitStep ==
    ASSUME SettingsInv, S!emit_config_changed
    PROVE  SettingsInv'
<1>1. PICK e \in emitting :
          /\ e.config # None
          /\ emitting' = emitting \ {e}
          /\ \/ config_events' = Append(config_events, e.config) /\ lost' = FALSE
             \/ config_events' = config_events /\ lost' = TRUE
          /\ drifted' = (drifted \/ e.seen < emitted)
          /\ emitted' = IF e.seen > emitted THEN e.seen ELSE emitted
  BY DEF S!emit_config_changed
<1>2. UNCHANGED <<settings, filter_editor, settings_request, reply, daemon, settings_changes>>
  BY DEF S!emit_config_changed, S!editors
<1>3. /\ e \in Emission /\ settings_changes \in Nat /\ emitted \in Nat
      /\ emitted <= settings_changes /\ e.n <= e.seen /\ e.seen <= settings_changes
      /\ e.seen = settings_changes => e.config = daemon
  BY <1>1 DEF SettingsInv, SettingsTyped, Emissions
<1>4. e.n \in Nat /\ e.seen \in Nat /\ e.config \in Config
  BY <1>1, <1>3 DEF Emission
<1>5. emitted' \in Nat /\ emitted' <= settings_changes /\ e.seen <= emitted' /\ emitted <= emitted'
  BY <1>1, <1>3, <1>4
<1>6. ~drifted' => ~(e.seen < emitted)
  <2> DEFINE behind == e.seen < emitted
  <2>1. drifted' = (drifted \/ behind)
    BY <1>1
  <2> HIDE DEF behind
  <2>2. ~drifted' => ~behind
    BY <2>1, Zenon
  <2> QED BY <2>2 DEF behind
<1>7. config_events \in Seq(Config)
  BY DEF SettingsInv, SettingsTyped
<1>8. /\ config_events' \in Seq(Config)
      /\ ~lost' => config_events' # <<>> /\ config_events'[Len(config_events')] = e.config
  <2>1. CASE config_events' = Append(config_events, e.config)
    BY <1>4, <1>7, <2>1
  <2>2. CASE config_events' = config_events /\ lost' = TRUE
    BY <1>7, <2>2
  <2> QED BY <1>1, <2>1, <2>2
<1>9. SettingsTyped'
  BY <1>1, <1>2, <1>5, <1>8 DEF SettingsInv, SettingsTyped, RequestTyped
<1>10. Emissions'
  <2>1. \A f \in emitting' :
            /\ f.n <= settings_changes' /\ f.seen <= settings_changes'
            /\ f.config # None => f.n <= f.seen
            /\ f.config # None /\ f.seen = settings_changes' => f.config = daemon'
    BY <1>1, <1>2 DEF SettingsInv, Emissions
  <2>2. emitted' = settings_changes' \/ \E f \in emitting' : f.n = settings_changes'
    <3>1. CASE emitted = settings_changes
      BY <1>2, <1>3, <1>5, <3>1
    <3>2. CASE e.n = settings_changes
      BY <1>2, <1>3, <1>4, <1>5, <3>2
    <3>3. CASE \E f \in emitting : f # e /\ f.n = settings_changes
      BY <1>1, <1>2, <3>3
    <3> QED BY <3>1, <3>2, <3>3 DEF SettingsInv, Emissions
  <2> QED BY <1>2, <1>5, <2>1, <2>2 DEF Emissions
<1>11. NewestIsLast'
  <2>1. ASSUME ~drifted', emitted' = settings_changes'
        PROVE  e.seen = settings_changes
    BY <1>1, <1>2, <1>3, <1>4, <1>6, <2>1
  <2> QED BY <1>2, <1>3, <1>8, <2>1 DEF NewestIsLast
<1>12. ShownAtRest'
  BY <1>8 DEF ShownAtRest, S!Quiet
<1> QED BY <1>9, <1>10, <1>11, <1>12 DEF SettingsInv

LEMMA ApplyStep ==
    ASSUME SettingsInv, S!apply_config_changed
    PROVE  SettingsInv'
<1>1. /\ config_events # <<>> /\ settings' = Head(config_events)
      /\ config_events' = Tail(config_events)
      /\ UNCHANGED <<filter_editor, settings_request, reply, daemon, emitting, settings_changes,
                     emitted, drifted, lost>>
  BY DEF S!apply_config_changed, S!Shown, S!editors
<1>2. config_events \in Seq(Config)
  BY DEF SettingsInv, SettingsTyped
<1>3. /\ settings' \in Config /\ config_events' \in Seq(Config)
      /\ config_events' # <<>> =>
             config_events'[Len(config_events')] = config_events[Len(config_events)]
      /\ config_events' = <<>> => settings' = config_events[Len(config_events)]
  <2>1. /\ Len(config_events) \in Nat /\ Len(config_events) > 0
        /\ \A i \in 1..Len(config_events) : config_events[i] \in Config
    BY <1>1, <1>2, EmptySeq, LenProperties, ElementOfSeq
  <2>2. settings' = config_events[1] /\ settings' \in Config
    BY <1>1, <2>1
  <2>3. /\ config_events' \in Seq(Config) /\ Len(config_events') = Len(config_events) - 1
        /\ \A i \in 1..Len(config_events') : config_events'[i] = config_events[i + 1]
    BY <1>1, <1>2, HeadTailProperties
  <2>4. Len(config_events') \in Nat /\ (config_events' = <<>> <=> Len(config_events') = 0)
    BY <2>3, EmptySeq, LenProperties
  <2>5. ASSUME config_events' # <<>>
        PROVE  config_events'[Len(config_events')] = config_events[Len(config_events)]
    <3>1. Len(config_events') \in 1..Len(config_events')
      BY <2>4, <2>5
    <3>2. Len(config_events') + 1 = Len(config_events)
      BY <2>1, <2>3
    <3> QED BY <2>3, <3>1, <3>2
  <2>6. config_events' = <<>> => Len(config_events) = 1
    BY <2>1, <2>3, <2>4
  <2> QED BY <2>2, <2>3, <2>5, <2>6
<1>4. SettingsTyped'
  BY <1>1, <1>3 DEF SettingsInv, SettingsTyped, RequestTyped
<1>5. Emissions' /\ NewestIsLast'
  BY <1>1, <1>3 DEF SettingsInv, Emissions, NewestIsLast
<1>6. ShownAtRest'
  <2>1. emitting = {} => emitted = settings_changes
    BY DEF SettingsInv, Emissions
  <2> QED BY <1>1, <1>3, <2>1 DEF SettingsInv, NewestIsLast, ShownAtRest, S!Quiet
<1> QED BY <1>4, <1>5, <1>6 DEF SettingsInv

(* An editor writes its value over what the page shows.                    *)
LEMMA HandlesReplyStep ==
    ASSUME SettingsInv, S!HandlesReply
    PROVE  SettingsInv'
<1>1. /\ settings_request' = None /\ reply' = None /\ reply # None
      /\ UNCHANGED <<daemon, emitting, config_events, settings_changes, emitted, lost>>
  BY DEF S!HandlesReply, S!bus
<1>2. /\ settings_request # None /\ RequestTyped(settings_request)
      /\ settings_request.op \in Setters
      /\ settings \in Config /\ daemon \in Config
  BY <1>1 DEF SettingsInv, SettingsTyped
<1>3. ~Dirty /\ (~drifted /\ ~lost /\ S!Quiet => settings = daemon)
  BY <1>1 DEF SettingsInv, ShownAtRest, Dirty
<1>4. /\ settings' \in Config
      /\ filter_editor' # None => filter_editor' = filter_editor
      /\ ~drifted' => ~drifted
      /\ ~drifted' /\ ~lost /\ S!Quiet => settings' = daemon
  <2>1. CASE UNCHANGED <<settings, filter_editor, drifted>>
    BY <1>2, <1>3, <2>1
  <2>2. CASE /\ settings_request.op = "keybindings" /\ filter_editor' = None
             /\ settings' = [settings EXCEPT !.keybindings = settings_request.value]
             /\ drifted' = (drifted \/ (S!Quiet /\ daemon.keybindings # settings_request.value))
    <3>1. settings_request.value \in Bindings
      BY <1>2, <2>2 DEF RequestTyped, ValueOf
    <3>2. ~drifted' => ~drifted /\ (S!Quiet => daemon.keybindings = settings_request.value)
      BY <2>2, Zenon
    <3>3. settings' \in Config
      BY <1>2, <2>2, <3>1 DEF Config
    <3>4. settings = daemon /\ daemon.keybindings = settings_request.value => settings' = daemon
      BY <1>2, <2>2 DEF Config
    <3> QED BY <1>3, <2>2, <3>2, <3>3, <3>4
  <2>3. CASE /\ settings_request.op = "filter list" /\ filter_editor' = None
             /\ settings' = [settings EXCEPT !.playback_filters = settings_request.value]
             /\ drifted' = (drifted
                            \/ (S!Quiet /\ daemon.playback_filters # settings_request.value))
    <3>1. settings_request.value \in S!Filters
      BY <1>2, <2>3 DEF RequestTyped, ValueOf
    <3>2. ~drifted' => ~drifted /\ (S!Quiet => daemon.playback_filters = settings_request.value)
      BY <2>3, Zenon
    <3>3. settings' \in Config
      BY <1>2, <2>3, <3>1 DEF Config
    <3>4. settings = daemon /\ daemon.playback_filters = settings_request.value =>
              settings' = daemon
      BY <1>2, <2>3 DEF Config
    <3> QED BY <1>3, <2>3, <3>2, <3>3, <3>4
  <2> QED BY <1>2, <2>1, <2>2, <2>3 DEF S!HandlesReply, S!editors, Setters
<1>5. SettingsTyped'
  BY <1>1, <1>4 DEF SettingsInv, SettingsTyped
<1>6. Emissions' /\ NewestIsLast'
  BY <1>1, <1>4 DEF SettingsInv, Emissions, NewestIsLast
<1>7. ShownAtRest'
  BY <1>1, <1>4 DEF ShownAtRest, S!Quiet
<1> QED BY <1>5, <1>6, <1>7 DEF SettingsInv

LEMMA SettingsStep == SettingsInv /\ [S!Next]_varsS => SettingsInv'
<1> SUFFICES ASSUME SettingsInv, [S!Next]_varsS
             PROVE  SettingsInv'
  OBVIOUS
<1>1. CASE S!Next
  BY <1>1, AdjustStep, ReadsChangeStep, EditorStep, SavesEditorStep, PersistStep,
     FailsToSaveStep, ChangedElsewhereStep, ReadsConfigStep, EmitStep, ApplyStep,
     HandlesReplyStep DEF S!Next
<1>2. CASE UNCHANGED varsS
  BY <1>2 DEF varsS, SettingsInv, SettingsTyped, RequestTyped, Emissions, NewestIsLast,
     ShownAtRest, Dirty, S!Quiet
<1> QED BY <1>1, <1>2

LEMMA SettingsAtRest == SettingsInv => S!QuietSettingsAreConfig
BY DEF SettingsInv, ShownAtRest, Dirty, S!QuietSettingsAreConfig

(***************************************************************************)
(* The Playlists page (PlaylistsPage, as P): the pane shows the playlist   *)
(* it was loaded from, without the songs the picker has added since,       *)
(* unless the history says otherwise, but while a removal or a move is     *)
(* under way, whose answer, if still fresh, is what the server has.        *)
(***************************************************************************)
Cursors == Nat \cup {None}

ListsTyped ==
    /\ server \in [Playlists -> Seq(Songs)]
    /\ order \in Seq(Playlists) /\ mirror \in Seq(Playlists)
    /\ events \in Seq(Seq(Playlists))

PaneTyped ==
    /\ songs \in Seq(Songs)
    /\ selected_playlist \in Cursors /\ selected_song \in Cursors
    /\ selected_song # None => selected_song < Len(songs)
    /\ shown \in Playlists \cup {None}

Picks == [song : Songs, at : Nat]

Asks(r) ==
    /\ r \in P!Requests
    /\ r.op # "queue" => r.id \in Playlists
    /\ r.op = "remove" => r.at \in Nat
    /\ r.op = "load" => r.phase \in {"sent", "loaded", "done"}

AsksTyped ==
    /\ picker # None => picker \in Picks
    /\ request # None => Asks(request)

(* An answer that no edit has overtaken is what the server has.            *)
AnswerIsServer ==
    request # None /\ request.fresh /\ request.phase \in {"loaded", "done"}
        /\ request.op \in P!Edits \cup {"load"} =>
            request.reply = server[request.id]

PaneIsServer ==
    ~disturbed /\ (request = None \/ request.op \notin {"remove", "reorder"}) =>
        songs \o added = IF shown = None THEN <<>> ELSE server[shown]

AddedTyped == added \in Seq(Songs)

PlaylistsInv ==
    ListsTyped /\ PaneTyped /\ AsksTyped /\ AddedTyped /\ AnswerIsServer /\ PaneIsServer

LEMMA ConcatFacts ==
    /\ \A list \in Seq(Songs) : list \o <<>> = list
    /\ \A l1, l2, l3 \in Seq(Songs) : (l1 \o l2) \o l3 = l1 \o (l2 \o l3)
BY ConcatEmptySeq, ConcatAssociative

LEMMA WithoutRowFacts ==
    ASSUME NEW T, NEW list \in Seq(T), NEW i \in Nat, i < Len(list)
    PROVE  P!WithoutRow(list, i) \in Seq(T) /\ Len(P!WithoutRow(list, i)) = Len(list) - 1
<1> DEFINE front == SubSeq(list, 1, i)
           back == SubSeq(list, i + 2, Len(list))
<1>1. front \in Seq(T) /\ Len(front) = i
  BY SubSeqProperties, LenProperties, ElementOfSeq
<1>2. back \in Seq(T) /\ Len(back) = Len(list) - (i + 1)
  BY SubSeqProperties, LenProperties, ElementOfSeq
<1>3. P!WithoutRow(list, i) = front \o back
  BY DEF P!WithoutRow
<1> HIDE DEF front, back
<1>4. front \o back \in Seq(T) /\ Len(front \o back) = Len(front) + Len(back)
  BY <1>1, <1>2, ConcatProperties
<1>5. Len(list) \in Nat
  BY LenProperties
<1> QED BY <1>1, <1>2, <1>3, <1>4, <1>5

LEMMA SwapRowsFacts ==
    ASSUME NEW T, NEW list \in Seq(T), NEW i \in 0..(Len(list) - 1), NEW j \in 0..(Len(list) - 1)
    PROVE  P!SwapRows(list, i, j) \in Seq(T) /\ Len(P!SwapRows(list, i, j)) = Len(list)
<1>1. /\ Len(list) \in Nat /\ i + 1 \in 1..Len(list) /\ j + 1 \in 1..Len(list)
      /\ list[i + 1] \in T /\ list[j + 1] \in T
  BY LenProperties, ElementOfSeq
<1> DEFINE one == [list EXCEPT ![i + 1] = list[j + 1]]
<1>2. one \in Seq(T) /\ Len(one) = Len(list)
  BY <1>1, ExceptSeq
<1>3. P!SwapRows(list, i, j) = [one EXCEPT ![j + 1] = list[i + 1]]
  BY DEF P!SwapRows
<1> HIDE DEF one
<1> QED BY <1>1, <1>2, <1>3, ExceptSeq

LEMMA NoneIsNoNumber == None \notin Nat /\ None \notin Playlists
BY TuiAssumption DEF TuiAssumption

LEMMA ClampFacts ==
    ASSUME NEW c \in Cursors, NEW len \in Nat
    PROVE  /\ P!clamp_selection(c, len) \in Cursors
           /\ P!clamp_selection(c, len) # None => P!clamp_selection(c, len) < len
<1>1. CASE c = None
  BY <1>1 DEF P!clamp_selection, Cursors
<1>2. CASE c # None
  BY <1>2, NoneIsNoNumber DEF P!clamp_selection, Cursors
<1> QED BY <1>1, <1>2

LEMMA MoveFacts ==
    ASSUME NEW T, NEW list \in Seq(T), NEW c \in Cursors
    PROVE  /\ P!MoveUp(c, list) \in Cursors /\ P!MoveDown(c, list) \in Cursors
           /\ (c # None => c < Len(list)) =>
                  /\ P!MoveUp(c, list) # None => P!MoveUp(c, list) < Len(list)
                  /\ P!MoveDown(c, list) # None => P!MoveDown(c, list) < Len(list)
<1>1. Len(list) \in Nat /\ (list # <<>> => Len(list) > 0)
  BY EmptySeq, LenProperties
<1>2. CASE c = None
  BY <1>1, <1>2 DEF P!MoveUp, P!MoveDown, P!First, Cursors
<1>3. CASE c # None
  <2>1. c \in Nat
    BY <1>3 DEF Cursors
  <2>2. P!MoveUp(c, list) \in Nat /\ P!MoveUp(c, list) <= c
    BY <1>3, <2>1 DEF P!MoveUp
  <2>3. P!MoveDown(c, list) \in Nat /\ (c < Len(list) => P!MoveDown(c, list) < Len(list))
    BY <1>1, <1>3, <2>1 DEF P!MoveDown
  <2>4. c < Len(list) => P!MoveUp(c, list) < Len(list)
    BY <1>1, <2>1, <2>2
  <2> QED BY <1>3, <2>2, <2>3, <2>4 DEF Cursors
<1> QED BY <1>2, <1>3

LEMMA RowFacts ==
    ASSUME NEW T, NEW list \in Seq(T), NEW c \in Cursors, P!HasRow(list, c)
    PROVE  P!Row(list, c) \in T
<1>1. c + 1 \in 1..Len(list)
  BY LenProperties DEF P!HasRow, Cursors
<1> QED BY <1>1, ElementOfSeq DEF P!Row

LEMMA HighlightedFacts ==
    ASSUME PlaylistsInv, P!Highlighted # None
    PROVE  P!Highlighted \in Playlists
BY RowFacts DEF PlaylistsInv, ListsTyped, PaneTyped, P!Highlighted

Sent(r, op) == Asks(r) /\ r # None /\ r.op = op /\ r.phase = "sent"

LEMMA AskingFacts ==
    ASSUME NEW op \in {"load", "rename", "delete"}, NEW p \in Playlists
    PROVE  Sent(P!Asking(op, p), op)
<1> DEFINE r == P!Asking(op, p)
<1>1. r \in P!Requests /\ r.op = op /\ r.id = p /\ r.phase = "sent"
  BY EmptySeq DEF P!Asking, P!Requests
<1>2. r # None
  BY <1>1, TuiAssumption DEF TuiAssumption
<1> HIDE DEF r
<1> QED BY <1>1, <1>2 DEF Asks, Sent, r

LEMMA AskingAtFacts ==
    ASSUME NEW p \in Playlists, NEW at \in Nat
    PROVE  Sent([P!Asking("remove", p) EXCEPT !.at = at], "remove")
<1> DEFINE r == [P!Asking("remove", p) EXCEPT !.at = at]
<1>1. r \in P!Requests /\ r.op = "remove" /\ r.id = p /\ r.at = at /\ r.phase = "sent"
  BY EmptySeq DEF P!Asking, P!Requests
<1>2. r # None
  BY <1>1, TuiAssumption DEF TuiAssumption
<1> HIDE DEF r
<1> QED BY <1>1, <1>2 DEF Asks, Sent, r

LEMMA AskingIdsFacts ==
    ASSUME NEW op \in {"reorder", "add"}, NEW p \in Playlists, NEW ids \in Seq(Songs)
    PROVE  Sent([P!Asking(op, p) EXCEPT !.ids = ids], op)
<1> DEFINE r == [P!Asking(op, p) EXCEPT !.ids = ids]
<1>1. r \in P!Requests /\ r.op = op /\ r.id = p /\ r.phase = "sent"
  BY EmptySeq DEF P!Asking, P!Requests
<1>2. r # None
  BY <1>1, TuiAssumption DEF TuiAssumption
<1> HIDE DEF r
<1> QED BY <1>1, <1>2 DEF Asks, Sent, r

LEMMA PlaylistsInvInit == P!Init => PlaylistsInv
<1> SUFFICES ASSUME P!Init
             PROVE  PlaylistsInv
  OBVIOUS
<1>1. server \in [Playlists -> Seq(Songs)]
  BY TuiAssumption DEF P!Init, TuiAssumption
<1>2. order \in Seq(Playlists)
  <2>1. P!Cardinality(Playlists) = Cardinality(Playlists)
    BY DEF P!Cardinality, Cardinality
  <2>2. Cardinality(Playlists) \in Nat
    BY TuiAssumption, FS_CardinalityType DEF TuiAssumption
  <2>3. order \in [1..Cardinality(Playlists) -> Playlists]
    BY <2>1 DEF P!Init, P!SetToSeqs
  <2> QED BY <2>2, <2>3
<1>3. ListsTyped
  BY <1>1, <1>2, EmptySeq DEF P!Init, ListsTyped
<1>4. PaneTyped
  BY EmptySeq DEF P!Init, PaneTyped, Cursors
<1>5. AddedTyped /\ PaneIsServer
  BY EmptySeq, ConcatFacts DEF P!Init, AddedTyped, PaneIsServer
<1> QED BY <1>3, <1>4, <1>5 DEF P!Init, PlaylistsInv, AsksTyped, AnswerIsServer

(* The lists on the server, on the screen and in the events.               *)
LEMMA WithoutFacts ==
    ASSUME ListsTyped, NEW p
    PROVE  P!Without(p) \in Seq(Playlists)
<1> DEFINE i == CHOOSE k \in DOMAIN order : order[k] = p
<1>1. CASE P!Exists(p)
  <2>1. i \in DOMAIN order
    BY <1>1 DEF P!Exists
  <2>2. i \in 1..Len(order) /\ Len(order) \in Nat
    BY <2>1, LenProperties DEF ListsTyped
  <2>3. P!Without(p) = P!WithoutRow(order, i - 1)
    BY <1>1 DEF P!Without
  <2> HIDE DEF i
  <2>4. i - 1 \in Nat /\ i - 1 < Len(order)
    BY <2>2
  <2> QED BY <2>3, <2>4, WithoutRowFacts DEF ListsTyped
<1>2. CASE ~P!Exists(p)
  BY <1>2 DEF P!Without, ListsTyped
<1> QED BY <1>1, <1>2

LEMMA AppliedStep ==
    ASSUME PlaylistsInv, request # None, request.op # "queue", P!Applied
    PROVE  /\ server' \in [Playlists -> Seq(Songs)] /\ order' \in Seq(Playlists)
           /\ request.op \notin P!Edits => server' = server
           /\ \A p \in Playlists : p # request.id => server'[p] = server[p]
<1>1. Asks(request) /\ request.id \in Playlists
  BY DEF PlaylistsInv, AsksTyped, Asks
<1>2. server \in [Playlists -> Seq(Songs)] /\ order \in Seq(Playlists)
  BY DEF PlaylistsInv, ListsTyped
<1>3. request.op \in P!Edits => P!Edited(server[request.id]) \in Seq(Songs)
  <2> DEFINE list == server[request.id]
  <2>1. list \in Seq(Songs)
    BY <1>1, <1>2
  <2> HIDE DEF list
  <2>2. ASSUME request.op = "remove"
        PROVE  P!Edited(list) \in Seq(Songs)
    <3>1. request.at \in Nat
      BY <1>1, <2>2 DEF Asks
    <3>2. P!Edited(list) = IF request.at < Len(list) THEN P!WithoutRow(list, request.at) ELSE list
      BY <2>2 DEF P!Edited
    <3> QED BY <2>1, <3>1, <3>2, WithoutRowFacts
  <2>3. ASSUME request.op = "reorder" \/ request.op = "add"
        PROVE  P!Edited(list) \in Seq(Songs)
    <3>1. request.ids \in Seq(Songs)
      BY <1>1 DEF Asks, P!Requests
    <3>2. list \o request.ids \in Seq(Songs)
      BY <2>1, <3>1, ConcatProperties
    <3> QED BY <2>3, <3>1, <3>2 DEF P!Edited
  <2>4. request.op \in P!Edits => P!Edited(list) \in Seq(Songs)
    BY <2>2, <2>3 DEF P!Edits
  <2> QED BY <2>4 DEF list
<1>4. order' \in Seq(Playlists)
  <2>1. CASE request.op = "rename"
    <3>1. order' \in [DOMAIN order -> P!ToSet(order)]
      BY <2>1 DEF P!Applied, P!Reorderings
    <3>2. P!ToSet(order) \subseteq Playlists
      BY <1>2, ElementOfSeq, LenProperties DEF P!ToSet
    <3>3. order' \in [1..Len(order) -> Playlists] /\ Len(order) \in Nat
      BY <1>2, <3>1, <3>2, LenProperties
    <3> QED BY <3>3
  <2>2. CASE request.op = "delete"
    BY <2>2, WithoutFacts DEF P!Applied, PlaylistsInv
  <2>3. CASE request.op \notin {"rename", "delete"}
    BY <1>2, <2>3 DEF P!Applied
  <2> QED BY <2>1, <2>2, <2>3
<1>5. CASE request.op \in P!Edits
  BY <1>1, <1>2, <1>3, <1>4, <1>5 DEF P!Applied
<1>6. CASE request.op \notin P!Edits
  BY <1>2, <1>4, <1>6 DEF P!Applied
<1> QED BY <1>5, <1>6

LEMMA EditElsewhereLists ==
    ASSUME PlaylistsInv, P!EditElsewhere
    PROVE  server' \in [Playlists -> Seq(Songs)] /\ order' \in Seq(Playlists)
<1>1. server \in [Playlists -> Seq(Songs)] /\ order \in Seq(Playlists) /\ ListsTyped
  BY DEF PlaylistsInv, ListsTyped
<1>2. PICK p \in P!ToSet(order) :
          \/ order' = P!Without(p) /\ server' = server
          \/ /\ server[p] # <<>>
             /\ server' = [server EXCEPT ![p] = P!Front(server[p])]
             /\ order' = order
  BY DEF P!EditElsewhere
<1>3. p \in Playlists
  BY <1>1, ElementOfSeq, LenProperties DEF P!ToSet
<1>4. P!Front(server[p]) \in Seq(Songs)
  <2>1. server[p] \in Seq(Songs)
    BY <1>1, <1>3
  <2>2. Len(server[p]) - 1 \in Int /\ \A i \in 1..(Len(server[p]) - 1) : server[p][i] \in Songs
    BY <2>1, LenProperties, ElementOfSeq
  <2> QED BY <2>2, SubSeqProperties DEF P!Front
<1> QED BY <1>1, <1>2, <1>3, <1>4, WithoutFacts

LEMMA ListsStep ==
    ASSUME PlaylistsInv, P!Next
    PROVE  ListsTyped'
<1>1. /\ server \in [Playlists -> Seq(Songs)]
      /\ order \in Seq(Playlists) /\ mirror \in Seq(Playlists)
      /\ events \in Seq(Seq(Playlists))
  BY DEF PlaylistsInv, ListsTyped
<1>2. CASE UNCHANGED <<server, order, mirror, events>>
  BY <1>1, <1>2 DEF ListsTyped
<1>3. CASE P!ServerCall \/ P!ServerCallFails
  <2>1. /\ UNCHANGED <<mirror, events>> /\ request # None /\ request.op # "queue"
        /\ P!Applied \/ UNCHANGED <<server, order>>
    BY <1>3 DEF P!ServerCall, P!ServerCallFails
  <2> QED BY <1>1, <2>1, AppliedStep DEF ListsTyped
<1>4. CASE P!EditElsewhere
  <2>1. UNCHANGED <<mirror, events>>
    BY <1>4 DEF P!EditElsewhere
  <2> QED BY <1>1, <1>4, <2>1, EditElsewhereLists DEF ListsTyped
<1>5. CASE P!refresh_playlists \/ P!RefreshElsewhere
  <2>1. UNCHANGED <<server, order, mirror>> /\ (events' = Append(events, order) \/ events' = events)
    BY <1>5 DEF P!refresh_playlists, P!RefreshElsewhere, P!Emits
  <2>2. Append(events, order) \in Seq(Seq(Playlists))
    BY <1>1, AppendProperties
  <2> QED BY <1>1, <2>1, <2>2 DEF ListsTyped
<1>6. CASE P!PumpPlaylists
  <2>1. /\ UNCHANGED <<server, order>> /\ events # <<>>
        /\ mirror' = Head(events) /\ events' = Tail(events)
    BY <1>6 DEF P!PumpPlaylists
  <2>2. mirror' \in Seq(Playlists) /\ events' \in Seq(Seq(Playlists))
    BY <1>1, <2>1, HeadTailProperties
  <2> QED BY <1>1, <2>1, <2>2 DEF ListsTyped
<1>7. \/ P!ServerCall \/ P!ServerCallFails \/ P!EditElsewhere
      \/ P!refresh_playlists \/ P!RefreshElsewhere \/ P!PumpPlaylists
      \/ UNCHANGED <<server, order, mirror, events>>
  BY DEF P!Next, P!MovesInPlaylists, P!MovesInSongs, P!SwitchesPane, P!Clicks, P!LoadsPlaylist,
     P!UsesSongs, P!RemovesSong, P!move_playlist_song, P!OpensBox, P!ClosesBox,
     P!handle_playlists_rename_key, P!handle_playlists_delete_confirm_key,
     P!open_playlist_picker, P!handle_playlist_picker_key, P!load_playlist_songs, P!Resumes,
     P!ServerSide
<1> QED BY <1>2, <1>3, <1>4, <1>5, <1>6, <1>7

(* The pane and its cursors.                                               *)
PaneCursors == <<songs, selected_playlist, selected_song, shown>>

LEMMA MovesStep ==
    ASSUME PlaylistsInv, P!MovesInPlaylists \/ P!MovesInSongs \/ P!SwitchesPane \/ P!Clicks
    PROVE  PaneTyped'
<1>1. /\ songs \in Seq(Songs) /\ mirror \in Seq(Playlists)
      /\ selected_playlist \in Cursors /\ selected_song \in Cursors
      /\ selected_song # None => selected_song < Len(songs)
      /\ shown \in Playlists \cup {None}
  BY DEF PlaylistsInv, ListsTyped, PaneTyped
<1>2. UNCHANGED <<songs, shown>>
  BY DEF P!MovesInPlaylists, P!MovesInSongs, P!SwitchesPane, P!Clicks, P!Stay, P!history
<1>3. Len(songs) \in Nat /\ Len(mirror) \in Nat /\ (songs # <<>> => Len(songs) > 0)
  BY <1>1, LenProperties, EmptySeq
<1>4. /\ selected_playlist' \in Cursors /\ selected_song' \in Cursors
      /\ selected_song' # None => selected_song' < Len(songs)
  <2>1. CASE P!MovesInPlaylists
    BY <1>1, <2>1, MoveFacts DEF P!MovesInPlaylists
  <2>2. CASE P!MovesInSongs
    <3>1. /\ UNCHANGED selected_playlist
          /\ selected_song' \in {P!MoveUp(selected_song, songs), P!MoveDown(selected_song, songs)}
      BY <2>2 DEF P!MovesInSongs
    <3>2. /\ P!MoveUp(selected_song, songs) \in Cursors
          /\ P!MoveDown(selected_song, songs) \in Cursors
          /\ P!MoveUp(selected_song, songs) # None => P!MoveUp(selected_song, songs) < Len(songs)
          /\ P!MoveDown(selected_song, songs) # None =>
                 P!MoveDown(selected_song, songs) < Len(songs)
      BY <1>1, MoveFacts
    <3> QED BY <1>1, <3>1, <3>2
  <2>3. CASE P!SwitchesPane
    BY <1>1, <1>3, <2>3 DEF P!SwitchesPane, Cursors
  <2>4. CASE P!Clicks
    BY <1>1, <1>3, <2>4 DEF P!Clicks, Cursors
  <2> QED BY <2>1, <2>2, <2>3, <2>4
<1> QED BY <1>1, <1>2, <1>4 DEF PaneTyped

LEMMA RemovesSongStep ==
    ASSUME PlaylistsInv, P!RemovesSong
    PROVE  PaneTyped' /\ selected_song \in Nat
<1>1. songs \in Seq(Songs) /\ selected_song \in Nat /\ selected_song < Len(songs)
  BY DEF PlaylistsInv, PaneTyped, P!RemovesSong, P!HasRow, Cursors
<1>2. songs' \in Seq(Songs)
  BY <1>1, WithoutRowFacts DEF P!RemovesSong
<1>3. /\ selected_song' \in Cursors
      /\ selected_song' # None => selected_song' < Len(songs')
  <2>1. selected_song' = P!clamp_selection(selected_song, Len(songs'))
    BY DEF P!RemovesSong
  <2>2. selected_song \in Cursors /\ Len(songs') \in Nat
    BY <1>1, <1>2, LenProperties DEF Cursors
  <2> QED BY <2>1, <2>2, ClampFacts
<1>4. UNCHANGED <<selected_playlist, shown>>
  BY DEF P!RemovesSong, P!history
<1> QED BY <1>1, <1>2, <1>3, <1>4 DEF PlaylistsInv, PaneTyped

LEMMA MoveSongStep ==
    ASSUME PlaylistsInv, NEW delta \in {-1, 1}, P!move_playlist_song(delta)
    PROVE  PaneTyped' /\ songs' \in Seq(Songs)
<1>1. /\ songs \in Seq(Songs) /\ selected_song \in Nat
      /\ selected_song \in 0..(Len(songs) - 1)
      /\ selected_song + delta \in 0..(Len(songs) - 1)
  <2>1. songs \in Seq(Songs) /\ selected_song \in Nat /\ selected_song < Len(songs)
    BY DEF PlaylistsInv, PaneTyped, P!move_playlist_song, Cursors
  <2>2. Len(songs) \in Nat
    BY <2>1, LenProperties
  <2> QED BY <2>1, <2>2 DEF P!move_playlist_song
<1>2. songs' \in Seq(Songs) /\ Len(songs') = Len(songs)
  <2>1. songs' = P!SwapRows(songs, selected_song, selected_song + delta)
    BY DEF P!move_playlist_song
  <2> DEFINE j == selected_song + delta
  <2>2. j \in 0..(Len(songs) - 1)
    BY <1>1
  <2>3. songs' = P!SwapRows(songs, selected_song, j)
    BY <2>1
  <2> HIDE DEF j
  <2> QED BY <1>1, <2>2, <2>3, SwapRowsFacts
<1>3. selected_song' \in Nat /\ selected_song' < Len(songs')
  <2>1. selected_song' = selected_song + delta /\ Len(songs) \in Nat
    BY <1>1, LenProperties DEF P!move_playlist_song
  <2> QED BY <1>1, <1>2, <2>1
<1>4. UNCHANGED <<selected_playlist, shown>>
  BY DEF P!move_playlist_song, P!history
<1> QED BY <1>2, <1>3, <1>4 DEF PlaylistsInv, PaneTyped, Cursors

LEMMA ResumesPane ==
    ASSUME PlaylistsInv, P!Resumes
    PROVE  PaneTyped'
<1>1. request # None /\ Asks(request) /\ UNCHANGED selected_playlist
  BY DEF P!Resumes, PlaylistsInv, AsksTyped
<1>2. request.reply \in Seq(Songs)
  BY <1>1 DEF Asks, P!Requests
<1>3. songs \in Seq(Songs) /\ selected_playlist \in Cursors /\ selected_song \in Cursors
  BY DEF PlaylistsInv, PaneTyped
<1>4. CASE UNCHANGED <<songs, selected_song, shown>>
  BY <1>1, <1>4 DEF PlaylistsInv, PaneTyped
<1>5. CASE request.op = "load" /\ P!ShowLoaded
  <2>1. songs' = request.reply /\ selected_song' = P!First(songs') /\ shown' = request.id
    BY <1>5 DEF P!ShowLoaded, P!Loaded
  <2>2. request.id \in Playlists
    BY <1>1, <1>5 DEF Asks
  <2>3. songs' # <<>> => 0 < Len(songs')
    BY <1>2, <2>1, EmptySeq
  <2> QED BY <1>1, <1>2, <1>3, <2>1, <2>2, <2>3 DEF PaneTyped, P!First, Cursors
<1>6. CASE /\ request.op \in {"remove", "reorder"} /\ request.phase = "done"
           /\ P!reconcile_playlist_songs
  <2> DEFINE c == IF selected_song = None THEN 0 ELSE selected_song
  <2>1. /\ songs' = request.reply /\ shown' = request.id
        /\ selected_song' = P!clamp_selection(c, Len(songs'))
    BY <1>6 DEF P!reconcile_playlist_songs, P!Loaded
  <2>2. c \in Cursors /\ request.id \in Playlists
    BY <1>1, <1>3, <1>6 DEF Asks, Cursors
  <2> HIDE DEF c
  <2>3. Len(songs') \in Nat
    BY <1>2, <2>1, LenProperties
  <2>4. /\ selected_song' \in Cursors
        /\ selected_song' # None => selected_song' < Len(songs')
    BY <2>1, <2>2, <2>3, ClampFacts
  <2> QED BY <1>1, <1>2, <1>3, <2>1, <2>2, <2>4 DEF PaneTyped
<1> QED BY <1>4, <1>5, <1>6 DEF P!Resumes, P!reconcile_playlist_songs, P!Loaded, P!history

LEMMA PaneStep ==
    ASSUME PlaylistsInv, P!Next
    PROVE  PaneTyped'
<1>1. CASE P!handle_playlists_delete_confirm_key
  <2>1. /\ UNCHANGED selected_playlist
        /\ \/ UNCHANGED <<songs, selected_song, shown>>
           \/ songs' = <<>> /\ selected_song' = None /\ shown' = None
    BY <1>1 DEF P!handle_playlists_delete_confirm_key, P!Loaded, P!history
  <2> QED BY <2>1, EmptySeq DEF PlaylistsInv, PaneTyped, Cursors
<1>2. CASE UNCHANGED PaneCursors
  BY <1>2 DEF PaneCursors, PlaylistsInv, PaneTyped
<1>3. \/ P!MovesInPlaylists \/ P!MovesInSongs \/ P!SwitchesPane \/ P!Clicks
      \/ P!RemovesSong \/ P!move_playlist_song(1) \/ P!move_playlist_song(-1)
      \/ P!handle_playlists_delete_confirm_key \/ P!Resumes \/ UNCHANGED PaneCursors
  BY DEF P!Next, P!LoadsPlaylist, P!UsesSongs, P!OpensBox, P!ClosesBox,
     P!handle_playlists_rename_key, P!open_playlist_picker, P!handle_playlist_picker_key,
     P!ServerCall, P!ServerCallFails, P!load_playlist_songs, P!refresh_playlists,
     P!RefreshElsewhere, P!EditElsewhere, P!PumpPlaylists, P!Pane, P!cursors, P!history,
     PaneCursors
<1> QED BY <1>1, <1>2, <1>3, MovesStep, RemovesSongStep, MoveSongStep, ResumesPane

(* A key that asks the daemon: the pane it leaves is still the server's,   *)
(* or the request is a removal or a move.                                  *)
Asked == Asks(request') /\ request' # None /\ request'.phase = "sent"

LEMMA SendsStep ==
    ASSUME PlaylistsInv,
           \/ P!LoadsPlaylist \/ P!UsesSongs \/ P!RemovesSong
           \/ P!move_playlist_song(1) \/ P!move_playlist_song(-1)
           \/ P!handle_playlists_rename_key \/ P!handle_playlists_delete_confirm_key
           \/ P!handle_playlist_picker_key
    PROVE  /\ request = None /\ UNCHANGED server
           /\ request' = request \/ Asked
           /\ picker' # None => picker' \in Picks
           /\ \/ UNCHANGED <<songs, shown, added, disturbed>>
              \/ songs' = <<>> /\ shown' = None /\ added' = <<>>
              \/ Asked /\ request'.op \in {"remove", "reorder"}
<1> USE DEF Asked
<1>1. picker # None => picker \in Picks
  BY DEF PlaylistsInv, AsksTyped
<1>2. CASE P!LoadsPlaylist
  <2>1. /\ request = None /\ UNCHANGED <<server, picker, songs, shown, added, disturbed>>
        /\ P!Highlighted # None /\ request' = P!Asking("load", P!Highlighted)
    BY <1>2 DEF P!LoadsPlaylist, P!Free, P!Send, P!ServerSide, P!history
  <2>2. P!Highlighted \in Playlists
    BY <2>1, HighlightedFacts
  <2>3. Asked
    BY <2>1, <2>2, AskingFacts DEF Sent
  <2> QED BY <1>1, <2>1, <2>3
<1>3. CASE P!UsesSongs
  <2>1. /\ request = None /\ UNCHANGED <<server, picker, songs, shown, added, disturbed>>
        /\ request' = P!Asking("queue", None)
    BY <1>3 DEF P!UsesSongs, P!Free, P!Send, P!ServerSide, P!history
  <2>2. request' \in P!Requests /\ request'.op = "queue" /\ request'.phase = "sent"
    BY <2>1, EmptySeq DEF P!Asking, P!Requests
  <2>3. request' # None
    BY <2>2, TuiAssumption DEF TuiAssumption
  <2> QED BY <1>1, <2>1, <2>2, <2>3 DEF Asks
<1>4. CASE P!RemovesSong
  <2>1. /\ request = None /\ UNCHANGED <<server, picker>>
        /\ P!Highlighted # None
        /\ request' = [P!Asking("remove", P!Highlighted) EXCEPT !.at = selected_song]
    BY <1>4 DEF P!RemovesSong, P!Keys, P!Free, P!Send, P!ServerSide
  <2>2. P!Highlighted \in Playlists /\ selected_song \in Nat
    BY <1>4, <2>1, HighlightedFacts, RemovesSongStep
  <2>3. Sent(request', "remove")
    BY <2>1, <2>2, AskingAtFacts
  <2> QED BY <1>1, <2>1, <2>3 DEF Sent
<1>5. ASSUME NEW delta \in {-1, 1}, P!move_playlist_song(delta)
      PROVE  /\ request = None /\ UNCHANGED <<server, picker>>
             /\ Asked /\ request'.op = "reorder"
  <2>1. /\ request = None /\ UNCHANGED <<server, picker>>
        /\ P!Highlighted # None
        /\ request' = [P!Asking("reorder", P!Highlighted) EXCEPT !.ids = songs']
    BY <1>5 DEF P!move_playlist_song, P!Keys, P!Free, P!Send, P!ServerSide
  <2>2. P!Highlighted \in Playlists /\ songs' \in Seq(Songs)
    BY <1>5, <2>1, HighlightedFacts, MoveSongStep
  <2>3. Sent(request', "reorder")
    BY <2>1, <2>2, AskingIdsFacts
  <2> QED BY <2>1, <2>3 DEF Sent
<1>6. CASE P!move_playlist_song(1) \/ P!move_playlist_song(-1)
  BY <1>1, <1>5, <1>6
<1>7. CASE P!handle_playlists_rename_key
  <2>1. /\ request = None /\ UNCHANGED <<server, picker, songs, shown, added, disturbed>>
        /\ \/ request' = request
           \/ P!Highlighted # None /\ request' = P!Asking("rename", P!Highlighted)
    BY <1>7 DEF P!handle_playlists_rename_key, P!Free, P!Send, P!ServerSide, P!history
  <2>2. P!Highlighted # None => Sent(P!Asking("rename", P!Highlighted), "rename")
    BY HighlightedFacts, AskingFacts
  <2>3. request' = request \/ Asked
    BY <2>1, <2>2 DEF Sent
  <2> QED BY <1>1, <2>1, <2>3
<1>8. CASE P!handle_playlists_delete_confirm_key
  <2>1. /\ request = None /\ UNCHANGED <<server, picker>>
        /\ \/ request' = request /\ UNCHANGED <<songs, shown, added, disturbed>>
           \/ /\ P!Highlighted # None /\ request' = P!Asking("delete", P!Highlighted)
              /\ songs' = <<>> /\ shown' = None /\ added' = <<>>
    BY <1>8 DEF P!handle_playlists_delete_confirm_key, P!Loaded, P!Free, P!Send, P!ServerSide,
                P!history
  <2>2. P!Highlighted # None => Sent(P!Asking("delete", P!Highlighted), "delete")
    BY HighlightedFacts, AskingFacts
  <2>3. request' = request \/ Asked
    BY <2>1, <2>2 DEF Sent
  <2> QED BY <1>1, <2>1, <2>3
<1>9. CASE P!handle_playlist_picker_key
  <2>1. /\ request = None /\ UNCHANGED <<server, songs, shown, added, disturbed>> /\ picker # None
    BY <1>9 DEF P!handle_playlist_picker_key, P!Free, P!ServerSide, P!history
  <2>2. picker \in Picks
    BY <2>1, <1>1
  <2>3. /\ [picker EXCEPT !.at = IF @ > 0 THEN @ - 1 ELSE 0] \in Picks
        /\ [picker EXCEPT !.at = IF @ + 1 < Len(mirror) THEN @ + 1 ELSE @] \in Picks
    BY <2>2 DEF Picks
  <2>4. \/ picker' = None /\ UNCHANGED request
        \/ /\ picker' \in {[picker EXCEPT !.at = IF @ > 0 THEN @ - 1 ELSE 0],
                           [picker EXCEPT !.at = IF @ + 1 < Len(mirror) THEN @ + 1 ELSE @]}
           /\ UNCHANGED request
        \/ /\ P!HasRow(mirror, picker.at) /\ picker' = None
           /\ request' = [P!Asking("add", P!Row(mirror, picker.at)) EXCEPT
                              !.ids = <<picker.song>>]
    BY <1>9 DEF P!handle_playlist_picker_key, P!Send
  <2>5. ASSUME P!HasRow(mirror, picker.at),
               request' = [P!Asking("add", P!Row(mirror, picker.at)) EXCEPT
                               !.ids = <<picker.song>>]
        PROVE  Asked
    <3>1. picker.at \in Cursors /\ picker.song \in Songs /\ mirror \in Seq(Playlists)
      BY <2>2 DEF Picks, Cursors, PlaylistsInv, ListsTyped
    <3>2. P!Row(mirror, picker.at) \in Playlists /\ <<picker.song>> \in Seq(Songs)
      BY <2>5, <3>1, RowFacts
    <3>3. Sent(request', "add")
      BY <2>5, <3>2, AskingIdsFacts
    <3> QED BY <3>3 DEF Sent
  <2> QED BY <2>1, <2>3, <2>4, <2>5
<1> QED BY <1>2, <1>3, <1>4, <1>6, <1>7, <1>8, <1>9

(* The daemon's steps and the answer change the phase of the request.      *)
LEMMA PhaseFacts ==
    ASSUME NEW r, Asks(r), NEW to \in {"sent", "edited", "loaded", "done", "error"},
           NEW reply_ \in Seq(Songs)
    PROVE  /\ r.op # "load" => Asks([r EXCEPT !.phase = to])
           /\ to \in {"loaded", "done"} =>
                  /\ Asks([r EXCEPT !.phase = to])
                  /\ Asks([r EXCEPT !.reply = reply_, !.phase = to])
                  /\ Asks([r EXCEPT !.fresh = FALSE, !.phase = to])
           /\ Asks([r EXCEPT !.fresh = FALSE])
BY DEF Asks, P!Requests

LEMMA AsksStep ==
    ASSUME PlaylistsInv, P!Next
    PROVE  AsksTyped'
<1>1. /\ picker # None => picker \in Picks
      /\ request # None => Asks(request)
  BY DEF PlaylistsInv, AsksTyped
<1>2. CASE \/ P!LoadsPlaylist \/ P!UsesSongs \/ P!RemovesSong
           \/ P!move_playlist_song(1) \/ P!move_playlist_song(-1)
           \/ P!handle_playlists_rename_key \/ P!handle_playlists_delete_confirm_key
           \/ P!handle_playlist_picker_key
  BY <1>2, SendsStep DEF AsksTyped, Asked
<1>3. CASE P!open_playlist_picker
  <2>1. UNCHANGED request /\ picker' \in Picks
    BY <1>3 DEF P!open_playlist_picker, Picks
  <2> QED BY <1>1, <2>1 DEF AsksTyped
<1>4. CASE P!ServerCall \/ P!ServerCallFails \/ P!load_playlist_songs \/ P!refresh_playlists
  <2>1. request # None /\ UNCHANGED picker
    BY <1>4 DEF P!ServerCall, P!ServerCallFails, P!load_playlist_songs, P!refresh_playlists, P!Pane
  <2>2. CASE P!ServerCall \/ P!ServerCallFails
    <3>1. \E to \in {"edited", "loaded", "error"} : request' = [request EXCEPT !.phase = to]
      BY <2>2 DEF P!ServerCall, P!ServerCallFails
    <3>2. request.op # "load"
      BY <2>2 DEF P!ServerCall, P!ServerCallFails
    <3>3. ASSUME NEW to \in {"edited", "loaded", "error"}
          PROVE  Asks([request EXCEPT !.phase = to])
      BY <1>1, <2>1, <3>2, PhaseFacts, EmptySeq
    <3>4. Asks(request')
      BY <3>1, <3>3
    <3> QED BY <1>1, <2>1, <3>4 DEF AsksTyped
  <2>3. CASE P!load_playlist_songs
    <3>1. \/ /\ P!Exists(request.id)
             /\ request' = [request EXCEPT !.reply = server[request.id], !.phase = "loaded"]
          \/ request' = [request EXCEPT !.fresh = FALSE, !.phase = "loaded"]
      BY <2>3 DEF P!load_playlist_songs
    <3>2. P!Exists(request.id) => server[request.id] \in Seq(Songs)
      <4>1. P!Exists(request.id) => request.id \in Playlists
        BY ElementOfSeq, LenProperties DEF P!Exists, PlaylistsInv, ListsTyped
      <4> QED BY <4>1 DEF PlaylistsInv, ListsTyped
    <3>3. P!Exists(request.id) =>
              Asks([request EXCEPT !.reply = server[request.id], !.phase = "loaded"])
      BY <1>1, <2>1, <3>2, PhaseFacts
    <3>4. Asks([request EXCEPT !.fresh = FALSE, !.phase = "loaded"])
      BY <1>1, <2>1, PhaseFacts, EmptySeq
    <3> QED BY <1>1, <2>1, <3>1, <3>3, <3>4 DEF AsksTyped
  <2>4. CASE P!refresh_playlists
    <3>1. request' = [request EXCEPT !.phase = "done"]
      BY <2>4 DEF P!refresh_playlists
    <3>2. Asks([request EXCEPT !.phase = "done"])
      BY <1>1, <2>1, PhaseFacts, EmptySeq
    <3> QED BY <1>1, <2>1, <3>1, <3>2 DEF AsksTyped
  <2> QED BY <1>4, <2>2, <2>3, <2>4
<1>5. CASE P!EditElsewhere
  <2>1. /\ UNCHANGED picker
        /\ \/ UNCHANGED request
           \/ request # None /\ request' = [request EXCEPT !.fresh = FALSE]
    BY <1>5 DEF P!EditElsewhere, P!Pane
  <2>2. request # None => Asks([request EXCEPT !.fresh = FALSE])
    BY <1>1, PhaseFacts, EmptySeq
  <2> QED BY <1>1, <2>1, <2>2 DEF AsksTyped
<1>6. CASE UNCHANGED picker /\ (request' = None \/ UNCHANGED request)
  BY <1>1, <1>6 DEF AsksTyped
<1>7. \/ P!LoadsPlaylist \/ P!UsesSongs \/ P!RemovesSong
      \/ P!move_playlist_song(1) \/ P!move_playlist_song(-1)
      \/ P!handle_playlists_rename_key \/ P!handle_playlists_delete_confirm_key
      \/ P!handle_playlist_picker_key \/ P!open_playlist_picker
      \/ P!ServerCall \/ P!ServerCallFails \/ P!load_playlist_songs \/ P!refresh_playlists
      \/ P!EditElsewhere
      \/ UNCHANGED picker /\ (request' = None \/ UNCHANGED request)
  BY DEF P!Next, P!MovesInPlaylists, P!MovesInSongs, P!SwitchesPane, P!Clicks, P!Stay,
     P!OpensBox, P!ClosesBox, P!RefreshElsewhere, P!Resumes, P!PumpPlaylists, P!Pane
<1> QED BY <1>2, <1>3, <1>4, <1>5, <1>6, <1>7

LEMMA EditElsewhereFacts ==
    ASSUME PlaylistsInv, P!EditElsewhere
    PROVE  /\ UNCHANGED <<songs, shown>>
           /\ request # None <=> request' # None
           /\ request # None => /\ request'.op = request.op /\ request'.id = request.id
                                /\ request'.phase = request.phase /\ request'.reply = request.reply
                                /\ request'.fresh => request.fresh
           /\ UNCHANGED added
           /\ \/ UNCHANGED <<server, disturbed>>
              \/ \E p \in Playlists :
                     /\ \A q \in Playlists \ {p} : server'[q] = server[q]
                     /\ p = shown => disturbed'
                     /\ ~disturbed' => ~disturbed
                     /\ request # None /\ request.id = p
                            /\ request.phase \notin {"sent", "edited"} => ~request'.fresh
<1>1. PICK p \in P!ToSet(order) :
          \/ UNCHANGED <<server, request, disturbed>>
          \/ /\ server' = [server EXCEPT ![p] = P!Front(server[p])]
             /\ disturbed' = (disturbed \/ p = shown)
             /\ request' = IF request # None /\ request.id = p
                              /\ request.phase \notin {"sent", "edited"}
                           THEN [request EXCEPT !.fresh = FALSE] ELSE request
  BY DEF P!EditElsewhere
<1>2. UNCHANGED <<songs, shown, added>>
  BY DEF P!EditElsewhere, P!Pane
<1>3. CASE UNCHANGED <<server, request, disturbed>>
  BY <1>2, <1>3
<1>4. CASE /\ server' = [server EXCEPT ![p] = P!Front(server[p])]
           /\ disturbed' = (disturbed \/ p = shown)
           /\ request' = IF request # None /\ request.id = p
                            /\ request.phase \notin {"sent", "edited"}
                         THEN [request EXCEPT !.fresh = FALSE] ELSE request
  <2>1. p \in Playlists
    BY ElementOfSeq, LenProperties DEF P!ToSet, PlaylistsInv, ListsTyped
  <2>2. \A q \in Playlists \ {p} : server'[q] = server[q]
    BY <1>4 DEF PlaylistsInv, ListsTyped
  <2>3. (p = shown => disturbed') /\ (~disturbed' => ~disturbed)
    BY <1>4, Zenon
  <2>4. request # None => request \in P!Requests
    BY DEF PlaylistsInv, AsksTyped, Asks
  <2>5. request # None => [request EXCEPT !.fresh = FALSE] \in P!Requests
    BY <2>4 DEF P!Requests
  <2>6. None \notin P!Requests
    BY TuiAssumption DEF TuiAssumption
  <2>7. ASSUME request # None
        PROVE  LET r == [request EXCEPT !.fresh = FALSE]
               IN  /\ r.op = request.op /\ r.id = request.id /\ r.phase = request.phase
                   /\ r.reply = request.reply /\ r.fresh = FALSE
    BY <2>4, <2>7 DEF P!Requests
  <2>8. /\ request # None <=> request' # None
        /\ request # None => /\ request'.op = request.op /\ request'.id = request.id
                             /\ request'.phase = request.phase /\ request'.reply = request.reply
                             /\ request'.fresh => request.fresh
        /\ request # None /\ request.id = p
               /\ request.phase \notin {"sent", "edited"} => ~request'.fresh
    <3> DEFINE r == [request EXCEPT !.fresh = FALSE]
    <3>1. CASE request # None /\ request.id = p /\ request.phase \notin {"sent", "edited"}
      <4>1. request' = r
        BY <1>4, <3>1
      <4>2. r # None /\ r.op = request.op /\ r.id = request.id /\ r.phase = request.phase
            /\ r.reply = request.reply /\ r.fresh = FALSE
        BY <2>5, <2>6, <2>7, <3>1
      <4> HIDE DEF r
      <4> QED BY <3>1, <4>1, <4>2
    <3>2. CASE ~(request # None /\ request.id = p /\ request.phase \notin {"sent", "edited"})
      <4>1. request' = request
        BY <1>4, <3>2
      <4> QED BY <3>2, <4>1
    <3> QED BY <3>1, <3>2
  <2> QED BY <1>2, <2>1, <2>2, <2>3, <2>8
<1> QED BY <1>1, <1>3, <1>4

Sends ==
    \/ P!LoadsPlaylist \/ P!UsesSongs \/ P!RemovesSong
    \/ P!move_playlist_song(1) \/ P!move_playlist_song(-1)
    \/ P!handle_playlists_rename_key \/ P!handle_playlists_delete_confirm_key
    \/ P!handle_playlist_picker_key

LEMMA AnswerStep ==
    ASSUME PlaylistsInv, P!Next
    PROVE  AnswerIsServer'
<1>1. /\ AnswerIsServer /\ server \in [Playlists -> Seq(Songs)]
      /\ request # None => Asks(request)
  BY DEF PlaylistsInv, ListsTyped, AsksTyped
<1>2. CASE Sends
  <2>1. request = None /\ (request' = request \/ Asked)
    BY <1>2, SendsStep DEF Sends
  <2> QED BY <2>1 DEF AnswerIsServer, Asked
<1>3. CASE P!ServerCall \/ P!ServerCallFails
  <2>1. /\ request # None
        /\ \/ request' = [request EXCEPT !.phase = "edited"]
           \/ request' = [request EXCEPT !.phase = "error"]
           \/ /\ request' = [request EXCEPT !.phase = "loaded"]
              /\ request.op \notin P!Edits \cup {"load"}
    BY <1>3 DEF P!ServerCall, P!ServerCallFails
  <2>2. request \in P!Requests
    BY <1>1, <2>1 DEF Asks
  <2>3. \/ request'.phase \in {"edited", "error"}
        \/ request'.op \notin P!Edits \cup {"load"}
    BY <2>1, <2>2 DEF P!Requests
  <2> QED BY <2>3 DEF AnswerIsServer
<1>4. CASE P!load_playlist_songs
  <2>1. /\ request # None /\ UNCHANGED server
        /\ \/ request' = [request EXCEPT !.reply = server[request.id], !.phase = "loaded"]
           \/ request' = [request EXCEPT !.fresh = FALSE, !.phase = "loaded"]
    BY <1>4 DEF P!load_playlist_songs
  <2>2. request \in P!Requests
    BY <1>1, <2>1 DEF Asks
  <2>3. \/ request'.reply = server[request.id] /\ request'.id = request.id
        \/ ~request'.fresh
    BY <2>1, <2>2 DEF P!Requests
  <2> QED BY <2>1, <2>3 DEF AnswerIsServer
<1>5. CASE P!refresh_playlists
  <2>1. /\ request # None /\ request.phase = "loaded" /\ UNCHANGED server
        /\ request' = [request EXCEPT !.phase = "done"]
    BY <1>5 DEF P!refresh_playlists
  <2>2. request \in P!Requests
    BY <1>1, <2>1 DEF Asks
  <2>3. /\ request'.reply = request.reply /\ request'.id = request.id
        /\ request'.fresh = request.fresh /\ request'.op = request.op
    BY <2>1, <2>2 DEF P!Requests
  <2> QED BY <1>1, <2>1, <2>3 DEF AnswerIsServer
<1>6. CASE P!EditElsewhere
  <2>1. SUFFICES ASSUME request' # None, request'.fresh, request'.phase \in {"loaded", "done"},
                        request'.op \in P!Edits \cup {"load"}
                 PROVE  request'.reply = server'[request'.id]
    BY DEF AnswerIsServer
  <2>2. /\ request # None /\ request.fresh /\ request.phase \in {"loaded", "done"}
        /\ request.op \in P!Edits \cup {"load"}
        /\ request'.reply = request.reply /\ request'.id = request.id
    BY <1>6, <2>1, EditElsewhereFacts
  <2>3. request.reply = server[request.id] /\ request.id \in Playlists
    BY <1>1, <2>2 DEF AnswerIsServer, Asks, P!Edits
  <2>4. server'[request.id] = server[request.id]
    BY <1>6, <2>1, <2>2, <2>3, EditElsewhereFacts
  <2> QED BY <2>2, <2>3, <2>4
<1>7. CASE UNCHANGED server /\ (request' = None \/ UNCHANGED request)
  BY <1>1, <1>7 DEF AnswerIsServer
<1>8. \/ Sends \/ P!ServerCall \/ P!ServerCallFails \/ P!load_playlist_songs
      \/ P!refresh_playlists \/ P!EditElsewhere
      \/ UNCHANGED server /\ (request' = None \/ UNCHANGED request)
  BY DEF P!Next, Sends, P!MovesInPlaylists, P!MovesInSongs, P!SwitchesPane, P!Clicks, P!Stay,
     P!OpensBox, P!ClosesBox, P!open_playlist_picker, P!RefreshElsewhere, P!Resumes,
     P!PumpPlaylists, P!Pane, P!ServerSide
<1> QED BY <1>2, <1>3, <1>4, <1>5, <1>6, <1>7, <1>8

LEMMA ServerCallPane ==
    ASSUME PlaylistsInv, P!ServerCall \/ P!ServerCallFails
    PROVE  PaneIsServer'
<1>1. /\ request # None /\ UNCHANGED <<songs, shown>>
      /\ \/ UNCHANGED <<server, added, disturbed>>
         \/ P!Applied /\ disturbed' = (disturbed \/ P!AddsToPane) /\ UNCHANGED added
         \/ /\ P!Applied /\ UNCHANGED disturbed
            /\ added' = IF P!AddsToPane THEN added \o request.ids ELSE added
      /\ \E to \in {"edited", "loaded", "error"} : request' = [request EXCEPT !.phase = to]
      /\ request.op # "queue"
  BY DEF P!ServerCall, P!ServerCallFails, P!Pane
<1>2. Asks(request)
  BY <1>1 DEF PlaylistsInv, AsksTyped
<1>3. request' # None /\ request'.op = request.op
  <2>1. PICK to \in {"edited", "loaded", "error"} : request' = [request EXCEPT !.phase = to]
    BY <1>1
  <2>2. request' \in P!Requests /\ request'.op = request.op
    BY <1>2, <2>1 DEF Asks, P!Requests
  <2> QED BY <2>2, TuiAssumption DEF TuiAssumption
<1>4. SUFFICES ASSUME ~disturbed', request.op \notin {"remove", "reorder"}
               PROVE  songs' \o added' = IF shown' = None THEN <<>> ELSE server'[shown']
  BY <1>3 DEF PaneIsServer
<1>5. CASE UNCHANGED <<server, added, disturbed>>
  BY <1>1, <1>4, <1>5 DEF PlaylistsInv, PaneIsServer
<1>6. ASSUME P!Applied, ~disturbed
      PROVE  /\ songs \o added = IF shown = None THEN <<>> ELSE server[shown]
             /\ ~P!AddsToPane /\ shown # None => server'[shown] = server[shown]
  <2>2. songs \o added = IF shown = None THEN <<>> ELSE server[shown]
    BY <1>4, <1>6 DEF PlaylistsInv, PaneIsServer
  <2>3. ASSUME ~P!AddsToPane, shown # None
        PROVE  server'[shown] = server[shown]
    <3>1. shown \in Playlists \cup {None}
      BY DEF PlaylistsInv, PaneTyped
    <3>2. CASE request.op = "add"
      <4>1. request.id # shown
        BY <2>3, <3>2 DEF P!AddsToPane
      <4> QED BY <1>1, <1>6, <2>3, <3>1, <4>1, AppliedStep
    <3>3. CASE request.op # "add"
      <4>1. request.op \notin P!Edits
        BY <1>4, <3>3 DEF P!Edits
      <4> QED BY <1>1, <1>6, <4>1, AppliedStep
    <3> QED BY <3>2, <3>3
  <2> QED BY <2>2, <2>3
<1>7. CASE P!Applied /\ disturbed' = (disturbed \/ P!AddsToPane) /\ UNCHANGED added
  <2>1. ~disturbed /\ ~P!AddsToPane
    BY <1>4, <1>7, Zenon
  <2> QED BY <1>1, <1>6, <1>7, <2>1
<1>8. CASE /\ P!Applied /\ UNCHANGED disturbed
           /\ added' = IF P!AddsToPane THEN added \o request.ids ELSE added
  <2>1. ~disturbed
    BY <1>4, <1>8
  <2>2. CASE ~P!AddsToPane
    BY <1>1, <1>6, <1>8, <2>1, <2>2
  <2>3. CASE P!AddsToPane
    <3>1. request.op = "add" /\ request.id = shown /\ shown \in Playlists /\ shown # None
      BY <1>2, <2>3, NoneIsNoNumber DEF P!AddsToPane, Asks
    <3>2. server'[shown] = server[shown] \o request.ids
      BY <1>8, <3>1 DEF P!Applied, P!Edits, P!Edited, PlaylistsInv, ListsTyped
    <3>3. songs \in Seq(Songs) /\ added \in Seq(Songs) /\ request.ids \in Seq(Songs)
      BY <1>2 DEF Asks, P!Requests, PlaylistsInv, PaneTyped, AddedTyped
    <3>4. (songs \o added) \o request.ids = songs \o added'
      BY <1>8, <2>3, <3>3, ConcatFacts
    <3>5. songs \o added = server[shown]
      BY <1>6, <1>8, <2>1, <3>1
    <3> QED BY <1>1, <3>1, <3>2, <3>4, <3>5
  <2> QED BY <2>2, <2>3
<1> QED BY <1>1, <1>5, <1>7, <1>8

LEMMA AddedStep ==
    ASSUME PlaylistsInv, P!Next
    PROVE  AddedTyped'
<1>1. \/ added' = added \/ added' = <<>>
      \/ request # None /\ added' = added \o request.ids
  BY DEF P!Next, P!MovesInPlaylists, P!MovesInSongs, P!SwitchesPane, P!Clicks, P!Stay,
     P!LoadsPlaylist, P!UsesSongs, P!RemovesSong, P!move_playlist_song,
     P!OpensBox, P!ClosesBox, P!handle_playlists_rename_key, P!open_playlist_picker,
     P!handle_playlists_delete_confirm_key, P!handle_playlist_picker_key, P!ServerCall,
     P!ServerCallFails, P!load_playlist_songs, P!refresh_playlists, P!RefreshElsewhere,
     P!EditElsewhere, P!Resumes, P!ShowLoaded, P!reconcile_playlist_songs, P!Loaded,
     P!PumpPlaylists, P!history
<1>2. request # None => request.ids \in Seq(Songs)
  BY DEF PlaylistsInv, AsksTyped, Asks, P!Requests
<1>3. added \in Seq(Songs)
  BY DEF PlaylistsInv, AddedTyped
<1>4. CASE added' = added
  BY <1>3, <1>4 DEF AddedTyped
<1>5. CASE added' = <<>>
  BY <1>5, EmptySeq DEF AddedTyped
<1>6. CASE request # None /\ added' = added \o request.ids
  <2>1. added \o request.ids \in Seq(Songs)
    BY <1>2, <1>3, <1>6, ConcatProperties
  <2> QED BY <1>6, <2>1 DEF AddedTyped
<1> QED BY <1>1, <1>4, <1>5, <1>6

LEMMA PaneIsServerStep ==
    ASSUME PlaylistsInv, P!Next
    PROVE  PaneIsServer'
<1>1. PaneIsServer /\ shown \in Playlists \cup {None}
  BY DEF PlaylistsInv, PaneTyped
<1>2. CASE Sends
  <2>1. /\ request = None /\ UNCHANGED server
        /\ \/ UNCHANGED <<songs, shown, added, disturbed>>
           \/ songs' = <<>> /\ shown' = None /\ added' = <<>>
           \/ Asked /\ request'.op \in {"remove", "reorder"}
    BY <1>2, SendsStep DEF Sends
  <2>2. <<>> \o <<>> = <<>>
    BY EmptySeq, ConcatFacts
  <2> QED BY <1>1, <2>1, <2>2 DEF PaneIsServer, Asked
<1>3. CASE P!ServerCall \/ P!ServerCallFails
  BY <1>3, ServerCallPane
<1>4. CASE P!load_playlist_songs \/ P!refresh_playlists
  <2>1. /\ request # None /\ UNCHANGED <<server, songs, shown, added, disturbed>>
        /\ \/ /\ P!Exists(request.id)
              /\ request' = [request EXCEPT !.reply = server[request.id], !.phase = "loaded"]
           \/ request' = [request EXCEPT !.fresh = FALSE, !.phase = "loaded"]
           \/ request' = [request EXCEPT !.phase = "done"]
    BY <1>4 DEF P!load_playlist_songs, P!refresh_playlists, P!Pane, P!history
  <2>2. request \in P!Requests
    BY <2>1 DEF PlaylistsInv, AsksTyped, Asks
  <2>3. request'.op = request.op
    BY <2>1, <2>2 DEF P!Requests
  <2>4. request' # None
    <3>1. P!Exists(request.id) => request.id \in Playlists
      BY ElementOfSeq, LenProperties DEF P!Exists, PlaylistsInv, ListsTyped
    <3>2. P!Exists(request.id) => server[request.id] \in Seq(Songs)
      BY <3>1 DEF PlaylistsInv, ListsTyped
    <3>3. request' \in P!Requests
      BY <2>1, <2>2, <3>2 DEF P!Requests
    <3> QED BY <3>3, TuiAssumption DEF TuiAssumption
  <2> QED BY <1>1, <2>1, <2>3, <2>4 DEF PaneIsServer
<1>5. CASE P!EditElsewhere
  <2>1. SUFFICES ASSUME ~disturbed', request' = None \/ request'.op \notin {"remove", "reorder"}
                 PROVE  songs' \o added' = IF shown' = None THEN <<>> ELSE server'[shown']
    BY DEF PaneIsServer
  <2>2. /\ UNCHANGED <<songs, shown, added>>
        /\ request # None <=> request' # None
        /\ request # None => request'.op = request.op
    BY <1>5, EditElsewhereFacts
  <2>3. CASE UNCHANGED <<server, disturbed>>
    BY <1>1, <2>1, <2>2, <2>3 DEF PaneIsServer
  <2>4. CASE \E p \in Playlists :
                 /\ \A q \in Playlists \ {p} : server'[q] = server[q]
                 /\ p = shown => disturbed'
                 /\ ~disturbed' => ~disturbed
    <3>1. ~disturbed /\ (shown # None => server'[shown] = server[shown])
      BY <1>1, <2>1, <2>4
    <3> QED BY <1>1, <2>1, <2>2, <3>1 DEF PaneIsServer
  <2> QED BY <1>5, <2>3, <2>4, EditElsewhereFacts
<1>6. CASE P!Resumes
  <2>1. /\ request # None /\ request' = None /\ UNCHANGED server /\ Asks(request)
        /\ request.reply \o <<>> = request.reply
    BY <1>6, ConcatFacts
       DEF P!Resumes, P!ServerSide, PlaylistsInv, AsksTyped, Asks, P!Requests
  <2>2. CASE request.op = "load" /\ P!ShowLoaded
    <3>1. /\ songs' = request.reply /\ shown' = request.id /\ disturbed' = ~request.fresh
          /\ added' = <<>>
          /\ request.id \in Playlists /\ request.phase \in {"done", "error"}
      BY <1>6, <2>1, <2>2 DEF P!ShowLoaded, P!Loaded, P!Resumes, Asks
    <3>2. request.phase = "done" /\ request.id # None
      BY <2>1, <2>2, <3>1, NoneIsNoNumber DEF Asks
    <3>3. request.fresh => request.reply = server[request.id]
      BY <2>1, <2>2, <3>2 DEF PlaylistsInv, AnswerIsServer
    <3> QED BY <2>1, <3>1, <3>2, <3>3 DEF PaneIsServer
  <2>3. CASE request.op \in {"remove", "reorder"} /\ P!reconcile_playlist_songs
    <3>1. CASE request.phase = "done"
      <4>1. /\ songs' = request.reply /\ shown' = request.id /\ disturbed' = ~request.fresh
            /\ added' = <<>>
            /\ request.id \in Playlists /\ request.id # None
        BY <2>1, <2>3, <3>1, NoneIsNoNumber DEF P!reconcile_playlist_songs, P!Loaded, Asks
      <4>2. request.fresh => request.reply = server[request.id]
        BY <2>1, <2>3, <3>1 DEF PlaylistsInv, AnswerIsServer, P!Edits
      <4> QED BY <2>1, <4>1, <4>2 DEF PaneIsServer
    <3>2. CASE request.phase # "done"
      BY <2>3, <3>2 DEF P!reconcile_playlist_songs, PaneIsServer
    <3> QED BY <3>1, <3>2
  <2>4. CASE /\ request.op \notin {"load", "remove", "reorder"}
             /\ UNCHANGED <<songs, shown, added, disturbed>>
    BY <1>1, <2>1, <2>4 DEF PaneIsServer
  <2> QED BY <1>6, <2>2, <2>3, <2>4 DEF P!Resumes, P!history
<1>7. CASE UNCHANGED <<server, songs, shown, added, disturbed, request>>
  BY <1>1, <1>7 DEF PaneIsServer
<1>8. \/ Sends \/ P!ServerCall \/ P!ServerCallFails \/ P!load_playlist_songs
      \/ P!refresh_playlists \/ P!EditElsewhere \/ P!Resumes
      \/ UNCHANGED <<server, songs, shown, added, disturbed, request>>
  BY DEF P!Next, Sends, P!MovesInPlaylists, P!MovesInSongs, P!SwitchesPane, P!Clicks, P!Stay,
     P!OpensBox, P!ClosesBox, P!open_playlist_picker, P!RefreshElsewhere,
     P!PumpPlaylists, P!Pane, P!ServerSide, P!history
<1> QED BY <1>2, <1>3, <1>4, <1>5, <1>6, <1>7, <1>8

LEMMA PlaylistsStep == PlaylistsInv /\ [P!Next]_varsP => PlaylistsInv'
<1>1. PlaylistsInv /\ P!Next => PlaylistsInv'
  BY ListsStep, PaneStep, AsksStep, AddedStep, AnswerStep, PaneIsServerStep DEF PlaylistsInv
<1>2. PlaylistsInv /\ UNCHANGED varsP => PlaylistsInv'
  BY DEF varsP, PlaylistsInv, ListsTyped, PaneTyped, AsksTyped, AddedTyped, AnswerIsServer,
         PaneIsServer
<1> QED BY <1>1, <1>2

LEMMA PlaylistsAtRest == PlaylistsInv => P!SongCursorInPane /\ P!UndisturbedPaneIsServer
BY DEF PlaylistsInv, PaneTyped, PaneIsServer, P!SongCursorInPane, P!InList,
   P!UndisturbedPaneIsServer

(***************************************************************************)
(* Overlays and covers (Overlays, as O): a reply counts only for what it   *)
(* was asked for, and whatever waits has a fetch under way.                *)
(***************************************************************************)
Statuses == {"Idle", "Loading", "Ready", "Empty", "Error"}

LyricsTyped ==
    /\ lyrics \in [open : BOOLEAN, song_id : Playables \cup {None}, status : Statuses,
                   text : Playables \cup {None, ""}, generation : Nat,
                   cache : [Playables -> Playables \cup {None, ""}]]
    /\ \A s \in Playables : lyrics.cache[s] \in {None, "", s}

LyricsShown ==
    /\ lyrics.status = "Ready" => lyrics.text = lyrics.song_id
    /\ lyrics.status = "Loading" =>
           \E f \in fetches : /\ f.kind = "lyrics" /\ f.id = lyrics.song_id
                              /\ f.generation = lyrics.generation

InfoTyped ==
    info \in [open : BOOLEAN, target_id : Targets \cup {None}, status : Statuses,
              text : Targets \cup {None}, generation : Nat]

InfoShown ==
    /\ info.status = "Ready" => info.text = info.target_id
    /\ info.status = "Loading" =>
           \E f \in fetches : /\ f.kind = "info" /\ f.id = info.target_id
                              /\ f.generation = info.generation

LoopTyped ==
    /\ song \in Playables \cup {None}
    /\ app.song \in Playables \cup {None}
    /\ app = [pc |-> app.pc, song |-> app.song, tick |-> app.tick]
    /\ \A f \in fetches : /\ f.kind = "lyrics" => f.id \in Playables
                          /\ f.kind = "info" => f.id \in Targets
                          /\ f.kind = "cover" => f.id \in Covers

(* The pump waits for the cover of the song that plays, and reserved it. A *)
(* cover from startup may have taken its place only once.                  *)
ArtReserved ==
    /\ pump # None =>
           /\ pump = song /\ song \in Covers /\ cover_art
           /\ art.current_id \in {None, pump}
           /\ app.pc = "seeding" => art.current_id = pump
    /\ app.pc = "seeding" => app.song \in Covers
    /\ art.image # None => art.current_id = art.image
    /\ art.current_id # None /\ art.image = None => pump = art.current_id

ArtShown ==
    pump = None /\ cover_art /\ song \in Covers /\ art.image # None /\ ~outdated => art.image = song

PlaylistArtFetched ==
    playlist_art.current_id # None /\ playlist_art.image = None =>
        \E f \in fetches : f.kind = "cover" /\ f.id = playlist_art.current_id

OverlaysInv ==
    /\ LyricsTyped /\ LyricsShown /\ InfoTyped /\ InfoShown /\ LoopTyped
    /\ ArtReserved /\ ArtShown /\ PlaylistArtFetched

LEMMA NoneIsNoCover == None \notin Covers /\ None \notin Playables /\ None \notin Rows
BY TuiAssumption DEF TuiAssumption

LEMMA OverlaysInvInit == O!Init => OverlaysInv
<1> SUFFICES ASSUME O!Init
             PROVE  OverlaysInv
  OBVIOUS
<1>1. LyricsTyped /\ LyricsShown
  <2>1. lyrics = [open |-> FALSE, song_id |-> None, status |-> "Idle", text |-> None,
                  generation |-> 0, cache |-> [s \in Playables |-> None]]
    BY DEF O!Init
  <2>2. [s \in Playables |-> None] \in [Playables -> Playables \cup {None, ""}]
    OBVIOUS
  <2>3. \A s \in Playables : lyrics.cache[s] = None
    BY <2>1
  <2> QED BY <2>1, <2>2, <2>3 DEF LyricsTyped, LyricsShown, Statuses
<1>2. InfoTyped /\ InfoShown
  BY DEF O!Init, InfoTyped, InfoShown, Statuses
<1>3. LoopTyped
  <2>1. song \in Playables \cup {None} /\ fetches = {}
    BY DEF O!Init
  <2>2. app \in {[pc |-> "seeding", song |-> song, tick |-> FALSE], O!Ready}
    BY DEF O!Init
  <2>3. app.song \in {song, None} /\ app = [pc |-> app.pc, song |-> app.song, tick |-> app.tick]
    BY <2>2 DEF O!Ready
  <2> QED BY <2>1, <2>3 DEF LoopTyped
<1>4. ArtReserved /\ ArtShown
  <2>1. pump = None /\ art.current_id = None /\ art.image = None
    BY DEF O!Init, O!Nothing
  <2>2. app.pc = "seeding" => app.song \in Covers
    BY DEF O!Init, O!Ready
  <2> QED BY <2>1, <2>2 DEF ArtReserved, ArtShown
<1>5. PlaylistArtFetched
  BY DEF O!Init, O!Nothing, PlaylistArtFetched
<1> QED BY <1>1, <1>2, <1>3, <1>4, <1>5 DEF OverlaysInv

LEMMA GenerationIsNat ==
    ASSUME LyricsTyped
    PROVE  lyrics.generation \in Nat /\ lyrics.generation + 1 \in Nat
<1>1. lyrics.generation \in Nat
  BY DEF LyricsTyped
<1> QED BY <1>1

(* The event loop and the fetches.                                         *)
LEMMA LoopStep ==
    ASSUME OverlaysInv, O!Next
    PROVE  LoopTyped'
<1>1. LoopTyped
  BY DEF OverlaysInv
<1>2. song' \in Playables \cup {None}
  BY <1>1 DEF LoopTyped, O!Next, O!apply_now_playing_changed, O!apply_config_changed,
     O!Resnapshots, O!CoverArrives, O!seed_cover_art, O!toggle_lyrics, O!RetriesLyrics, O!tick_post,
     O!ReadsSong, O!ensure_open_lyrics, O!OpensInfo, O!ClosesInfo, O!Highlights,
     O!ensure_playlist_cover, O!Replies
<1>3. /\ app'.song \in Playables \cup {None}
      /\ app' = [pc |-> app'.pc, song |-> app'.song, tick |-> app'.tick]
  <2>1. CASE O!ReadsSong
    BY <1>1, <2>1 DEF O!ReadsSong, LoopTyped
  <2>2. CASE O!ensure_open_lyrics
    <3>1. app' = [app EXCEPT !.pc = "cover"] \/ app' = O!Tick
      BY <2>2 DEF O!ensure_open_lyrics
    <3> QED BY <1>1, <3>1 DEF LoopTyped, O!Tick
  <2>3. CASE app' = O!Ready \/ app' = O!Tick \/ app' = [O!Ready EXCEPT !.pc = "ensure"]
    BY <2>3 DEF O!Ready, O!Tick
  <2>4. CASE UNCHANGED app
    BY <1>1, <2>4 DEF LoopTyped
  <2>5. \/ O!ReadsSong \/ O!ensure_open_lyrics \/ UNCHANGED app
        \/ app' = O!Ready \/ app' = O!Tick \/ app' = [O!Ready EXCEPT !.pc = "ensure"]
    BY DEF O!Next, O!apply_now_playing_changed, O!apply_config_changed,
       O!Resnapshots, O!CoverArrives, O!seed_cover_art, O!toggle_lyrics, O!RetriesLyrics, O!tick_post,
       O!OpensInfo, O!ClosesInfo, O!Highlights, O!ensure_playlist_cover, O!Replies
  <2> QED BY <2>1, <2>2, <2>3, <2>4, <2>5
<1>4. \A f \in fetches' : /\ f.kind = "lyrics" => f.id \in Playables
                          /\ f.kind = "info" => f.id \in Targets
                          /\ f.kind = "cover" => f.id \in Covers
  <2>1. CASE O!ensure_open_lyrics
    <3>1. fetches' = fetches \/ \E n \in Nat, id \in Playables :
              fetches' = fetches \cup {[kind |-> "lyrics", id |-> id, generation |-> n]}
      <4>1. lyrics.generation + 1 \in Nat
        BY GenerationIsNat DEF OverlaysInv
      <4>2. CASE fetches' = fetches
        BY <4>2
      <4>3. CASE fetches' = fetches \cup {[kind |-> "lyrics", id |-> app.song,
                                         generation |-> lyrics.generation + 1]}
                 /\ app.song # None
        BY <1>1, <4>1, <4>3 DEF LoopTyped
      <4> QED BY <2>1, <4>2, <4>3 DEF O!ensure_open_lyrics, O!Spawn
    <3> QED BY <1>1, <3>1 DEF LoopTyped
  <2>2. CASE O!OpensInfo
    BY <1>1, <2>2 DEF O!OpensInfo, O!open_info, O!Spawn, LoopTyped
  <2>3. CASE O!ensure_playlist_cover
    BY <1>1, <2>3 DEF O!ensure_playlist_cover, O!Spawn, LoopTyped
  <2>4. CASE fetches' \subseteq fetches
    BY <1>1, <2>4 DEF LoopTyped
  <2>5. \/ O!ensure_open_lyrics \/ O!OpensInfo \/ O!ensure_playlist_cover
        \/ fetches' \subseteq fetches
    BY DEF O!Next, O!apply_now_playing_changed, O!apply_config_changed,
       O!Resnapshots, O!CoverArrives, O!seed_cover_art, O!toggle_lyrics, O!RetriesLyrics, O!tick_post,
       O!ReadsSong, O!ClosesInfo, O!Highlights, O!Replies
  <2> QED BY <2>1, <2>2, <2>3, <2>4, <2>5
<1> QED BY <1>2, <1>3, <1>4 DEF LoopTyped

(* Lyrics.                                                                 *)
LEMMA EnsureLyricsStep ==
    ASSUME OverlaysInv, O!ensure_open_lyrics
    PROVE  LyricsTyped' /\ LyricsShown'
<1> DEFINE id == app.song
           of == [lyrics EXCEPT !.song_id = id]
<1>1. LyricsTyped /\ LyricsShown /\ id \in Playables \cup {None}
  BY DEF OverlaysInv, LoopTyped
<1>2. CASE UNCHANGED <<lyrics, fetches>>
  BY <1>1, <1>2 DEF LyricsTyped, LyricsShown
<1>3. CASE lyrics' = [of EXCEPT !.status = "Empty", !.text = None]
  BY <1>1, <1>3 DEF LyricsTyped, LyricsShown, Statuses
<1>4. CASE id # None /\ lyrics.cache[id] # None /\ lyrics' = O!Answered(of, lyrics.cache[id])
  <2> DEFINE t == lyrics.cache[id]
  <2>1. t \in {"", id} /\ t \in Playables \cup {None, ""} /\ id \in Playables
    BY <1>1, <1>4 DEF LyricsTyped
  <2>2. lyrics' = [of EXCEPT !.status = O!Shown(t), !.text = t]
    BY <1>4 DEF O!Answered
  <2>3. O!Shown(t) \in Statuses /\ (O!Shown(t) = "Ready" => t = id) /\ O!Shown(t) # "Loading"
    BY <2>1 DEF O!Shown, Statuses
  <2> DEFINE st == O!Shown(t)
  <2> HIDE DEF t, st
  <2> QED BY <1>1, <2>1, <2>2, <2>3 DEF LyricsTyped, LyricsShown, st
<1>5. CASE /\ id # None
           /\ lyrics' = [of EXCEPT !.status = "Loading", !.text = None, !.generation = @ + 1]
           /\ fetches' = fetches \cup {[kind |-> "lyrics", id |-> id,
                                        generation |-> lyrics.generation + 1]}
  <2> DEFINE n == lyrics.generation + 1
  <2>3. n \in Nat /\ lyrics' = [of EXCEPT !.status = "Loading", !.text = None, !.generation = n]
    BY <1>1, <1>5, GenerationIsNat
  <2> HIDE DEF n
  <2>1. LyricsTyped' /\ lyrics'.song_id = id /\ lyrics'.generation = n
        /\ lyrics'.status = "Loading"
    BY <1>1, <2>3 DEF LyricsTyped, Statuses
  <2>2. [kind |-> "lyrics", id |-> id, generation |-> n] \in fetches'
    BY <1>5 DEF n
  <2> QED BY <2>1, <2>2 DEF LyricsShown
<1> QED BY <1>2, <1>3, <1>4, <1>5 DEF O!ensure_open_lyrics, O!Spawn

LEMMA LyricsReplyStep ==
    ASSUME OverlaysInv, NEW f \in fetches, fetches' = fetches \ {f},
           O!LyricsArrive(f) \/ O!LyricsFail(f)
    PROVE  LyricsTyped' /\ LyricsShown'
<1>1. LyricsTyped /\ LyricsShown /\ f.id \in Playables
  BY DEF OverlaysInv, LoopTyped, O!LyricsArrive, O!LyricsFail
<1>2. ~O!Awaited(f) /\ lyrics.status = "Loading" =>
          \E g \in fetches' : /\ g.kind = "lyrics" /\ g.id = lyrics.song_id
                              /\ g.generation = lyrics.generation
  BY <1>1 DEF LyricsShown, O!Awaited
<1>3. CASE O!LyricsArrive(f)
  <2>1. PICK text \in {f.id, ""} :
            LET kept == [lyrics EXCEPT !.cache[f.id] = text]
            IN  lyrics' = IF O!Awaited(f) THEN O!Answered(kept, text) ELSE kept
    BY <1>3 DEF O!LyricsArrive
  <2> DEFINE kept == [lyrics EXCEPT !.cache[f.id] = text]
             c == [lyrics.cache EXCEPT ![f.id] = text]
  <2>2. lyrics' = IF O!Awaited(f) THEN O!Answered(kept, text) ELSE kept
    BY <2>1
  <2>3. /\ c \in [Playables -> Playables \cup {None, ""}]
        /\ \A s \in Playables : c[s] \in {None, "", s}
    BY <1>1 DEF LyricsTyped
  <2>4. kept = [lyrics EXCEPT !.cache = c]
    BY <1>1 DEF LyricsTyped
  <2> HIDE DEF c
  <2>5. /\ kept \in [open : BOOLEAN, song_id : Playables \cup {None}, status : Statuses,
                     text : Playables \cup {None, ""}, generation : Nat,
                     cache : [Playables -> Playables \cup {None, ""}]]
        /\ kept.cache = c /\ kept.song_id = lyrics.song_id /\ kept.status = lyrics.status
        /\ kept.text = lyrics.text /\ kept.generation = lyrics.generation
    BY <1>1, <2>3, <2>4 DEF LyricsTyped
  <2> HIDE DEF kept
  <2>6. CASE O!Awaited(f)
    <3>1. lyrics' = [kept EXCEPT !.status = O!Shown(text), !.text = text]
      BY <2>2, <2>6 DEF O!Answered
    <3>2. /\ O!Shown(text) \in Statuses /\ O!Shown(text) # "Loading"
          /\ O!Shown(text) = "Ready" => text = lyrics.song_id
      BY <2>6 DEF O!Shown, Statuses, O!Awaited
    <3> DEFINE st == O!Shown(text)
    <3>3. /\ st \in Statuses /\ st # "Loading" /\ (st = "Ready" => text = lyrics.song_id)
          /\ lyrics' = [kept EXCEPT !.status = st, !.text = text]
          /\ text \in Playables \cup {None, ""}
      BY <1>1, <3>1, <3>2
    <3> HIDE DEF st
    <3> QED BY <2>3, <2>5, <3>3 DEF LyricsTyped, LyricsShown
  <2>7. CASE ~O!Awaited(f)
    <3>1. lyrics' = kept
      BY <2>2, <2>7
    <3>2. LyricsTyped'
      BY <2>3, <2>5, <3>1 DEF LyricsTyped
    <3>3. LyricsShown'
      BY <1>1, <1>2, <2>5, <2>7, <3>1 DEF LyricsShown
    <3> QED BY <3>2, <3>3
  <2> QED BY <2>6, <2>7
<1>4. CASE O!LyricsFail(f)
  <2>1. CASE O!Awaited(f)
    BY <1>1, <1>4, <2>1 DEF O!LyricsFail, LyricsTyped, LyricsShown, Statuses
  <2>2. CASE ~O!Awaited(f)
    BY <1>1, <1>2, <1>4, <2>2 DEF O!LyricsFail, LyricsTyped, LyricsShown
  <2> QED BY <2>1, <2>2
<1> QED BY <1>3, <1>4

(* What leaves the lyrics alone takes none of their fetches.               *)
LEMMA LyricsStep ==
    ASSUME OverlaysInv, O!Next
    PROVE  LyricsTyped' /\ LyricsShown'
<1>1. LyricsTyped /\ LyricsShown
  BY DEF OverlaysInv
<1>2. CASE O!toggle_lyrics
  <2>1. UNCHANGED fetches /\ \E b \in BOOLEAN : lyrics' = [lyrics EXCEPT !.open = b]
    BY <1>2 DEF O!toggle_lyrics
  <2> QED BY <1>1, <2>1 DEF LyricsTyped, LyricsShown
<1>3. CASE O!RetriesLyrics
  <2> DEFINE c == [s \in Playables |-> IF s = lyrics.song_id THEN None ELSE lyrics.cache[s]]
  <2>1. lyrics' = [lyrics EXCEPT !.status = "Idle", !.text = None, !.cache = c]
    BY <1>3 DEF O!RetriesLyrics
  <2>2. /\ c \in [Playables -> Playables \cup {None, ""}]
        /\ \A s \in Playables : c[s] \in {None, "", s}
    BY <1>1 DEF LyricsTyped
  <2> HIDE DEF c
  <2> QED BY <1>1, <2>1, <2>2 DEF LyricsTyped, LyricsShown, Statuses
<1>4. CASE UNCHANGED lyrics /\ \A f \in fetches : f.kind = "lyrics" => f \in fetches'
  BY <1>1, <1>4 DEF LyricsTyped, LyricsShown
<1>5. CASE O!Replies
  <2>1. PICK f \in fetches :
            /\ fetches' = fetches \ {f}
            /\ O!LyricsArrive(f) \/ O!LyricsFail(f) \/ O!InfoArrives(f) \/ O!PlaylistCoverArrives(f)
    BY <1>5 DEF O!Replies
  <2>2. CASE O!LyricsArrive(f) \/ O!LyricsFail(f)
    BY <2>1, <2>2, LyricsReplyStep
  <2>3. CASE O!InfoArrives(f) \/ O!PlaylistCoverArrives(f)
    <3>1. UNCHANGED lyrics /\ f.kind # "lyrics"
      BY <2>3 DEF O!InfoArrives, O!PlaylistCoverArrives
    <3> QED BY <1>4, <2>1, <3>1
  <2> QED BY <2>1, <2>2, <2>3
<1>6. \/ O!toggle_lyrics \/ O!RetriesLyrics \/ O!ensure_open_lyrics \/ O!Replies
      \/ UNCHANGED lyrics /\ fetches \subseteq fetches'
  BY DEF O!Next, O!apply_now_playing_changed, O!apply_config_changed,
     O!Resnapshots, O!CoverArrives, O!seed_cover_art, O!tick_post, O!ReadsSong, O!OpensInfo, O!open_info,
     O!ClosesInfo, O!Highlights, O!ensure_playlist_cover, O!Spawn
<1> QED BY <1>2, <1>3, <1>4, <1>5, <1>6, EnsureLyricsStep

(* Info.                                                                   *)
LEMMA InfoStep ==
    ASSUME OverlaysInv, O!Next
    PROVE  InfoTyped' /\ InfoShown'
<1>1. InfoTyped /\ InfoShown
  BY DEF OverlaysInv
<1>2. CASE O!OpensInfo
  <2>1. PICK id \in Targets : O!open_info(id)
    BY <1>2 DEF O!OpensInfo
  <2> DEFINE n == info.generation + 1
  <2>2. info.generation \in Nat
    BY <1>1 DEF InfoTyped
  <2>3. n \in Nat
    BY <2>2
  <2>4. /\ info' = [open |-> TRUE, target_id |-> id, status |-> "Loading", text |-> None,
                    generation |-> n]
        /\ [kind |-> "info", id |-> id, generation |-> n] \in fetches'
    BY <2>1 DEF O!open_info, O!Spawn
  <2> HIDE DEF n
  <2> QED BY <2>3, <2>4 DEF InfoTyped, InfoShown, Statuses
<1>3. CASE O!ClosesInfo
  BY <1>1, <1>3 DEF O!ClosesInfo, InfoTyped, InfoShown, Statuses
<1>4. CASE UNCHANGED info /\ \A f \in fetches : f.kind = "info" => f \in fetches'
  BY <1>1, <1>4 DEF InfoTyped, InfoShown
<1>5. CASE O!Replies
  <2>1. PICK f \in fetches :
            /\ fetches' = fetches \ {f}
            /\ O!LyricsArrive(f) \/ O!LyricsFail(f) \/ O!InfoArrives(f) \/ O!PlaylistCoverArrives(f)
    BY <1>5 DEF O!Replies
  <2>2. CASE O!InfoArrives(f)
    <3>1. CASE info.generation # f.generation \/ info.target_id # f.id
      <4>1. UNCHANGED info
        BY <2>2, <3>1 DEF O!InfoArrives
      <4> QED BY <1>1, <2>1, <3>1, <4>1 DEF InfoTyped, InfoShown
    <3>2. CASE ~(info.generation # f.generation \/ info.target_id # f.id)
      <4>1. info' \in {[info EXCEPT !.status = "Ready", !.text = f.id],
                       [info EXCEPT !.status = "Empty"], [info EXCEPT !.status = "Error"]}
        BY <2>2, <3>2 DEF O!InfoArrives
      <4>2. f.id \in Targets
        BY <2>2 DEF O!InfoArrives, OverlaysInv, LoopTyped
      <4> QED BY <1>1, <3>2, <4>1, <4>2 DEF InfoTyped, InfoShown, Statuses
    <3> QED BY <3>1, <3>2
  <2>3. CASE O!LyricsArrive(f) \/ O!LyricsFail(f) \/ O!PlaylistCoverArrives(f)
    <3>1. UNCHANGED info /\ f.kind # "info"
      BY <2>3 DEF O!LyricsArrive, O!LyricsFail, O!PlaylistCoverArrives
    <3> QED BY <1>4, <2>1, <3>1
  <2> QED BY <2>1, <2>2, <2>3
<1>6. \/ O!OpensInfo \/ O!ClosesInfo \/ O!Replies
      \/ UNCHANGED info /\ fetches \subseteq fetches'
  BY DEF O!Next, O!apply_now_playing_changed, O!apply_config_changed,
     O!Resnapshots, O!CoverArrives, O!seed_cover_art, O!toggle_lyrics, O!RetriesLyrics, O!tick_post,
     O!ReadsSong, O!ensure_open_lyrics, O!Highlights, O!ensure_playlist_cover, O!Spawn
<1> QED BY <1>2, <1>3, <1>4, <1>5, <1>6

(* The cover of the playing song.                                          *)
LEMMA AsksForStep ==
    ASSUME OverlaysInv, NEW id \in Covers, O!AsksFor(id), pump = None, song' = id, cover_art',
           app' = app
    PROVE  ArtReserved' /\ ArtShown'
<1>1. id # None
  BY NoneIsNoCover
<1>2. CASE art.current_id = id
  <2>1. UNCHANGED <<art, pump>>
    BY <1>2 DEF O!AsksFor
  <2> QED BY <1>2, <2>1 DEF OverlaysInv, ArtReserved, ArtShown
<1>3. CASE art.current_id # id
  <2>1. art' = [current_id |-> id, image |-> None] /\ pump' = id
    BY <1>3 DEF O!AsksFor, O!set_pending
  <2>2. art'.current_id = id /\ art'.image = None
    BY <2>1
  <2> QED BY <1>1, <2>1, <2>2 DEF OverlaysInv, ArtReserved, ArtShown
<1> QED BY <1>2, <1>3

LEMMA NothingFacts == O!Nothing.current_id = None /\ O!Nothing.image = None
BY DEF O!Nothing

LEMMA EventStep ==
    ASSUME OverlaysInv, O!apply_now_playing_changed \/ O!apply_config_changed
    PROVE  ArtReserved' /\ ArtShown'
<1>1. pump = None /\ app' = app
  BY DEF O!apply_now_playing_changed, O!apply_config_changed
<1>2. CASE art' = O!Nothing /\ pump' = pump
  BY <1>1, <1>2, NothingFacts DEF OverlaysInv, ArtReserved, ArtShown
<1>3. CASE O!apply_now_playing_changed
  <2>1. UNCHANGED cover_art
    BY <1>3 DEF O!apply_now_playing_changed
  <2>2. CASE ~cover_art /\ UNCHANGED <<art, pump>>
    BY <1>1, <2>1, <2>2 DEF OverlaysInv, ArtReserved, ArtShown
  <2>3. CASE cover_art /\ song' \in Covers /\ O!AsksFor(song')
    BY <1>1, <2>1, <2>3, AsksForStep
  <2> QED BY <1>2, <1>3, <2>2, <2>3 DEF O!apply_now_playing_changed
<1>4. CASE O!apply_config_changed
  <2>1. UNCHANGED song
    BY <1>4 DEF O!apply_config_changed
  <2>2. CASE cover_art' /\ song \in Covers /\ O!AsksFor(song)
    BY <1>1, <2>1, <2>2, AsksForStep
  <2>3. CASE song \notin Covers /\ UNCHANGED <<art, pump>>
    BY <1>1, <2>1, <2>3 DEF OverlaysInv, ArtReserved, ArtShown
  <2> QED BY <1>2, <1>4, <2>2, <2>3 DEF O!apply_config_changed
<1> QED BY <1>3, <1>4

LEMMA CoverArrivesStep ==
    ASSUME OverlaysInv, O!CoverArrives
    PROVE  ArtReserved' /\ ArtShown'
<1>1. /\ pump # None /\ pump' = None /\ UNCHANGED <<song, app>>
      /\ art' \in O!load(art, pump) \cup {O!fail_pending(art, pump)}
  BY DEF O!CoverArrives
<1>2. /\ pump = song /\ art.current_id \in {None, pump}
      /\ app.pc = "seeding" => app.song \in Covers
      /\ art.image # None => art.current_id = art.image
  BY <1>1 DEF OverlaysInv, ArtReserved
<1>3. \/ art' = art /\ (art.image # None \/ art.current_id = None)
      \/ art' = [current_id |-> pump, image |-> pump]
      \/ art' = O!Nothing
  <2>1. CASE O!superseded(art, pump) /\ art' = art
    BY <1>2, <2>1 DEF O!superseded
  <2>2. CASE art' = O!fail_pending(art, pump)
    BY <1>2, <2>2 DEF O!fail_pending
  <2>3. CASE ~O!superseded(art, pump) /\ art' \in {[current_id |-> pump, image |-> pump], O!Nothing}
    BY <2>3
  <2> QED BY <1>1, <2>1, <2>2, <2>3 DEF O!load
<1>4. \/ art'.image # None /\ art'.image = song /\ art'.current_id = art'.image
      \/ art'.image = None /\ art'.current_id = None
  <2>1. CASE art' = [current_id |-> pump, image |-> pump]
    <3>1. art'.image = pump /\ art'.current_id = pump
      BY <2>1
    <3> QED BY <1>1, <1>2, <3>1
  <2>2. CASE art' = O!Nothing
    BY <2>2, NothingFacts
  <2>3. CASE art' = art /\ (art.image # None \/ art.current_id = None)
    BY <1>1, <1>2, <2>3
  <2> QED BY <1>3, <2>1, <2>2, <2>3
<1> QED BY <1>1, <1>2, <1>4 DEF ArtReserved, ArtShown

(* Startup: what it loads is the song it read, which is outdated when the    *)
(* song has gone and nothing was reserved.                                 *)
LEMMA SeedStep ==
    ASSUME OverlaysInv, O!seed_cover_art
    PROVE  ArtReserved' /\ ArtShown'
<1>1. /\ app.pc = "seeding" /\ UNCHANGED <<song, cover_art, pump>> /\ app' = O!Ready
      /\ art' \in O!load(art, app.song) \cup {art}
  BY DEF O!seed_cover_art
<1>2. ~outdated' => ~outdated /\ (art.current_id # None \/ art' = art \/ app.song = song)
  <2> DEFINE gone == art.current_id = None /\ art' # art /\ app.song # song
  <2>1. outdated' = (outdated \/ gone)
    BY DEF O!seed_cover_art
  <2> HIDE DEF gone
  <2>2. ~outdated' => ~outdated /\ ~gone
    BY <2>1, Zenon
  <2> QED BY <2>2 DEF gone
<1>3. /\ app.song \in Covers /\ app.song # None
      /\ pump # None => pump = song /\ song \in Covers /\ cover_art /\ art.current_id = pump
      /\ art.image # None => art.current_id = art.image
      /\ art.current_id # None /\ art.image = None => pump = art.current_id
      /\ pump = None /\ cover_art /\ song \in Covers /\ art.image # None /\ ~outdated =>
             art.image = song
  BY <1>1, NoneIsNoCover DEF OverlaysInv, ArtReserved, ArtShown
<1>4. app'.pc # "seeding"
  BY <1>1 DEF O!Ready
<1>5. CASE art' = art
  BY <1>1, <1>2, <1>3, <1>4, <1>5 DEF ArtReserved, ArtShown
<1>6. CASE art' # art
  <2>1. /\ ~O!superseded(art, app.song)
        /\ art' \in {[current_id |-> app.song, image |-> app.song], O!Nothing}
    BY <1>1, <1>6 DEF O!load
  <2>2. art.current_id \in {None, app.song}
    BY <2>1 DEF O!superseded
  <2>3. CASE art' = O!Nothing
    BY <1>1, <1>3, <1>4, <2>3, NothingFacts DEF ArtReserved, ArtShown
  <2>4. CASE art' = [current_id |-> app.song, image |-> app.song]
    <3>1. art'.current_id = app.song /\ art'.image = app.song
      BY <2>4
    <3>2. art.current_id # None => art.image = None /\ art.current_id = app.song
      BY <2>1, <2>2 DEF O!superseded
    <3>3. pump # None => app.song = pump
      BY <1>3, <2>2
    <3>4. pump = None => art.current_id = None
      BY <1>3, <3>2
    <3>5. pump = None /\ ~outdated' => app.song = song
      BY <1>2, <1>6, <3>4
    <3> QED BY <1>1, <1>3, <1>4, <3>1, <3>3, <3>5 DEF ArtReserved, ArtShown
  <2> QED BY <2>1, <2>3, <2>4
<1> QED BY <1>5, <1>6

(* A snapshot replaces the song and the setting under the cover.           *)
LEMMA ResnapshotStep ==
    ASSUME OverlaysInv, O!Resnapshots
    PROVE  ArtReserved' /\ ArtShown'
<1>1. pump = None /\ UNCHANGED <<art, pump, app>>
  BY DEF O!Resnapshots
<1>2. ~outdated' => ~O!OfAnother(art, song')
  <2> DEFINE another == O!OfAnother(art, song')
  <2>1. outdated' = (outdated \/ another)
    BY DEF O!Resnapshots
  <2> HIDE DEF another
  <2>2. ~outdated' => ~another
    BY <2>1, Zenon
  <2> QED BY <2>2 DEF another
<1>3. art.image # None => art.current_id = art.image
  BY DEF OverlaysInv, ArtReserved
<1>4. ArtReserved'
  BY <1>1 DEF OverlaysInv, ArtReserved
<1>5. ArtShown'
  BY <1>1, <1>2, <1>3 DEF ArtShown, O!OfAnother
<1> QED BY <1>4, <1>5

LEMMA ArtStep ==
    ASSUME OverlaysInv, O!Next
    PROVE  ArtReserved' /\ ArtShown'
<1>1. CASE /\ UNCHANGED <<song, cover_art, art, pump, outdated>>
           /\ app'.pc = "seeding" => app' = app
  BY <1>1 DEF OverlaysInv, ArtReserved, ArtShown
<1>2. ASSUME \/ O!toggle_lyrics \/ O!RetriesLyrics \/ O!tick_post \/ O!ReadsSong
             \/ O!ensure_open_lyrics \/ O!OpensInfo \/ O!ClosesInfo \/ O!ensure_playlist_cover
      PROVE  UNCHANGED <<song, cover_art, art, pump, outdated>> /\ app'.pc # "seeding"
  <2>1. UNCHANGED <<song, cover_art, art, pump, outdated>>
    BY <1>2 DEF O!toggle_lyrics, O!RetriesLyrics, O!tick_post, O!ReadsSong,
       O!ensure_open_lyrics, O!OpensInfo, O!ClosesInfo, O!ensure_playlist_cover, O!covers
  <2>2. \/ app' \in {O!Ready, O!Tick, [O!Ready EXCEPT !.pc = "ensure"]}
        \/ app' = [app EXCEPT !.pc = "locked", !.song = song]
        \/ app' = [app EXCEPT !.pc = "cover"]
    BY <1>2 DEF O!toggle_lyrics, O!RetriesLyrics, O!tick_post, O!ReadsSong,
       O!ensure_open_lyrics, O!OpensInfo, O!ClosesInfo, O!ensure_playlist_cover
  <2>3. app = [pc |-> app.pc, song |-> app.song, tick |-> app.tick]
    BY DEF OverlaysInv, LoopTyped
  <2>4. app'.pc # "seeding"
    <3>1. CASE app' = O!Ready \/ app' = O!Tick \/ app' = [O!Ready EXCEPT !.pc = "ensure"]
      BY <3>1 DEF O!Ready, O!Tick
    <3>2. CASE app' = [app EXCEPT !.pc = "locked", !.song = song]
      BY <2>3, <3>2
    <3>3. CASE app' = [app EXCEPT !.pc = "cover"]
      BY <2>3, <3>3
    <3> QED BY <2>2, <3>1, <3>2, <3>3
  <2> QED BY <2>1, <2>4
<1>3. CASE O!Highlights \/ O!Replies
  BY <1>1, <1>3 DEF O!Highlights, O!Replies, O!covers
<1> QED BY <1>1, <1>2, <1>3, EventStep, ResnapshotStep, CoverArrivesStep, SeedStep
   DEF O!Next

(* The cover of the highlighted playlist.                                  *)
LEMMA PlaylistArtStep ==
    ASSUME OverlaysInv, O!Next
    PROVE  PlaylistArtFetched'
<1>1. PlaylistArtFetched
  BY DEF OverlaysInv
<1>2. CASE O!ensure_playlist_cover
  <2>1. CASE UNCHANGED <<playlist_art, fetches>>
    BY <1>1, <2>1 DEF PlaylistArtFetched
  <2>2. CASE /\ playlist_art' = O!set_pending(row)
             /\ O!Spawn([kind |-> "cover", id |-> row, generation |-> O!Spare(row)])
    <3> DEFINE f == [kind |-> "cover", id |-> row, generation |-> O!Spare(row)]
    <3>1. f.kind = "cover" /\ f.id = row
      OBVIOUS
    <3>2. f \in fetches'
      BY <2>2 DEF O!Spawn
    <3> HIDE DEF f
    <3>3. playlist_art'.current_id = row
      BY <2>2 DEF O!set_pending
    <3> QED BY <3>1, <3>2, <3>3 DEF PlaylistArtFetched
  <2>3. CASE playlist_art' = O!Nothing
    BY <2>3, NothingFacts DEF PlaylistArtFetched
  <2> QED BY <1>2, <2>1, <2>2, <2>3 DEF O!ensure_playlist_cover
<1>3. CASE UNCHANGED playlist_art /\ \A f \in fetches : f.kind = "cover" => f \in fetches'
  BY <1>1, <1>3 DEF PlaylistArtFetched
<1>4. CASE O!Replies
  <2>1. PICK f \in fetches :
            /\ fetches' = fetches \ {f}
            /\ O!LyricsArrive(f) \/ O!LyricsFail(f) \/ O!InfoArrives(f) \/ O!PlaylistCoverArrives(f)
    BY <1>4 DEF O!Replies
  <2>2. CASE O!PlaylistCoverArrives(f)
    <3>1. f.kind = "cover" /\ f.id # None
      BY <2>2, NoneIsNoCover DEF O!PlaylistCoverArrives, OverlaysInv, LoopTyped
    <3>2. \/ playlist_art' = playlist_art
             /\ (playlist_art.current_id # f.id \/ playlist_art.image # None)
          \/ playlist_art' = O!Nothing
          \/ playlist_art' = [current_id |-> f.id, image |-> f.id]
      BY <2>2 DEF O!PlaylistCoverArrives, O!load, O!superseded, O!fail_pending
    <3>3. CASE /\ playlist_art' = playlist_art
               /\ playlist_art.current_id # f.id \/ playlist_art.image # None
      BY <1>1, <2>1, <3>3 DEF PlaylistArtFetched
    <3>4. CASE playlist_art' = O!Nothing
      BY <3>4, NothingFacts DEF PlaylistArtFetched
    <3>5. CASE playlist_art' = [current_id |-> f.id, image |-> f.id]
      BY <3>1, <3>5 DEF PlaylistArtFetched
    <3> QED BY <3>2, <3>3, <3>4, <3>5
  <2>3. CASE O!LyricsArrive(f) \/ O!LyricsFail(f) \/ O!InfoArrives(f)
    <3>1. UNCHANGED playlist_art /\ f.kind # "cover"
      BY <2>3 DEF O!LyricsArrive, O!LyricsFail, O!InfoArrives
    <3> QED BY <1>3, <2>1, <3>1
  <2> QED BY <2>1, <2>2, <2>3
<1>5. \/ O!ensure_playlist_cover \/ O!Replies
      \/ UNCHANGED playlist_art /\ fetches \subseteq fetches'
  BY DEF O!Next, O!apply_now_playing_changed, O!apply_config_changed,
     O!Resnapshots, O!CoverArrives, O!seed_cover_art, O!toggle_lyrics, O!RetriesLyrics, O!tick_post,
     O!ReadsSong, O!ensure_open_lyrics, O!OpensInfo, O!open_info, O!ClosesInfo, O!Highlights,
     O!Spawn
<1> QED BY <1>2, <1>3, <1>4, <1>5

LEMMA OverlaysStep == OverlaysInv /\ [O!Next]_varsO => OverlaysInv'
<1>1. OverlaysInv /\ O!Next => OverlaysInv'
  BY LoopStep, LyricsStep, InfoStep, ArtStep, PlaylistArtStep DEF OverlaysInv
<1>2. ASSUME OverlaysInv, UNCHANGED varsO
      PROVE  OverlaysInv'
  <2>1. UNCHANGED <<song, cover_art, lyrics, info, art, playlist_art, fetches, pump, app, outdated>>
    BY <1>2 DEF varsO
  <2>2. LyricsTyped' /\ InfoTyped' /\ LoopTyped'
    BY <1>2, <2>1 DEF OverlaysInv, LyricsTyped, InfoTyped, LoopTyped
  <2>3. LyricsShown' /\ InfoShown' /\ PlaylistArtFetched'
    BY <1>2, <2>1 DEF OverlaysInv, LyricsShown, InfoShown, PlaylistArtFetched
  <2>4. ArtReserved' /\ ArtShown'
    BY <1>2, <2>1 DEF OverlaysInv, ArtReserved, ArtShown
  <2> QED BY <2>2, <2>3, <2>4 DEF OverlaysInv
<1> QED BY <1>1, <1>2

LEMMA OverlaysAtRest == OverlaysInv => O!OverlaysShowTheirSubject /\ O!ArtIsOfTheSong
<1> SUFFICES ASSUME OverlaysInv
             PROVE  O!OverlaysShowTheirSubject /\ O!ArtIsOfTheSong
  OBVIOUS
<1>1. O!OverlaysShowTheirSubject
  BY DEF OverlaysInv, LyricsShown, InfoShown, O!Awaited, O!OverlaysShowTheirSubject
<1>2. O!ArtIsOfTheSong
  BY DEF OverlaysInv, ArtReserved, ArtShown, PlaylistArtFetched, O!ArtIsOfTheSong
<1> QED BY <1>1, <1>2

(***************************************************************************)
(* The sessions: each runs one of the modules, under more constraints.     *)
(***************************************************************************)
TuiInv ==
    /\ session \in {"playlists", "faulty playlists"} => PlaylistsInv
    /\ session = "library" => LibraryInv
    /\ session \in {"overlays", "covers"} => OverlaysInv
    /\ session = "pages" => PagesInv
    /\ session = "settings" => SettingsInv

LEMMA TuiInit == Init => TuiInv
<1>1. Init =>
          \/ session \in {"playlists", "faulty playlists"} /\ P!Init
          \/ session = "library" /\ L!Init
          \/ session \in {"overlays", "covers"} /\ O!Init
          \/ session = "pages" /\ G!Init
          \/ session = "settings" /\ S!Init
  BY DEF Init, PlaylistsInit, FaultyInit, OverlaysInit, CoversInit
<1> QED BY <1>1, PlaylistsInvInit, LibraryInit, OverlaysInvInit, PagesInit, SettingsInit
        DEF TuiInv

LEMMA TuiStep == TuiInv /\ [Next]_vars => TuiInv'
<1> SUFFICES ASSUME TuiInv, [Next]_vars
             PROVE  TuiInv'
  OBVIOUS
<1>1. /\ UNCHANGED session
      /\ session \in {"playlists", "faulty playlists"} => [P!Next]_varsP
      /\ session = "library" => [L!Next]_varsL
      /\ session \in {"overlays", "covers"} => [O!Next]_varsO
      /\ session = "pages" => [G!Next]_varsG
      /\ session = "settings" => [S!Next]_varsS
  <2>1. CASE Next
    BY <2>1 DEF Next, PlaylistsNext, FaultyNext, OverlaysNext, CoversNext
  <2>2. CASE UNCHANGED vars
    BY <2>2 DEF vars
  <2> QED BY <2>1, <2>2
<1> QED BY <1>1, PlaylistsStep, LibraryStep, OverlaysStep, PagesStep, SettingsStep DEF TuiInv

LEMMA TuiInvariance == Spec => []TuiInv
<1> QED BY TuiInit, TuiStep, PTL DEF Spec

(* J and K swap the row the song cursor names without a check              *)
(* (move_playlist_song, src/src/app/input_playlists.rs): the cursor is in  *)
(* the pane after every removal, answer and deletion.                      *)
THEOREM SongCursorStays == Spec => []SongCursorInPane
<1>1. TuiInv => SongCursorInPane
  BY PlaylistsAtRest DEF TuiInv, SongCursorInPane
<1> QED BY <1>1, TuiInvariance, PTL

(* The pane between two requests, and after it what the picker has added   *)
(* since it was loaded, is what the server has, unless another client or a *)
(* failed call is to blame: the answers to removals and moves, which the   *)
(* code applies first, are never applied to the wrong playlist             *)
(* (reconcile_playlist_songs, src/src/app/input_playlists.rs).             *)
THEOREM PaneIsTheServers == Spec => []UndisturbedPaneIsServer
<1>1. TuiInv => UndisturbedPaneIsServer
  BY PlaylistsAtRest DEF TuiInv, UndisturbedPaneIsServer
<1> QED BY <1>1, TuiInvariance, PTL

(* search_gen keeps the answer to an older query from being shown for a    *)
(* newer one (src/src/app/input_library.rs).                               *)
THEOREM SearchEndsCurrent == Spec => []QuietSearchIsCurrent
<1>1. TuiInv => QuietSearchIsCurrent
  BY LibraryAtRest DEF TuiInv, QuietSearchIsCurrent
<1> QED BY <1>1, TuiInvariance, PTL

(* The generation and the id of a fetch keep late lyrics and info off the  *)
(* screen (src/src/app/input_lyrics.rs, input_info.rs), and "loading" ends. *)
THEOREM OverlaysAreTrue == Spec => []OverlaysShowTheirSubject
<1>1. TuiInv => OverlaysShowTheirSubject
  BY OverlaysAtRest DEF TuiInv, OverlaysShowTheirSubject
<1> QED BY <1>1, TuiInvariance, PTL

(* Reserving an id before a cover is fetched (set_pending,                 *)
(* src/src/ui/cover_art.rs) keeps a late cover from replacing a newer one: *)
(* the cover drawn is another song's only after startup fetched it for a   *)
(* song that had gone, or after the pump lost events and took a snapshot   *)
(* (src/src/app/event_pump.rs), and until the next event.                  *)
THEOREM CoverIsOfTheSong == Spec => []ArtIsOfTheSong
<1>1. TuiInv => ArtIsOfTheSong
  BY OverlaysAtRest DEF TuiInv, ArtIsOfTheSong
<1> QED BY <1>1, TuiInvariance, PTL

(* handle_key (src/src/app/input.rs) asks the layers in an order of its    *)
(* own; no two are open together, so the one on top gets the key.          *)
THEOREM KeysReachTheTop == Spec => []KeysGoWhereTheUserLooks
<1>1. TuiInv => KeysGoWhereTheUserLooks
  BY PagesAtRest DEF TuiInv, KeysGoWhereTheUserLooks
<1> QED BY <1>1, TuiInvariance, PTL

(* The event of the newest change brings the page to the daemon's settings *)
(* (apply_config_changed, src/src/app/event_pump.rs), unless it was lost   *)
(* on its way, a change failed to save, an editor wrote an older value     *)
(* over it or events were emitted in the other order.                      *)
THEOREM SettingsEndCurrent == Spec => []QuietSettingsAreConfig
<1>1. TuiInv => QuietSettingsAreConfig
  BY SettingsAtRest DEF TuiInv, QuietSettingsAreConfig
<1> QED BY <1>1, TuiInvariance, PTL
=============================================================================
