---------------------------- MODULE LibraryCache ----------------------------
(* The daemon's copy of the library (src/src/daemon/library_ops.rs): refreshes *)
(* of the artists, the random songs and the starred songs, the choice of a     *)
(* music folder, and the star and the rating of a song, of which the queue and *)
(* the random songs hold a copy each. An operation awaits the server between   *)
(* reading the client and writing the state, and others run meanwhile.         *)
(*                                                                             *)
(* The artists stand for every list a folder scopes. A change of the server is *)
(* a switch like that of the folder; the star and the rating are followed as   *)
(* long as the server stays.                                                   *)
EXTENDS Naturals

CONSTANTS
    None,
    Folders,
    Ratings,
    Operations,    \* the operations asked for
    MaxOperations, \* bound on the operations
    MaxFaults      \* bound on failing calls

VARIABLES
    folder,       \* the folder of the client in its slot
    config_gen,
    artists,      \* the folder the cached artists are of
    queue_copy,   \* the queue's copy of the song: its rating and its star
    random_rating, random_star, \* those of the copy among the random songs
    starred_id,   \* the song is in starred_ids
    rated, starred, \* the server's rating and star
    rating_updates, \* the rating that holds the lock, or None
    tasks,        \* the operations under way
    begun, faults,
    excused       \* history: the lists that what is known to go wrong has reached

caches == <<artists, queue_copy, random_rating, random_star, starred_id>>
server == <<rated, starred>>
bounds == <<begun, faults>>
vars == <<folder, config_gen, caches, server, rating_updates, tasks, bounds, excused>>

Init ==
    /\ folder \in Folders /\ config_gen = 0
    /\ artists = folder
    /\ rated \in Ratings /\ starred = FALSE
    /\ queue_copy = [rating |-> rated, star |-> starred]
    /\ random_rating = rated /\ random_star = starred /\ starred_id = starred
    /\ rating_updates = None
    /\ tasks = {}
    /\ begun = 0 /\ faults = 0
    /\ excused = {}

Fault == faults < MaxFaults /\ faults' = faults + 1

NoFault == UNCHANGED faults

(* What goes wrong with a list is kept until the list is written anew. *)
Excuse(list, bad) == excused' = IF bad THEN excused \cup {list} ELSE excused

-----------------------------------------------------------------------------
Task(op, asked, then) ==
    [n |-> begun, op |-> op, step |-> "start", asked |-> asked, then |-> then,
     folder |-> None, gen |-> None, straddles |-> FALSE, checked |-> None,
     old |-> None, failed |-> FALSE, reply |-> None]

Requested(op) ==
    CASE op = "folder" -> {Task(op, f, "artists") : f \in Folders \ {folder}}
      [] op = "rate" -> {Task(op, r, None) : r \in Ratings}
      [] OTHER -> {Task(op, None, None)}

Begins(op) ==
    /\ begun < MaxOperations /\ begun' = begun + 1
    /\ \E t \in Requested(op) : tasks' = tasks \cup {t}
    /\ UNCHANGED <<folder, config_gen, caches, server, rating_updates, faults, excused>>

Becomes(t, u) == tasks' = (tasks \ {t}) \cup {u}

(* After a switch the lists are refreshed one after the other. *)
Ends(t) ==
    IF t.then = None THEN tasks' = tasks \ {t}
    ELSE Becomes(t, [Task(t.then, None, IF t.then = "artists" THEN "random" ELSE None)
                       EXCEPT !.n = t.n])

-----------------------------------------------------------------------------
(* refresh_artists, refresh_random and refresh_starred. *)

Refreshes(t) == t.op \in {"artists", "random", "starred"}

(* The slot of the client is read before the generation. *)
ClonesClient(t) ==
    /\ Refreshes(t) /\ t.step = "start"
    /\ Becomes(t, [t EXCEPT !.step = "gen", !.folder = folder])
    /\ UNCHANGED <<folder, config_gen, caches, server, rating_updates, bounds, excused>>

ReadsGen(t) ==
    /\ t.step = "gen"
    /\ Becomes(t, [t EXCEPT !.step = "ask", !.gen = config_gen,
                            !.straddles = t.folder # folder])
    /\ UNCHANGED <<folder, config_gen, caches, server, rating_updates, bounds, excused>>

Answer(t) ==
    CASE t.op = "artists" -> t.folder
      [] t.op = "random" -> [rating |-> rated, star |-> starred]
      [] t.op = "starred" -> starred

Asks(t) ==
    /\ t.step = "ask"
    /\ \/ /\ Becomes(t, [t EXCEPT !.step = "check", !.reply = Answer(t)])
          /\ NoFault /\ UNCHANGED excused
       \/ /\ Fault /\ Ends(t)
          /\ Excuse("artists", t.op = "artists")
    /\ UNCHANGED <<folder, config_gen, caches, server, rating_updates, begun>>

config_gen_changed_never(gen) == gen > config_gen \* Fault: what was asked for before a switch is kept

config_gen_changed(gen) == gen # config_gen

Checks(t) ==
    /\ t.step = "check"
    /\ IF config_gen_changed(t.gen) THEN Ends(t)
       ELSE Becomes(t, [t EXCEPT !.step = "write", !.checked = config_gen])
    /\ UNCHANGED <<folder, config_gen, caches, server, rating_updates, bounds, excused>>

(* The state lock is waited for after the check. *)
WritesArtists(t) ==
    /\ t.op = "artists" /\ t.step = "write"
    /\ artists' = t.reply
    /\ IF t.reply = folder THEN excused' = excused \ {"artists"}
       ELSE Excuse("artists", t.straddles \/ t.checked # config_gen)
    /\ Ends(t)
    /\ UNCHANGED <<folder, config_gen, queue_copy, random_rating, random_star, starred_id,
                   server, rating_updates, bounds>>

(* A rating under way writes every copy once more, a toggle does not. *)
OldMarks(reply) ==
    {m \in {"rating", "star"} :
        \/ m = "rating" /\ reply.rating # rated /\ rating_updates = None
        \/ m = "star" /\ reply.star # starred
        \/ m = "star" /\ \E t \in tasks :
               t.op = "star" /\ t.step = "call" /\ t.asked # reply.star}

WritesRandom(t) ==
    /\ t.op = "random" /\ t.step = "write"
    /\ random_rating' = t.reply.rating /\ random_star' = t.reply.star
    /\ excused' = excused \cup OldMarks(t.reply)
    /\ Ends(t)
    /\ UNCHANGED <<folder, config_gen, artists, queue_copy, starred_id, server,
                   rating_updates, bounds>>

WritesStarred(t) ==
    /\ t.op = "starred" /\ t.step = "write"
    /\ starred_id' = t.reply
    /\ Excuse("star", t.reply # starred)
    /\ Ends(t)
    /\ UNCHANGED <<folder, config_gen, artists, queue_copy, random_rating, random_star,
                   server, rating_updates, bounds>>

-----------------------------------------------------------------------------
(* apply_music_folder: the generation and the folder change under one lock.    *)
apply_music_folder(t) ==
    /\ t.op = "folder"
    /\ folder' = t.asked /\ config_gen' = config_gen + 1
    /\ Ends(t)
    /\ UNCHANGED <<caches, server, rating_updates, bounds, excused>>

-----------------------------------------------------------------------------
(* set_song_rating *)

rating_is_free_always == rating_updates = rating_updates \* Fault: two ratings run at once

rating_is_free == rating_updates = None

(* The old rating is that of the first copy. *)
Rates(t) ==
    /\ t.op = "rate" /\ t.step = "start"
    /\ rating_is_free
    /\ rating_updates' = t.n
    /\ queue_copy' = [queue_copy EXCEPT !.rating = t.asked]
    /\ random_rating' = t.asked
    /\ Becomes(t, [t EXCEPT !.step = "call", !.gen = config_gen, !.old = queue_copy.rating])
    /\ UNCHANGED <<folder, config_gen, artists, random_star, starred_id, server, bounds,
                   excused>>

(* A failing call may have had its effect. *)
CallsSetRating(t) ==
    /\ t.op = "rate" /\ t.step = "call"
    /\ \/ rated' = t.asked /\ NoFault /\ UNCHANGED excused
          /\ Becomes(t, [t EXCEPT !.step = "commit"])
       \/ /\ Fault
          /\ \/ UNCHANGED <<rated, excused>>
             \/ rated' = t.asked /\ Excuse("rating", rated # t.asked)
          /\ Becomes(t, [t EXCEPT !.step = "commit", !.failed = TRUE])
    /\ UNCHANGED <<folder, config_gen, caches, starred, rating_updates, begun>>

CommitsRating(t) ==
    /\ t.op = "rate" /\ t.step = "commit"
    /\ LET kept == IF t.failed THEN t.old ELSE t.asked
       IN  IF t.gen # config_gen
           THEN /\ UNCHANGED <<queue_copy, random_rating>>
                /\ Excuse("rating", {queue_copy.rating, random_rating} # {rated})
           ELSE /\ queue_copy' = [queue_copy EXCEPT !.rating = kept]
                /\ random_rating' = kept
                /\ UNCHANGED excused
    /\ rating_updates' = None
    /\ Ends(t)
    /\ UNCHANGED <<folder, config_gen, artists, random_star, starred_id, server, bounds>>

-----------------------------------------------------------------------------
(* toggle_star_song *)

song_is_starred == starred_id \/ queue_copy.star \/ random_star

Toggling == \E t \in tasks : t.op = "star" /\ t.step # "start"

Toggles(t) ==
    /\ t.op = "star" /\ t.step = "start"
    /\ Becomes(t, [t EXCEPT !.step = "call", !.gen = config_gen, !.old = song_is_starred,
                            !.asked = ~song_is_starred])
    /\ starred_id' = ~song_is_starred
    /\ queue_copy' = [queue_copy EXCEPT !.star = ~song_is_starred]
    /\ random_star' = ~song_is_starred
    /\ Excuse("star", Toggling)
    /\ UNCHANGED <<folder, config_gen, artists, random_rating, server, rating_updates, bounds>>

CallsStar(t) ==
    /\ t.op = "star" /\ t.step = "call"
    /\ \/ starred' = t.asked /\ NoFault /\ UNCHANGED excused
          /\ Becomes(t, [t EXCEPT !.step = "fetch"])
       \/ /\ Fault
          /\ \/ UNCHANGED <<starred, excused>>
             \/ starred' = t.asked /\ Excuse("star", TRUE)
          /\ Becomes(t, [t EXCEPT !.step = "rollback"])
    /\ UNCHANGED <<folder, config_gen, caches, rated, rating_updates, begun>>

RollsBackStar(t) ==
    /\ t.step = "rollback"
    /\ starred_id' = t.old
    /\ queue_copy' = [queue_copy EXCEPT !.star = t.old]
    /\ random_star' = t.old
    /\ Ends(t)
    /\ UNCHANGED <<folder, config_gen, artists, random_rating, server, rating_updates, bounds,
                   excused>>

FetchesStarred(t) ==
    /\ t.step = "fetch"
    /\ \/ Becomes(t, [t EXCEPT !.step = "adopt", !.reply = starred]) /\ NoFault
       \/ Becomes(t, [t EXCEPT !.step = "adopt", !.failed = TRUE]) /\ Fault
    /\ UNCHANGED <<folder, config_gen, caches, server, rating_updates, begun, excused>>

AdoptsStarred(t) ==
    /\ t.step = "adopt"
    /\ IF t.failed \/ config_gen_changed(t.gen)
       THEN UNCHANGED starred_id /\ Excuse("star", starred_id # t.asked)
       ELSE starred_id' = t.reply /\ UNCHANGED excused
    /\ Ends(t)
    /\ UNCHANGED <<folder, config_gen, artists, queue_copy, random_rating, random_star,
                   server, rating_updates, bounds>>

-----------------------------------------------------------------------------
Proceeds ==
    \E t \in tasks :
        \/ ClonesClient(t) \/ ReadsGen(t) \/ Asks(t) \/ Checks(t)
        \/ WritesArtists(t) \/ WritesRandom(t) \/ WritesStarred(t)
        \/ apply_music_folder(t)
        \/ Rates(t) \/ CallsSetRating(t) \/ CommitsRating(t)
        \/ Toggles(t) \/ CallsStar(t) \/ RollsBackStar(t)
        \/ FetchesStarred(t) \/ AdoptsStarred(t)

Next == (\E op \in Operations : Begins(op)) \/ Proceeds

Spec == Init /\ [][Next]_vars

-----------------------------------------------------------------------------
Quiet == tasks = {}

(* "Bump gen under the subsonic lock so any refresh in flight with the         *)
(* previous folder is discarded": at rest the artists are those of the folder  *)
(* chosen, unless the refresh after the choice failed, or another one had read *)
(* the client but not the generation, or had passed its check, at the switch.  *)
QuietListIsCurrent == Quiet => artists = folder \/ "artists" \in excused

(* However ratings, refreshes and switches overlap, at rest every copy has the *)
(* server's rating ("serialize rating transactions", "commit the confirmed     *)
(* value to those copies too"): unless a refresh wrote what it had been told   *)
(* before, a switch fell into the call, or a call failed that took effect.     *)
RatingsAgree ==
    Quiet /\ "rating" \notin excused =>
        queue_copy.rating = rated /\ random_rating = rated

(* A star, too, unless two toggles overlapped, a refresh wrote what it had     *)
(* been told before a toggle reached the server, or a call failed that took    *)
(* effect.                                                                     *)
StarsAgree ==
    Quiet /\ "star" \notin excused =>
        starred_id = starred /\ queue_copy.star = starred /\ random_star = starred

(* At rest the marks of a song are the server's, in every copy.                *)
MarksAgree == RatingsAgree /\ StarsAgree
=============================================================================
