------------------------------ MODULE TrackCache ------------------------------
(* The offline track cache (src/src/daemon/track_cache.rs) and the tasks that  *)
(* fill it (daemon/core.rs): a song that is streamed from the server is also   *)
(* downloaded, indexed by its id, and the oldest songs make room for it. The   *)
(* cache lock is held from a commit through the eviction after it.             *)
(*                                                                             *)
(* Every song has the size one. Which entries are the oldest is left open. The *)
(* cap is read before the lock is waited for.                                  *)
EXTENDS Naturals, FiniteSets, Sequences, SequencesExt

CONSTANTS
    None,
    Songs,
    Caps,        \* the caps that offline_cache_max_mb is changed between
    MaxPlays,    \* bound on the starts of songs
    MaxEdits,    \* bound on the edits of the queue and the settings
    MaxFaults    \* bound on crashes, failed calls and deleted files

VARIABLES
    queue,
    start,       \* the start under the transition lock, or None
    enabled, cap, \* the settings
    index,       \* the songs that are indexed
    in_flight, total_bytes,
    disk,        \* the files of the cache: [of, whole], or None
    saved,       \* the index on the disk
    tasks,       \* populate_cache: [id, url, step, cap]
    evicting,    \* the eviction that holds the cache lock: [to, removed], or None
    plays, edits, faults

settings == <<enabled, cap>>
memory == <<index, in_flight, total_bytes, evicting>>
files == <<disk, saved>>
bounds == <<plays, edits, faults>>
vars == <<queue, start, settings, memory, files, tasks, bounds>>

final_path(id) == <<id, "audio">>

part_path_is_final(id) == final_path(id) \* Fault: the download goes where it will be looked for

part_path(id) == <<id, "part">>

Init ==
    /\ queue \in {q \in [1..Cardinality(Songs) -> Songs] : IsInjective(q)}
    /\ start = None
    /\ enabled = TRUE /\ cap \in Caps
    /\ index = {} /\ in_flight = {} /\ total_bytes = 0
    /\ disk = [f \in Songs \X {"audio", "part"} |-> None] /\ saved = {}
    /\ tasks = {} /\ evicting = None
    /\ plays = 0 /\ edits = 0 /\ faults = 0

Fault == faults < MaxFaults /\ faults' = faults + 1

-----------------------------------------------------------------------------
(* The queue and the settings change. *)

Edit == edits < MaxEdits /\ edits' = edits + 1

EditsQueue ==
    /\ Edit
    /\ \E i \in DOMAIN queue :
           LET rest == RemoveAt(queue, i)
           IN  \/ queue' = rest
               \/ \E j \in 1..Len(queue) : queue' = InsertAt(rest, j, queue[i])
    /\ UNCHANGED <<start, settings, memory, files, tasks, plays, faults>>

set_offline_cache ==
    /\ Edit
    /\ \/ enabled' = ~enabled /\ UNCHANGED cap
       \/ cap' \in Caps \ {cap} /\ UNCHANGED enabled
    /\ UNCHANGED <<queue, start, memory, files, tasks, plays, faults>>

-----------------------------------------------------------------------------
(* A song starts. *)

path_for(id) == id \in index /\ disk[final_path(id)] # None

(* The song's copy is preferred to its stream. *)
commit_play_state(pos) ==
    /\ start = None /\ evicting = None
    /\ plays < MaxPlays /\ plays' = plays + 1
    /\ start' = [pos |-> pos, song |-> queue[pos], local |-> enabled /\ path_for(queue[pos])]
    /\ UNCHANGED <<queue, settings, memory, files, tasks, edits, faults>>

(* After the load and the preload, the entry is looked up again. *)
spawn_cache_population ==
    /\ start # None
    /\ tasks' = IF ~start.local /\ enabled /\ start.pos \in DOMAIN queue
                THEN tasks \cup {[id |-> queue[start.pos], url |-> start.song, step |-> "spawned",
                                  cap |-> None]}
                ELSE tasks
    /\ start' = None
    /\ UNCHANGED <<queue, settings, memory, files, bounds>>

-----------------------------------------------------------------------------
(* populate_cache *)

Goes(t, step) == tasks' = (tasks \ {t}) \cup {[t EXCEPT !.step = step]}

Reserved_indexed(id) == id \in index \* Fault: a second download of a song is let in

Reserved(id) == id \in index \/ id \in in_flight

begin(t) ==
    /\ t.step = "spawned" /\ evicting = None
    /\ IF Reserved(t.id)
       THEN tasks' = tasks \ {t} /\ UNCHANGED in_flight
       ELSE Goes(t, "get") /\ in_flight' = in_flight \cup {t.id}
    /\ UNCHANGED <<queue, start, settings, index, total_bytes, evicting, files, bounds>>

download_to_path(t) ==
    /\ \/ /\ t.step = "get" /\ Goes(t, "write")
          /\ disk' = [disk EXCEPT ![part_path(t.id)] = [of |-> t.url, whole |-> FALSE]]
       \/ /\ t.step = "write" /\ Goes(t, "rename")
          /\ disk' = [disk EXCEPT ![part_path(t.id)] = [of |-> t.url, whole |-> TRUE]]
    /\ UNCHANGED <<queue, start, settings, memory, saved, bounds>>

(* The download or the rename fails: nothing of it is kept. *)
abandon(t) ==
    /\ t.step \in {"get", "write", "rename"} /\ evicting = None /\ Fault
    /\ disk' = [disk EXCEPT ![part_path(t.id)] = None]
    /\ in_flight' = in_flight \ {t.id}
    /\ tasks' = tasks \ {t}
    /\ UNCHANGED <<queue, start, settings, index, total_bytes, evicting, saved, plays, edits>>

Renames(t) ==
    /\ t.step = "rename"
    /\ disk' = [disk EXCEPT ![part_path(t.id)] = None,
                            ![final_path(t.id)] = disk[part_path(t.id)]]
    /\ tasks' = (tasks \ {t}) \cup {[t EXCEPT !.step = "commit", !.cap = cap]}
    /\ UNCHANGED <<queue, start, settings, memory, saved, bounds>>

(* A failed write of the index is not noticed. *)
persist ==
    \/ saved' = index' /\ UNCHANGED faults
    \/ Fault /\ UNCHANGED saved

commit(t) ==
    /\ t.step = "commit" /\ evicting = None
    /\ in_flight' = in_flight \ {t.id}
    /\ total_bytes' = total_bytes + 1
    /\ index' = index \cup {t.id}
    /\ persist
    /\ evicting' = [to |-> t.cap, removed |-> FALSE]
    /\ tasks' = tasks \ {t}
    /\ UNCHANGED <<queue, start, settings, disk, plays, edits>>

Fits == total_bytes <= evicting.to \/ index = {}

evict_to ==
    /\ evicting # None /\ ~Fits
    /\ \E id \in index :
           /\ disk' = [disk EXCEPT ![final_path(id)] = None]
           /\ index' = index \ {id}
    /\ total_bytes' = total_bytes - 1
    /\ evicting' = [evicting EXCEPT !.removed = TRUE]
    /\ UNCHANGED <<queue, start, settings, in_flight, saved, tasks, bounds>>

EvictionEnds ==
    /\ evicting # None /\ Fits
    /\ evicting' = None /\ UNCHANGED index
    /\ IF evicting.removed THEN persist ELSE UNCHANGED <<saved, faults>>
    /\ UNCHANGED <<queue, start, settings, in_flight, total_bytes, disk, tasks, plays, edits>>

-----------------------------------------------------------------------------
(* Somebody deletes a file of the cache. *)
Vanishes(id) ==
    /\ disk[final_path(id)] # None /\ Fault
    /\ disk' = [disk EXCEPT ![final_path(id)] = None]
    /\ UNCHANGED <<queue, start, settings, memory, saved, tasks, plays, edits>>

(* The daemon ends, or is killed, and opens the cache when it starts again. *)
open ==
    /\ Fault
    /\ index' = {id \in saved : disk[final_path(id)] # None}
    /\ total_bytes' = Cardinality(index')
    /\ in_flight' = {} /\ tasks' = {} /\ start' = None /\ evicting' = None
    /\ UNCHANGED <<queue, settings, files, plays, edits>>

Next ==
    \/ EditsQueue \/ set_offline_cache
    \/ \E pos \in DOMAIN queue : commit_play_state(pos)
    \/ spawn_cache_population
    \/ \E t \in tasks : begin(t) \/ download_to_path(t) \/ abandon(t) \/ Renames(t) \/ commit(t)
    \/ evict_to \/ EvictionEnds
    \/ \E id \in Songs : Vanishes(id)
    \/ open

Spec == Init /\ [][Next]_vars

-----------------------------------------------------------------------------
(* The total that evictions go by is that of the songs indexed, however often  *)
(* a song is asked for while it downloads, is evicted or loses its file        *)
(* (track_cache.rs:98 adds the size of a song without looking for it).         *)
CacheIsAccounted == total_bytes = Cardinality(index)

(* "A track is only indexed once its `.part` download has been renamed into    *)
(* place, so a crash can never leave a partial file counted as cached": not    *)
(* even when the index on the disk still has a song that was evicted, deleted  *)
(* or is downloaded anew.                                                      *)
IndexedIsWhole == \A id \in index : disk[final_path(id)] # None => disk[final_path(id)].whole

(* The index can be trusted for what it counts and what it names.              *)
CacheIsSound == CacheIsAccounted /\ IndexedIsWhole

(* "Path of a cached copy of `song_id`, if the offline cache holds one"        *)
(* (src/src/daemon/core.rs:767): what is cached for a song is that song.       *)
CachedIsTheSong == \A id \in index : disk[final_path(id)] # None => disk[final_path(id)].of = id
=============================================================================
