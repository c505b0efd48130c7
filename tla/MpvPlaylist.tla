----------------------------- MODULE MpvPlaylist -----------------------------
(***************************************************************************)
(* mpv's playlist, from how src/audio/mpv.rs drives it.  The daemon keeps  *)
(* at most two entries in it: the playing file and its gapless successor.  *)
(* A dead mpv answers nothing, so commands sent to it change nothing.      *)
(***************************************************************************)
EXTENDS RepeatMode, Sequences, SequencesExt

DeadMpv == [alive |-> FALSE, list |-> <<>>, pos |-> None]

IdleMpv == [alive |-> TRUE, list |-> <<>>, pos |-> None]

mpv_stop(m) == IF m.alive THEN IdleMpv ELSE m

loadfile(m, s) ==
    IF m.alive THEN [alive |-> TRUE, list |-> <<s>>, pos |-> 0] ELSE m

loadfile_append(m, s) == [m EXCEPT !.list = Append(@, s)]

(* Removing the playing entry starts the one after it, or goes idle. *)
playlist_remove(m, i) ==
    [alive |-> m.alive,
     list |-> RemoveAt(m.list, i + 1),
     pos |-> IF i < m.pos THEN m.pos - 1
             ELSE IF i = m.pos /\ i + 1 = Len(m.list) THEN None
             ELSE m.pos]

drop_preload(m) == IF Len(m.list) > 1 THEN playlist_remove(m, 1) ELSE m

(* What a file's end leaves: the next entry playing, or mpv idle with its  *)
(* playlist kept.                                                          *)
mpv_file_ends(m) ==
    [m EXCEPT !.pos = IF @ + 1 < Len(m.list) THEN @ + 1 ELSE None]
=============================================================================
