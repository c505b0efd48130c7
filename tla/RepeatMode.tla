----------------------------- MODULE RepeatMode -----------------------------
(***************************************************************************)
(* The pure successor functions of the repeat modes (src/config/mod.rs).   *)
(* Queue positions are the code's 0-based indices; None stands for the     *)
(* Option's None and is never a valid index.                               *)
(***************************************************************************)
EXTENDS Integers

None == -1

Modes == {"Off", "One", "All"}

(* Auto-advance: One repeats, All wraps, Off ends at the last entry. *)
next_auto(mode, cur, len) ==
    IF len = 0 THEN None
    ELSE CASE mode = "One" -> cur
           [] mode = "All" -> (cur + 1) % len
           [] mode = "Off" -> IF cur + 1 < len THEN cur + 1 ELSE None

(* Manual skip: One is ignored, the user wants to move.  Fault: the end of *)
(* the queue is not checked.                                               *)
next_manual_unchecked(mode, cur, len) == IF len = 0 THEN None ELSE cur + 1

next_manual(mode, cur, len) ==
    IF len = 0 THEN None
    ELSE IF mode \in {"All", "One"} THEN (cur + 1) % len
    ELSE IF cur + 1 < len THEN cur + 1
    ELSE None

(* Manual prev from position 0. *)
prev_wrap(mode, len) ==
    IF len = 0 \/ mode = "Off" THEN None ELSE len - 1

=============================================================================
