------------------------------- MODULE Cursor -------------------------------
(* The list cursors of the terminal interface: an optional row number, counted *)
(* from 0, into a list that events may replace at any time (the Up, Down and   *)
(* scroll arms of src/src/app/input_*.rs and mouse.rs, event_pump.rs).         *)
EXTENDS Integers, Sequences

CONSTANT None

InList(cursor, list) == cursor # None => cursor < Len(list)

Row(list, i) == list[i + 1]

HasRow(list, cursor) == cursor # None /\ cursor < Len(list)

First(list) == IF list = <<>> THEN None ELSE 0

MoveUp(cursor, list) ==
    IF cursor = None THEN First(list) ELSE IF cursor > 0 THEN cursor - 1 ELSE 0

(* A cursor that is already past the last row stays where it is. *)
MoveDown(cursor, list) ==
    IF cursor = None THEN First(list)
    ELSE IF cursor < Len(list) - 1 THEN cursor + 1 ELSE cursor

(* The last row when the list has become shorter. *)
clamp_selection(cursor, len) ==
    IF cursor = None \/ cursor < len THEN cursor
    ELSE IF len = 0 THEN None ELSE len - 1

WithoutRow(list, i) == SubSeq(list, 1, i) \o SubSeq(list, i + 2, Len(list))

SwapRows(list, i, j) ==
    [list EXCEPT ![i + 1] = list[j + 1], ![j + 1] = list[i + 1]]
=============================================================================
