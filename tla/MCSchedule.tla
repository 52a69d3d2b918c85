------------------------------ MODULE MCSchedule ------------------------------
(* One object with two timers, added with intervals 0 and 2, and counts -1 (no end), 0 and 2. *)
EXTENDS Schedule

IntervalsValue == {0, 2}
CountsValue == {-1, 0, 2}
===============================================================================
