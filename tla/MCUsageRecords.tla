--------------------------- MODULE MCUsageRecords ---------------------------
(* Instances of UsageRecords for TLC: two requests of one day, and blank       *)
(* records of the next.                                                       *)
EXTENDS UsageRecords
CONSTANTS today, tomorrow
MCDayOf == [r \in Records |-> IF r = Blank THEN tomorrow ELSE today]
=============================================================================
