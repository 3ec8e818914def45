----------------------------- MODULE MCCalendar -----------------------------
(***************************************************************************)
(* Where the clocks of Calendar start: before a leap day, before the end   *)
(* of a February without one in a year divisible by four, and before the   *)
(* end of a year.  Each date is a Monday.                                  *)
(***************************************************************************)
EXTENDS Calendar

MCStarts == {[year |-> 2024, month |-> 1], [year |-> 2100, month |-> 2],
             [year |-> 2025, month |-> 12]}
=============================================================================
