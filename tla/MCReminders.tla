---------------------------- MODULE MCReminders ----------------------------
(***************************************************************************)
(* The instance of Reminders that is model-checked.  A calendar decides    *)
(* which messages fall due; each has the messages of one stage, so that    *)
(* the stages' interleavings add up instead of multiplying.  The instants  *)
(* lie between the afternoon of day 0 and the noon of day 1 (2 .. 6):      *)
(* midnight, the new month and the UTC midnight lie in between.            *)
(***************************************************************************)
EXTENDS Reminders

Plain(a, b) == [workDays |-> {}, feasts |-> {}, holidays |-> {}, ending |-> None, from |-> a, to |-> b]

SmallCalendars ==
    { [Plain(4, 5) EXCEPT !.feasts = {1}],
      [Plain(4, 5) EXCEPT !.workDays = {1}],
      [Plain(3, 4) EXCEPT !.workDays = {0}],
      [Plain(2, 4) EXCEPT !.holidays = {1}],
      [Plain(4, 6) EXCEPT !.ending = 2] }
=============================================================================
