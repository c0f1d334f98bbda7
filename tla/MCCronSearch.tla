---------------------------- MODULE MCCronSearch ----------------------------
(***************************************************************************)
(* CronSearch on the instance of MCCalendar.                               *)
(***************************************************************************)
EXTENDS CronSearch, MCCalendar
=============================================================================
