------------------------------ MODULE MCDailyJobs ------------------------------
(* Two processes, one of which can do again what the other has done.          *)
EXTENDS DailyJobs
================================================================================
