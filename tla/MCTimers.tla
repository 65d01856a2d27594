------------------------------ MODULE MCTimers ------------------------------
(***************************************************************************)
(* Timers on two ids: enough for one timer to be started while another is  *)
(* stopped.  A timer that ran for less than a minute pays nothing.         *)
(***************************************************************************)
EXTENDS Timers, TLC

MCMinutes == {0, 25}

Interchangeable == Permutations(Requests) \cup Permutations(Ids)

=============================================================================
