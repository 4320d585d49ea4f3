------------------------------ MODULE MCSchedules ------------------------------
(***************************************************************************)
(* Instances of Schedules for model checking, in units of 10 seconds: a    *)
(* tick is 30 s and lookback_seconds 60, as in server.py and the factory.  *)
(***************************************************************************)
EXTENDS Schedules, TLC

\* Due every minute, and every two.
EveryMinute == [w \in {1, 2} |-> 6 * w]

\* The workflow tick (30 s) and a task that every tick runs, as transfer_poll is.
Intervals == <<3, 1>>

\* One process is like another.
Symmetry == Permutations(Processes)
================================================================================
