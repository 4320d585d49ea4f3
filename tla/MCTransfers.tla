------------------------------ MODULE MCTransfers ------------------------------
(***************************************************************************)
(* Instances of Transfers for model checking.                              *)
(***************************************************************************)
EXTENDS Transfers

\* Two files on the second FROM endpoint of a watched route, and one on the first
\* of a scheduled route.
WatchedAndScheduled == [f \in {1, 2, 3} |-> IF f = 3 THEN <<2, 1>> ELSE <<1, 2>>]
================================================================================
