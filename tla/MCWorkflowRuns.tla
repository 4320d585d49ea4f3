---------------------------- MODULE MCWorkflowRuns ----------------------------
(***************************************************************************)
(* Instances of WorkflowRuns for model checking.                           *)
(***************************************************************************)
EXTENDS WorkflowRuns

\* 1 before 2 and 3, which are independent, and 4 after both.
DiamondDeps == [o \in {1, 2, 3, 4} |-> CASE o = 1 -> {} [] o = 4 -> {2, 3} [] OTHER -> {1}]

\* 1 and 2 independent, 3 after both.
JoinDeps == [o \in {1, 2, 3} |-> IF o = 3 THEN {1, 2} ELSE {}]

\* One operation.
OneDeps == [o \in {1} |-> {}]
=============================================================================
