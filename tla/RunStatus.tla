------------------------------- MODULE RunStatus -------------------------------
(***************************************************************************)
(* The status columns of workflow_run and workflow_operation_run and the   *)
(* guarded transitions WorkflowRunRepository makes on them.  Every         *)
(* operator gives the status a repository method leaves in the row when    *)
(* the status it read is s: the early return of the method is the branch   *)
(* that gives s back.                                                      *)
(***************************************************************************)

TerminalRun == {"success", "failed", "cancelled"}
ActiveRun   == {"queued", "running", "cancel_requested", "waiting"}
RunStates   == TerminalRun \cup ActiveRun

WaitingOp   == {"waiting_for_user_input", "waiting_for_approval"}
TerminalOp  == {"success", "failed", "cancelled"}
OpStates    == {"running"} \cup WaitingOp \cup TerminalOp

---------------------------------------------------------------------------
(* workflow_run.status                                                     *)

\* mark_running, mark_finished and mark_waiting leave a requested cancel in
\* place; mark_failed, mark_cancelled and request_cancel_run do not.
Unless(stop, s, new) == IF s \in stop THEN s ELSE new

\* Slip: the cancel is not preserved.
MarkRunningOver(s) == Unless(TerminalRun, s, "running")

MarkRunning(s)   == Unless(TerminalRun \cup {"cancel_requested"}, s, "running")
MarkFinished(s)  == Unless(TerminalRun \cup {"cancel_requested"}, s, "success")
MarkWaiting(s)   == Unless(TerminalRun \cup {"cancel_requested"}, s, "waiting")
MarkFailed(s)    == Unless(TerminalRun, s, "failed")
MarkCancelled(s) == Unless(TerminalRun, s, "cancelled")
RequestCancel(s) == Unless(TerminalRun, s, "cancel_requested")

---------------------------------------------------------------------------
(* workflow_operation_run.status                                           *)

\* Slip: a status outside WAITING_OPERATION_RUN_STATUSES is not refused.
OpWaitingAny(s, w) == Unless(TerminalOp, s, "waiting")

OpRunning(s)    == Unless(TerminalOp, s, "running")
OpWaiting(s, w) == Unless(TerminalOp, s, w)
OpFinish(s)     == Unless(TerminalOp, s, "success")
OpFail(s)       == Unless(TerminalOp, s, "failed")
OpCancel(s)     == Unless(TerminalOp, s, "cancelled")
=============================================================================
