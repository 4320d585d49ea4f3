-------------------------------- MODULE ForEach --------------------------------
(***************************************************************************)
(* The for_each operation: a child run for every item of a list, so many   *)
(* at a time, the failure strategy, the retry of the whole operation and   *)
(* the cancellation of the run it belongs to.                              *)
(*                                                                         *)
(* The item tasks and the loop that collects their results are coroutines  *)
(* of one event loop; an action is what one of them does between two       *)
(* awaits.  What a child run does while it executes is WorkflowRuns; here  *)
(* it ends in one of the ways execute_run can end.                         *)
(***************************************************************************)
EXTENDS Naturals, FiniteSets, RunStatus

CONSTANTS
  Items,        \* indexes of the list
  Malformable,  \* items that may turn out not to be objects
  Limit,        \* max_concurrency
  Attempts      \* max_attempts of the operation's retry policy

ASSUME ForEachAssumption ==
  /\ Items \subseteq Nat \ {0} /\ IsFiniteSet(Items) /\ Malformable \subseteq Items
  /\ Limit \in Nat \ {0} /\ Attempts \in Nat \ {0}

VARIABLES
  strategy,   \* failure_strategy
  malformed,  \* the items that are no objects
  parent,     \* status of the run the operation belongs to
  child,      \* status of every item's child run of this attempt
  orphans,    \* items with an open child run of an earlier attempt
  task,       \* where each item's task is
  seen,       \* items whose result the loop has taken
  op,         \* where the operation is
  why,        \* what it raises once its tasks have ended
  attempt,
  stale,      \* the session holds the run's row as it was before a cancel request
  late,       \* history: items started after another had failed
  dismissed,  \* history: items whose own child run a request has cancelled
  escaped     \* history: how many child runs finished or paused after a cancel of the run

config == <<strategy, malformed>>
asked  == <<dismissed, escaped>>
vars   == <<config, parent, child, orphans, task, seen, op, why, attempt, stale, late, asked>>

Done   == {"success", "failed", "cancelled", "raised", "stopped"}
Ended  == {"success", "partial_success", "failed", "cancelled"}
Open   == {"queued", "running", "cancel_requested"}

TypeOK ==
  /\ strategy \in {"stop", "continue"} /\ malformed \subseteq Malformable
  /\ parent \in {"running", "cancel_requested"}
  /\ child \in [Items -> RunStates \cup {"absent"}] /\ orphans \subseteq Items
  /\ task \in [Items -> {"ready", "executing"} \cup Done]
  /\ \A i \in Items : task[i] = "executing" => child[i] \in {"running", "cancel_requested"}
  /\ seen \subseteq Items
  /\ op \in {"looping", "stopping"} \cup Ended
  /\ why \in {"nothing", "failed", "timeout", "cancelled"}
  /\ attempt \in 1..Attempts
  /\ stale \in BOOLEAN /\ late \subseteq Items
  /\ dismissed \subseteq Items /\ escaped \in Nat

Init ==
  /\ strategy \in {"stop", "continue"} /\ malformed \in SUBSET Malformable
  /\ parent = "running"
  /\ child = [i \in Items |-> "absent"] /\ orphans = {} /\ task = [i \in Items |-> "ready"]
  /\ seen = {} /\ op = "looping" /\ why = "nothing" /\ attempt = 1
  /\ stale = FALSE /\ late = {} /\ dismissed = {} /\ escaped = 0

--------------------------------------------------------------------------------
Executing     == {i \in Items : task[i] = "executing"}
Failed        == \E i \in Items : task[i] \in {"failed", "raised"}
Becomes(i, t) == task' = [task EXCEPT ![i] = t]
EndAs(i, s)   == [child EXCEPT ![i] = s]

\* What a check of the run reads: the row the session holds, until a commit of
\* its own expires it.  The checks that close a child run follow a commit.
Requested == parent = "cancel_requested" /\ ~stale

\* Slip: the session is told not to expire on commit.
CommitKeeps == stale' = stale

Commit == stale' = FALSE

\* Slip: only the items after i are asked to stop.
CancelLaterIn(c, i) ==
  [j \in Items |-> IF c[j] \in {"queued", "running"} /\ j > i THEN "cancel_requested" ELSE c[j]]

\* request_cancel_for_each_sibling_runs and request_cancel_child_runs, over
\* statuses c, except the child run of item i (0: none).
CancelOpenIn(c, i) ==
  [j \in Items |-> IF c[j] \in {"queued", "running"} /\ j # i THEN "cancel_requested" ELSE c[j]]

\* Slip: a task that failed keeps its slot.
FreeSlotLeaking == Cardinality({i \in Items : task[i] \in {"executing", "failed"}}) < Limit

FreeSlot == Cardinality(Executing) < Limit

\* run_item enters the semaphore, in the order of the list, and checks the run.
\* Up to its first await the child run is created, marked running and checked.
StartItem(i) ==
  /\ op = "looping" /\ task[i] = "ready" /\ i \notin malformed
  /\ \A j \in Items \ malformed : task[j] = "ready" => i <= j
  /\ FreeSlot
  /\ \/ /\ Requested
        /\ child' = CancelOpenIn(child, 0)
        /\ Becomes(i, "cancelled")
        /\ UNCHANGED late
     \/ /\ ~Requested
        /\ child' = EndAs(i, MarkRunning("queued"))
        /\ Becomes(i, "executing")
        /\ late' = IF Failed THEN late \cup {i} ELSE late
  /\ Commit
  /\ UNCHANGED <<config, parent, orphans, seen, op, why, attempt, asked>>

\* An item that is no object is refused before anything else, under either
\* strategy.
RejectItem(i) ==
  /\ op = "looping" /\ task[i] = "ready" /\ i \in malformed
  /\ Becomes(i, "raised")
  /\ UNCHANGED <<config, parent, child, orphans, seen, op, why, attempt, stale, late, asked>>

\* execute_run returns: finished, paused, or cancelled on request.  All the same
\* to the item.
ItemReturns(i) ==
  /\ op = "looping" /\ task[i] = "executing"
  /\ \/ /\ child[i] = "cancel_requested"
        /\ child' = EndAs(i, MarkCancelled(child[i]))
        /\ UNCHANGED escaped
     \/ /\ child[i] # "cancel_requested"
        /\ \E s \in {MarkFinished(child[i]), MarkWaiting(child[i])} : child' = EndAs(i, s)
        /\ escaped' = IF parent = "cancel_requested" THEN escaped + 1 ELSE escaped
  /\ Becomes(i, "success")
  /\ Commit
  /\ UNCHANGED <<config, parent, orphans, seen, op, why, attempt, late, dismissed>>

\* The except clause of run_item, the child run having ended as s.
ItemRaises(i, s) ==
  /\ \/ /\ strategy = "stop"
        /\ child' = CancelOpenIn(EndAs(i, s), i)
        /\ Becomes(i, "raised")
     \/ /\ strategy = "continue"
        /\ child' = EndAs(i, s)
        /\ Becomes(i, "failed")
  /\ Commit
  /\ UNCHANGED <<config, parent, orphans, seen, op, why, attempt, late, asked>>

\* execute_run raises, or is cancelled by the item's timeout.
ItemFails(i) ==
  /\ op = "looping" /\ task[i] = "executing"
  /\ child[i] # "cancel_requested"
  /\ ItemRaises(i, MarkFailed(child[i]))

ItemTimeout(i) ==
  /\ op = "looping" /\ task[i] = "executing"
  /\ ItemRaises(i, MarkCancelled(child[i]))

--------------------------------------------------------------------------------
\* The tasks that are not done are cancelled, and waited for.
StopAll(reason) == op' = "stopping" /\ why' = reason

\* The loop takes the result of a task that is done: it reports progress and
\* checks the run, or raises what the task raised.
Collect(i) ==
  /\ op = "looping" /\ task[i] \in Done /\ i \notin seen
  /\ \/ /\ task[i] = "raised"
        /\ child' = IF strategy = "stop" THEN CancelOpenIn(child, 0) ELSE child
        /\ stale' = (stale /\ strategy # "stop")
        /\ StopAll("failed")
        /\ UNCHANGED seen
     \/ /\ task[i] # "raised"
        /\ seen' = seen \cup {i}
        /\ Commit
        /\ \/ /\ parent = "cancel_requested"
              /\ child' = CancelOpenIn(child, 0)
              /\ StopAll("cancelled")
           \/ parent # "cancel_requested" /\ UNCHANGED <<child, op, why>>
  /\ UNCHANGED <<config, parent, orphans, task, attempt, late, asked>>

\* The watcher of the first attempt finds the cancel and cancels the operation's
\* task, in the loop or while that waits for its tasks to stop.
Watch ==
  /\ op \in {"looping", "stopping"} /\ attempt = 1 /\ why # "cancelled"
  /\ Requested
  /\ child' = IF op = "looping" THEN CancelOpenIn(child, 0) ELSE child
  /\ StopAll("cancelled")
  /\ Commit
  /\ UNCHANGED <<config, parent, orphans, task, seen, attempt, late, asked>>

\* The operation's own timeout does the same.
Timeout ==
  /\ op = "looping"
  /\ child' = CancelOpenIn(child, 0)
  /\ StopAll("timeout")
  /\ Commit
  /\ UNCHANGED <<config, parent, orphans, task, seen, attempt, late, asked>>

\* A task gets its CancelledError: at the semaphore, or in the child run.
StopItem(i) ==
  /\ op = "stopping" /\ task[i] \in {"ready", "executing"}
  /\ child' = IF task[i] = "executing" THEN EndAs(i, MarkCancelled(child[i])) ELSE child
  /\ Becomes(i, "stopped")
  /\ Commit
  /\ UNCHANGED <<config, parent, orphans, seen, op, why, attempt, late, asked>>

Retry ==
  /\ attempt < Attempts /\ attempt' = attempt + 1
  /\ orphans' = orphans \cup {i \in Items : child[i] \in Open}
  /\ child' = [i \in Items |-> "absent"]
  /\ task' = [i \in Items |-> "ready"] /\ seen' = {} /\ late' = {} /\ dismissed' = {}
  /\ op' = "looping" /\ why' = "nothing"
  /\ UNCHANGED escaped

GiveUp ==
  /\ op' = IF attempt = 1 /\ why = "cancelled" THEN "cancelled" ELSE "failed"
  /\ UNCHANGED <<child, orphans, task, seen, why, attempt, late, asked>>

\* Slip: the cancelled tasks are not waited for.
StoppedAtOnce ==
  /\ op = "stopping"
  /\ \/ (why # "cancelled" \/ attempt > 1) /\ Retry
     \/ (attempt \in {1, Attempts}) /\ GiveUp
  /\ UNCHANGED <<config, parent, stale>>

\* All tasks have ended.  The first attempt is retried if its error is one the
\* policy names, but not when it was cancelled; a later one always, a cancel
\* being an exception like any other there.
Stopped ==
  /\ op = "stopping" /\ \A i \in Items : task[i] \in Done
  /\ \/ (why # "cancelled" \/ attempt > 1) /\ Retry
     \/ (attempt \in {1, Attempts}) /\ GiveUp
  /\ UNCHANGED <<config, parent, stale>>

\* Slip: failed items are not told from the others.
FinishAnyway ==
  /\ op = "looping" /\ seen = Items
  /\ op' = "success"
  /\ UNCHANGED <<config, parent, child, orphans, task, seen, why, attempt, stale, late, asked>>

\* Every result is in.
Finish ==
  /\ op = "looping" /\ seen = Items
  /\ op' = IF \E i \in Items : task[i] = "failed" THEN "partial_success" ELSE "success"
  /\ UNCHANGED <<config, parent, child, orphans, task, seen, why, attempt, stale, late, asked>>

--------------------------------------------------------------------------------
(* Requests, in sessions of their own.                                     *)

\* cancel_run of the run: its open children are asked to stop as well.
CancelRun ==
  /\ op \in {"looping", "stopping"} /\ parent = "running"
  /\ parent' = RequestCancel(parent)
  /\ child' = CancelOpenIn(child, 0)
  /\ stale' \in BOOLEAN
  /\ UNCHANGED <<config, orphans, task, seen, op, why, attempt, late, asked>>

\* cancel_run of a child run that executes; one that is paused is WorkflowRuns.
CancelChild(i) ==
  /\ task[i] = "executing" /\ child[i] = "running"
  /\ child' = EndAs(i, RequestCancel(child[i]))
  /\ dismissed' = dismissed \cup {i}
  /\ UNCHANGED <<config, parent, orphans, task, seen, op, why, attempt, stale, late, escaped>>

Requests == CancelRun \/ \E i \in Items : CancelChild(i)

EndItem(i) == ItemReturns(i) \/ ItemFails(i) \/ ItemTimeout(i)

Next ==
  \/ \E i \in Items : StartItem(i) \/ RejectItem(i) \/ EndItem(i) \/ Collect(i) \/ StopItem(i)
  \/ Watch \/ Timeout \/ Stopped \/ Finish
  \/ Requests

Spec == Init /\ [][Next]_vars

\* Every task that can run gets to run, and wait_for bounds an item's time.
Fairness ==
  /\ \A i \in Items :
       /\ WF_vars(StartItem(i)) /\ WF_vars(RejectItem(i)) /\ WF_vars(EndItem(i))
       /\ WF_vars(Collect(i)) /\ WF_vars(StopItem(i))
  /\ WF_vars(Stopped) /\ WF_vars(Finish)

FairSpec == Spec /\ Fairness

--------------------------------------------------------------------------------
\* A cancel of the run reaches its items (workflow_executor.py, run_item and
\* _raise_if_cancel_requested): after it at most one child run finishes or pauses,
\* the one whose item looked at the row the session still had.  Those that were open
\* are cancelled, and nothing is started any more, later attempts included.
CancelHeeded == escaped <= 1

\* A child run that is open has its task at work on it: when the operation has
\* ended, or begins another attempt, none of the runs it started is left behind,
\* and no item has two.
Contained ==
  /\ orphans = {}
  /\ \A i \in Items : child[i] \in Open => task[i] = "executing" /\ op \in {"looping", "stopping"}

\* What the operation reports: partial_success only under "continue", for an
\* item that failed; success only if every child of the last attempt finished,
\* paused or was cancelled by a request for that very child, and every item had one.
\* A cancel of the run, a timeout or a failed sibling never passes for success.
ReportsFailures ==
  /\ op = "partial_success" =>
       strategy = "continue" /\ \E i \in Items : child[i] \in {"failed", "cancelled"}
  /\ op = "success" =>
       \A i \in Items : child[i] \in {"success", "waiting"} \/ (child[i] = "cancelled" /\ i \in dismissed)

\* Under "stop" (docs/guide/workflows.md, "stop when any failure should abort"),
\* once an item has failed no run that was open then finishes or pauses.
SiblingsStop ==
  [][\A i \in Items \ late :
       strategy = "stop" /\ (\E j \in Items \ malformed : task[j] = "raised") /\ task[i] = "executing" =>
         task'[i] = "executing" \/ child'[i] \in {"cancelled", "failed"}]_vars

\* The operation ends: the items it cancels, the semaphore and the loop never
\* wait for each other.
Ends == <>(op \in Ended)

\* docs/guide/workflows.md, "Use for_each with continue when partial success is
\* acceptable": a failing item does not fail the operation.  One that is no
\* object does.
ContinueTolerates ==
  strategy = "continue" /\ op = "failed" => why # "failed"
================================================================================
