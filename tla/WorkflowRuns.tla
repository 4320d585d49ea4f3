----------------------------- MODULE WorkflowRuns -----------------------------
(***************************************************************************)
(* The life of workflow runs: the queue, the worker that executes them,    *)
(* the requests that cancel, resume and expire them, and the recovery of   *)
(* the runs a dead process left behind.                                    *)
(*                                                                         *)
(* Everything that executes operations is a coroutine of one event loop,   *)
(* so an action is what a coroutine does between two awaits.  The worker   *)
(* drives one run at a time; every resume request drives the run it        *)
(* resumes in a session of its own.  The operations of a round run         *)
(* concurrently.  Here a workflow has plain dependencies only: follow-ups, *)
(* conditions and skips are the subject of OperationGraph.                 *)
(***************************************************************************)
EXTENDS Naturals, Sequences, FiniteSets, RunStatus

CONSTANTS
  Runs,       \* run ids, in order of created_at
  Ops,        \* operation ids of the workflow, in the order they are sorted
  Deps,       \* depends_on of every operation
  WaitOps,    \* operations that may pause for an approval or an answer
  BatchSize,  \* WORKFLOW_WORKER_BATCH_SIZE
  Worker,     \* the worker's loop
  Resumers,   \* concurrent resume requests
  None        \* no run

ASSUME ConstantsAssumption ==
  /\ Runs \subseteq Nat
  /\ Ops \subseteq Nat /\ Ops # {} /\ IsFiniteSet(Ops)
  /\ Deps \in [Ops -> SUBSET Ops]
  /\ WaitOps \subseteq Ops
  /\ BatchSize \in Nat \ {0}
  /\ Worker \notin Resumers
  /\ None \notin Runs

\* No cycle: every set of operations has a member none of whose
\* dependencies is in it.
ASSUME AcyclicAssumption ==
  \A S \in SUBSET Ops : S # {} => \E o \in S : Deps[o] \cap S = {}

Executors == {Worker} \cup Resumers

VARIABLES
  run,    \* workflow_run.status, "absent" before the run is created
  rows,   \* the operation runs of every run, in id order
  batch,  \* the queued runs the current tick has listed and not yet started
  cur,    \* the run a coroutine drives
  known,  \* operation_statuses of its context
  task,   \* what became of each operation of its current round
  rowOf,  \* op_run: the operation run each task works on
  view    \* the status of that run cached in the coroutine's session

vars == <<run, rows, batch, cur, known, task, rowOf, view>>
drive == <<cur, known, task, rowOf>>

Expired  == "expired"
InFlight == {"scheduled", "watched", "retrying", "resumed"}
TaskStates == {"none", "ok", "error", "cancelled", "waiting"} \cup InFlight
Row == [op : Ops, status : OpStates]

TypeOK ==
  /\ run   \in [Runs -> RunStates \cup {"absent"}]
  /\ rows  \in [Runs -> Seq(Row)]
  /\ batch \in SUBSET Runs
  /\ cur   \in [Executors -> Runs \cup {None}]
  /\ known \in [Executors -> [Ops -> {"unknown", "success", "failed"}]]
  /\ task  \in [Executors -> [Ops -> TaskStates]]
  /\ rowOf \in [Executors -> [Ops -> Nat]]
  /\ view  \in [Executors -> RunStates \cup {"absent", Expired}]

NoTask  == [o \in Ops |-> "none"]
NoRow   == [o \in Ops |-> 0]
Unknown == [o \in Ops |-> "unknown"]

Init ==
  /\ run   = [r \in Runs |-> "absent"]
  /\ rows  = [r \in Runs |-> <<>>]
  /\ batch = {}
  /\ cur   = [e \in Executors |-> None]
  /\ known = [e \in Executors |-> Unknown]
  /\ task  = [e \in Executors |-> NoTask]
  /\ rowOf = [e \in Executors |-> NoRow]
  /\ view  = [e \in Executors |-> Expired]

---------------------------------------------------------------------------
(* A session gives back the row it has loaded until its next commit        *)
(* expires it.                                                             *)

Read(e) == IF view[e] = Expired THEN run[cur[e]] ELSE view[e]
Load(e) == view' = [view EXCEPT ![e] = Read(e)]
Commit(e) == view' = [view EXCEPT ![e] = Expired]

\* A flush updates the column only if the value assigned is not the value
\* that was loaded.
Write(r, loaded, new) == run' = [run EXCEPT ![r] = IF new = loaded THEN @ ELSE new]

SetRow(r, i, s) == rows' = [rows EXCEPT ![r][i].status = s]

---------------------------------------------------------------------------
(* _execute_operations.                                                    *)

Pending(k) == {o \in Ops : k[o] = "unknown"}
\* Slip: dependencies ignored.
ReadyAtOnce(k) == Pending(k)
Ready(k)   == {o \in Pending(k) : \A d \in Deps[o] : k[d] = "success"}

Release(e) ==
  /\ cur'   = [cur EXCEPT ![e] = None]
  /\ known' = [known EXCEPT ![e] = Unknown]
  /\ task'  = [task EXCEPT ![e] = NoTask]
  /\ rowOf' = [rowOf EXCEPT ![e] = NoRow]
  /\ view'  = [view EXCEPT ![e] = Expired]

\* Slip: the exception handler finishes the run instead of failing it.
EndedByAnyMeans(e, outcome, s) ==
  CASE outcome \in {"success", "error"} -> MarkFinished(s)
    [] outcome = "waiting"   -> MarkWaiting(s)
    [] outcome = "cancelled" -> IF e = Worker THEN MarkCancelled(s) ELSE s

\* Slip: the handler of WorkflowCancelled does not mark the run.
EndedUncancelled(e, outcome, s) ==
  CASE outcome = "success"   -> MarkFinished(s)
    [] outcome = "waiting"   -> MarkWaiting(s)
    [] outcome = "cancelled" -> s
    [] outcome = "error"     -> IF e = Worker THEN MarkFailed(s) ELSE s

\* What the end of an execution makes of status s.  execute_run handles a
\* cancellation and an exception; resume_waiting_operation lets both go by.
Ended(e, outcome, s) ==
  CASE outcome = "success"   -> MarkFinished(s)
    [] outcome = "waiting"   -> MarkWaiting(s)
    [] outcome = "cancelled" -> IF e = Worker THEN MarkCancelled(s) ELSE s
    [] outcome = "error"     -> IF e = Worker THEN MarkFailed(s) ELSE s

\* s is the status the closing checkpoint read.  On the way to
\* mark_cancelled, request_cancel_child_runs commits, so that one reads anew.
Conclude(e, r, s, outcome) ==
  /\ LET loaded == IF outcome = "cancelled" THEN run[r] ELSE s
     IN  Write(r, loaded, Ended(e, outcome, loaded))
  /\ Release(e)

\* Gather the ready operations of e's run r.
Schedule(e, r, s, k) ==
  /\ cur'   = [cur EXCEPT ![e] = r]
  /\ known' = [known EXCEPT ![e] = k]
  /\ task'  = [task EXCEPT ![e] =
                 [o \in Ops |-> IF o \in Ready(k) THEN "scheduled" ELSE "none"]]
  /\ rowOf' = [rowOf EXCEPT ![e] = NoRow]
  /\ view'  = [view EXCEPT ![e] = s]

\* One pass of the while loop, after its checkpoint has read s.
Loop(e, r, s, k) ==
  \/ Ready(k) # {} /\ Schedule(e, r, s, k) /\ UNCHANGED run
  \/ Pending(k) = {} /\ Conclude(e, r, s, "success")
  \/ Pending(k) # {} /\ Ready(k) = {} /\ Conclude(e, r, s, "error")

---------------------------------------------------------------------------
(* One operation of a round: _execute_single_operation.                    *)

\* The task starts, after those before it in the gather: checkpoint, then
\* its operation run.  An operation whose model is not available fails before
\* it has one, an operation whose input mapping fails after.
OpStart(e, o) ==
  /\ task[e][o] = "scheduled"
  /\ \A p \in Ops : task[e][p] = "scheduled" => o <= p
  /\ \/ /\ Read(e) = "cancel_requested"
        /\ task' = [task EXCEPT ![e][o] = "cancelled"]
        /\ Load(e)
        /\ UNCHANGED <<rows, rowOf>>
     \/ /\ Read(e) # "cancel_requested"
        /\ task' = [task EXCEPT ![e][o] = "error"]
        /\ Load(e)
        /\ UNCHANGED <<rows, rowOf>>
     \/ /\ Read(e) # "cancel_requested"
        /\ \E s \in {"running", "failed"} :
             /\ rows' = [rows EXCEPT ![cur[e]] = Append(@, [op |-> o, status |-> s])]
             /\ task' = [task EXCEPT ![e][o] = IF s = "running" THEN "watched" ELSE "error"]
        /\ rowOf' = [rowOf EXCEPT ![e][o] = Len(rows[cur[e]]) + 1]
        /\ Commit(e)
  /\ UNCHANGED <<run, batch, cur, known>>

\* The body is running, under the cancel watcher or in a retry without it.
\* The tasks of a gather all start in the event loop pass that follows it,
\* before any of their bodies gets on.
Started(e) == \A p \in Ops : task[e][p] # "scheduled"
InBody(e, o) == task[e][o] \in {"watched", "retrying"} /\ Started(e)
OpRow(e, o)  == rows[cur[e]][rowOf[e][o]].status

\* The task ends as result, its operation run as status s.
EndTask(e, o, result, s) ==
  /\ SetRow(cur[e], rowOf[e][o], s)
  /\ task' = [task EXCEPT ![e][o] = result]

\* The body returns.  A cancel found at the checkpoint that follows leaves
\* the operation run as it is.
OpReturn(e, o) ==
  /\ InBody(e, o)
  /\ \/ /\ Read(e) = "cancel_requested"
        /\ task' = [task EXCEPT ![e][o] = "cancelled"]
        /\ Load(e)
        /\ UNCHANGED rows
     \/ /\ Read(e) # "cancel_requested"
        /\ EndTask(e, o, "ok", OpFinish(OpRow(e, o)))
        /\ Commit(e)
  /\ UNCHANGED <<run, batch, cur, known, rowOf>>

\* The body raises, times out or breaks its output contract, for good.
OpFailed(e, o) ==
  /\ InBody(e, o)
  /\ EndTask(e, o, "error", OpFail(OpRow(e, o)))
  /\ Commit(e)
  /\ UNCHANGED <<run, batch, cur, known, rowOf>>

\* The first attempt fails and the retry policy allows another.
OpRetry(e, o) ==
  /\ InBody(e, o) /\ task[e][o] = "watched"
  /\ task' = [task EXCEPT ![e][o] = "retrying"]
  /\ UNCHANGED <<run, rows, batch, cur, known, rowOf, view>>

\* The body asks for an approval or an answer: the operation run and then
\* the run are marked waiting.
OpPause(e, o) ==
  /\ InBody(e, o) /\ o \in WaitOps
  /\ \E w \in WaitingOp : EndTask(e, o, "waiting", OpWaiting(OpRow(e, o), w))
  /\ run' = [run EXCEPT ![cur[e]] = MarkWaiting(@)]
  /\ view' = [view EXCEPT ![e] = MarkWaiting(run[cur[e]])]
  /\ UNCHANGED <<batch, cur, known, rowOf>>

\* The watcher, or the agent loop's own check, polls the flag: it stops the
\* body, or has the row in its session from now on.
OpPoll(e, o) ==
  /\ InBody(e, o) /\ task[e][o] = "watched"
  /\ \/ /\ Read(e) = "cancel_requested"
        /\ EndTask(e, o, "cancelled", OpCancel(OpRow(e, o)))
        /\ Commit(e)
     \/ /\ view[e] = Expired /\ Read(e) # "cancel_requested"
        /\ Load(e)
        /\ UNCHANGED <<rows, task>>
  /\ UNCHANGED <<run, batch, cur, known, rowOf>>

\* A body reports progress, which commits in the session of its run.
OpProgress(e, o) ==
  /\ InBody(e, o) /\ view[e] # Expired
  /\ Commit(e)
  /\ UNCHANGED <<run, rows, batch, drive>>

\* The gather is complete: checkpoint, then the results in order of id.  The
\* first that is an exception or a pause ends the execution.
RoundEnd(e) ==
  /\ cur[e] # None
  /\ \A o \in Ops : task[e][o] \notin InFlight
  /\ LET r == cur[e]
         s == Read(e)
         stops == {o \in Ops : task[e][o] \in {"error", "cancelled", "waiting"}}
     IN  \/ s = "cancel_requested" /\ Conclude(e, r, s, "cancelled")
         \/ /\ s # "cancel_requested"
            /\ \E o \in stops :
                 /\ \A p \in stops : o <= p
                 /\ Conclude(e, r, s, IF task[e][o] = "waiting" THEN "waiting" ELSE "error")
         \/ /\ s # "cancel_requested" /\ stops = {}
            /\ Loop(e, r, s, [o \in Ops |-> IF task[e][o] = "ok" THEN "success" ELSE known[e][o]])
  /\ UNCHANGED <<rows, batch>>

---------------------------------------------------------------------------
(* The worker.                                                             *)

Queued == {r \in Runs : run[r] = "queued"}
Listed == {r \in Queued : Cardinality({q \in Queued : q < r}) < BatchSize}
IsOldest(r, S) == r \in S /\ \A q \in S : r <= q

\* execute_run up to the first round; cancelled at the first checkpoint if
\* a cancel came in while the run was queued behind others of the batch.
ExecuteRun(r) ==
  LET s == MarkRunning(run[r])
  IN  \/ /\ s = "cancel_requested"
         /\ run' = [run EXCEPT ![r] = MarkCancelled(s)]
         /\ UNCHANGED <<drive, view>>
      \/ /\ s # "cancel_requested"
         /\ run' = [run EXCEPT ![r] = s]
         /\ Schedule(Worker, r, s, Unknown)

\* tick_once lists the oldest queued runs and starts the first of them.
WorkerTick ==
  /\ cur[Worker] = None /\ batch = {}
  /\ \E r \in Runs : IsOldest(r, Listed) /\ batch' = Listed \ {r} /\ ExecuteRun(r)
  /\ UNCHANGED rows

\* Slip: a listed run that is no longer queued is waited for.
WorkerNextQueued ==
  /\ cur[Worker] = None
  /\ \E r \in Runs : IsOldest(r, batch) /\ run[r] = "queued" /\ batch' = batch \ {r} /\ ExecuteRun(r)
  /\ UNCHANGED rows

\* ... and starts the next one when that has ended.
WorkerNext ==
  /\ cur[Worker] = None
  /\ \E r \in Runs : IsOldest(r, batch) /\ batch' = batch \ {r} /\ ExecuteRun(r)
  /\ UNCHANGED rows

---------------------------------------------------------------------------
(* Requests.                                                               *)

\* enqueue_run; created_at orders the runs.
Enqueue(r) ==
  /\ run[r] = "absent"
  /\ \A q \in Runs : q < r => run[q] # "absent"
  /\ run' = [run EXCEPT ![r] = "queued"]
  /\ UNCHANGED <<rows, batch, drive, view>>

\* Slip: a run that has ended can be cancelled.
CancelAny(r) ==
  /\ run[r] # "absent"
  /\ run' = [run EXCEPT ![r] = "cancel_requested"]
  /\ UNCHANGED <<rows, batch, drive, view>>

\* cancel_run
Cancel(r) ==
  /\ run[r] \in ActiveRun
  /\ run' = [run EXCEPT ![r] = RequestCancel(@)]
  /\ UNCHANGED <<rows, batch, drive, view>>

\* get_waiting_operation_run: the latest pause of operation o in run r.
Paused(r, o) == {i \in DOMAIN rows[r] : rows[r][i].op = o /\ rows[r][i].status \in WaitingOp}
IsPause(r, o, i) == i \in Paused(r, o) /\ \A j \in Paused(r, o) : j <= i

\* Slip: the run is left waiting for a pause that has expired.
ExpirePauseOnly(r, o) ==
  /\ \E i \in DOMAIN rows[r] : IsPause(r, o, i) /\ SetRow(r, i, OpFail(rows[r][i].status))
  /\ UNCHANGED <<run, batch, drive, view>>

\* A pause found to have outlived its waiting policy, by a resume or by a
\* look at the pending action, ends with its run.
ExpirePause(r, o) ==
  /\ \E i \in DOMAIN rows[r] :
       /\ IsPause(r, o, i)
       /\ \/ /\ SetRow(r, i, OpCancel(rows[r][i].status))
             /\ run' = [run EXCEPT ![r] = MarkCancelled(@)]
          \/ /\ SetRow(r, i, OpFail(rows[r][i].status))
             /\ run' = [run EXCEPT ![r] = MarkFailed(@)]
  /\ UNCHANGED <<batch, drive, view>>

ResumeAllowed(r) == run[r] \notin TerminalRun \cup {"cancel_requested"}

\* An approval that is refused fails the operation and the run.
ResumeRejected(r, o) ==
  /\ ResumeAllowed(r)
  /\ \E i \in DOMAIN rows[r] :
       /\ IsPause(r, o, i)
       /\ rows[r][i].status = "waiting_for_approval"
       /\ SetRow(r, i, OpFail(OpRunning(rows[r][i].status)))
  /\ run' = [run EXCEPT ![r] = MarkFailed(MarkRunning(@))]
  /\ UNCHANGED <<batch, drive, view>>

\* resume_waiting_operation up to the assistant's continuation.
Resume(e, r, o) ==
  /\ cur[e] = None
  /\ ResumeAllowed(r)
  /\ \E i \in DOMAIN rows[r] :
       /\ IsPause(r, o, i)
       /\ SetRow(r, i, OpRunning(rows[r][i].status))
       /\ rowOf' = [rowOf EXCEPT ![e][o] = i]
  /\ run' = [run EXCEPT ![r] = MarkRunning(@)]
  /\ cur' = [cur EXCEPT ![e] = r]
  /\ task' = [task EXCEPT ![e][o] = "resumed"]
  /\ Commit(e)
  /\ UNCHANGED <<batch, known>>

\* Slip: only failures are carried over into the resumed context.
SettledFailed(seq, o) == {i \in DOMAIN seq : seq[i].op = o /\ seq[i].status = "failed"}
\* _context_from_operation_runs: the last operation run of an operation that
\* succeeded or failed; pauses and running operations are unknown to the new
\* context.  The operation that was resumed is successful by decree.
Settled(seq, o) == {i \in DOMAIN seq : seq[i].op = o /\ seq[i].status \in {"success", "failed"}}
LastIs(seq, o, s) ==
  \E i \in Settled(seq, o) : seq[i].status = s /\ \A j \in Settled(seq, o) : j <= i
Context(seq, resumed) ==
  [o \in Ops |-> CASE o = resumed \/ LastIs(seq, o, "success") -> "success"
                   [] o # resumed /\ LastIs(seq, o, "failed")  -> "failed"
                   [] OTHER -> "unknown"]

\* The resumed operation ends well, and the rest of the graph follows.  A
\* cancel the first checkpoint finds is raised to the caller.
ResumedReturn(e, o) ==
  /\ task[e][o] = "resumed"
  /\ SetRow(cur[e], rowOf[e][o], OpFinish(OpRow(e, o)))
  /\ LET r == cur[e]
     IN  \/ run[r] = "cancel_requested" /\ Conclude(e, r, run[r], "cancelled")
         \/ run[r] # "cancel_requested" /\ Loop(e, r, run[r], Context(rows'[r], o))
  /\ UNCHANGED batch

\* It pauses once more, or stops in a mode that fails the run.
ResumedStop(e, o) ==
  /\ task[e][o] = "resumed"
  /\ \/ /\ \E w \in WaitingOp : SetRow(cur[e], rowOf[e][o], OpWaiting(OpRow(e, o), w))
        /\ run' = [run EXCEPT ![cur[e]] = MarkWaiting(@)]
     \/ /\ SetRow(cur[e], rowOf[e][o], OpFail(OpRow(e, o)))
        /\ run' = [run EXCEPT ![cur[e]] = MarkFailed(@)]
  /\ Release(e)
  /\ UNCHANGED batch

\* It raises: a hash mismatch, a failing tool, a cancel seen by the agent
\* loop.  Nothing is written.
ResumedRaise(e, o) ==
  /\ task[e][o] = "resumed"
  /\ Release(e)
  /\ UNCHANGED <<run, rows, batch>>

---------------------------------------------------------------------------
(* The process dies and is started again: recover_orphaned_runs ends the   *)
(* runs in S, the interrupted ones without activity for the last           *)
(* WORKFLOW_ORPHAN_THRESHOLD_MINUTES.                                      *)

Recovered(s) == IF s = "cancel_requested" THEN "cancelled" ELSE "failed"

\* Slip: recovery closes every operation run, those that have ended too.
RestartAll(S) ==
  /\ \A r \in S : run[r] \in {"running", "cancel_requested"}
  /\ run' = [r \in Runs |-> IF r \in S THEN Recovered(run[r]) ELSE run[r]]
  /\ rows' = [r \in Runs |->
                IF r \in S
                THEN [i \in DOMAIN rows[r] |-> [rows[r][i] EXCEPT !.status = Recovered(run[r])]]
                ELSE rows[r]]
  /\ batch' = {}
  /\ cur'   = [e \in Executors |-> None]
  /\ known' = [e \in Executors |-> Unknown]
  /\ task'  = [e \in Executors |-> NoTask]
  /\ rowOf' = [e \in Executors |-> NoRow]
  /\ view'  = [e \in Executors |-> Expired]

Restart(S) ==
  /\ \A r \in S : run[r] \in {"running", "cancel_requested"}
  /\ run' = [r \in Runs |-> IF r \in S THEN Recovered(run[r]) ELSE run[r]]
  /\ rows' = [r \in Runs |->
                IF r \in S
                THEN [i \in DOMAIN rows[r] |->
                        [rows[r][i] EXCEPT !.status =
                           IF @ \in TerminalOp THEN @ ELSE Recovered(run[r])]]
                ELSE rows[r]]
  /\ batch' = {}
  /\ cur'   = [e \in Executors |-> None]
  /\ known' = [e \in Executors |-> Unknown]
  /\ task'  = [e \in Executors |-> NoTask]
  /\ rowOf' = [e \in Executors |-> NoRow]
  /\ view'  = [e \in Executors |-> Expired]

---------------------------------------------------------------------------
OpStep(e, o) ==
  \/ OpStart(e, o)  \/ OpReturn(e, o)      \/ OpFailed(e, o)
  \/ OpRetry(e, o)  \/ OpPause(e, o)       \/ OpPoll(e, o)
  \/ OpProgress(e, o)
  \/ ResumedReturn(e, o) \/ ResumedStop(e, o) \/ ResumedRaise(e, o)

Request(r) ==
  \/ Enqueue(r) \/ Cancel(r)
  \/ \E o \in Ops : ExpirePause(r, o) \/ ResumeRejected(r, o)
  \/ \E e \in Resumers, o \in Ops : Resume(e, r, o)

\* What happens while the process is up.
Serve ==
  \/ WorkerTick \/ WorkerNext
  \/ \E e \in Executors : RoundEnd(e) \/ \E o \in Ops : OpStep(e, o)
  \/ \E r \in Runs : Request(r)

Next == Serve \/ \E S \in SUBSET Runs : Restart(S)

Spec == Init /\ [][Next]_vars

\* What the event loop owes its coroutines: the worker's timer, the tasks of
\* a gather, the gather itself and the watcher's poll are all scheduled.
Scheduling ==
  /\ WF_vars(WorkerTick) /\ WF_vars(WorkerNext)
  /\ \A e \in Executors :
       /\ WF_vars(RoundEnd(e))
       /\ \A o \in Ops : WF_vars(OpStart(e, o)) /\ WF_vars(OpPoll(e, o))

\* Every body ends: each operation type bounds its own duration.
BodiesEnd ==
  \A e \in Executors, o \in Ops :
    WF_vars(OpReturn(e, o) \/ OpFailed(e, o) \/ OpPause(e, o))

\* The process stays up; bodies may run for as long as they like.
ServeSpec == Init /\ [][Serve]_vars /\ Scheduling

\* The process stays up and no body runs forever.
FairSpec == ServeSpec /\ BodiesEnd

---------------------------------------------------------------------------
(* Properties.                                                             *)

\* A run that has ended keeps its status: no executor, request or recovery
\* that still holds an older view of it brings it back or ends it otherwise.
TerminalRunsFinal ==
  [][\A r \in Runs : run[r] \in TerminalRun => run'[r] = run[r]]_vars

\* An operation run that has ended stays as it ended.
TerminalOpRunsFinal ==
  [][\A r \in Runs : \A i \in DOMAIN rows[r] :
       rows[r][i].status \in TerminalOp => i \in DOMAIN rows'[r] /\ rows'[r][i] = rows[r][i]]_vars

\* A cancel, once accepted, is not overruled: the run can only end, and not
\* in success.
CancelNotOverruled ==
  [][\A r \in Runs :
       run[r] = "cancel_requested" => run'[r] \in {"cancel_requested", "cancelled", "failed"}]_vars

\* An operation gets an operation run only after each of its dependencies
\* has succeeded in that run, across rounds, pauses and resumes.
DependenciesFirst ==
  \A r \in Runs : \A i \in DOMAIN rows[r] : \A d \in Deps[rows[r][i].op] :
    \E j \in 1 .. i - 1 : rows[r][j].op = d /\ rows[r][j].status = "success"

\* Every operation is executed at most once in a run.
ExecutedOnce ==
  \A r \in Runs : \A i, j \in DOMAIN rows[r] : rows[r][i].op = rows[r][j].op => i = j

\* A run that succeeded has executed all its operations, all with success.
SuccessIsComplete ==
  \A r \in Runs : run[r] = "success" =>
    /\ \A o \in Ops : \E i \in DOMAIN rows[r] : rows[r][i].op = o
    /\ \A i \in DOMAIN rows[r] : rows[r][i].status = "success"

\* A waiting run can be resumed: it has a pause, or a coroutine that will
\* mark it again.
WaitingIsResumable ==
  \A r \in Runs : run[r] = "waiting" =>
    \/ \E i \in DOMAIN rows[r] : rows[r][i].status \in WaitingOp
    \/ \E e \in Executors : cur[e] = r

\* A queued run does not stay in the queue, however many are ahead of it.
QueueDrains == \A r \in Runs : run[r] = "queued" ~> run[r] # "queued"

\* A cancel that finds the worker inside an operation of the run ends the
\* run, though the read that notices it may come only after the operation.
CancelEndsExecution ==
  \A r \in Runs :
    (/\ run[r] = "cancel_requested" /\ cur[Worker] = r
     /\ \E o \in Ops : task[Worker][o] \in InFlight) ~> run[r] \in TerminalRun

---------------------------------------------------------------------------
(* Claims of the repository that the code does not meet.                   *)

\* "A queued run is cancelled as soon as the worker picks it up": cancel_run,
\* of a run it has set to cancel_requested.
CancelledOncePickedUp == \A r \in Runs : run[r] = "cancel_requested" ~> run[r] \in TerminalRun

\* "so a long in-flight op is interrupted mid-flight": the watcher of
\* _run_op_body_with_cancel stops a body whose run is asked to stop.
InterruptedMidFlight ==
  \A o \in Ops : (\E r \in Runs : run[r] = "cancel_requested" /\ cur[Worker] = r /\ InBody(Worker, o)
                                  /\ task[Worker][o] = "watched")
                 ~> task[Worker][o] # "watched"
=============================================================================
