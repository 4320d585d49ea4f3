# ND3X in TLA+

ND3X is an assistant backend: users chat with agents, agents call tools, and
*workflows* chain agents, tools and control operations into graphs that run in
the background, pause for approvals and answers, and can be cancelled at any
time. This directory models the parts of it whose correctness depends on the
order in which things happen, checks them with TLC and proves some of what was
checked with TLAPS.

```
tlc -config RunsDiamond.cfg MCWorkflowRuns   # any run of PROJECT.json
tlapm WorkflowRuns_proofs.tla                # the largest proofs, under two minutes
```

Short names for the sources: *executor*, *worker*, *run service* and *recovery*
are `workflow_executor.py`, `workflow_worker.py`, `workflow_run_service.py` and
`workflow_run_recovery.py` in `src/src/services/workflows/`; *repository* is
`src/src/repository/workflow_run_repository.py`, and *job service* is
`src/src/services/assistants/ask_job_service.py`. *Runner*, *orchestrator* and
*guard* are `pipeline_runner.py`, `orchestrator.py` and `guarded_tools.py` in
`src/src/services/assistants/orchestration/`; *factory*, *scheduler* and *engine*
are `workflows/workflow_factory.py`, `scheduling/dynamic_scheduler.py` and
`transfer/transfer_engine.py` in `src/src/services/`.


## The system

| part | state it keeps | operations | what is hard about it |
|---|---|---|---|
| statuses (*repository*) | `workflow_run.status`, `workflow_operation_run.status` | `mark_running`, `mark_waiting`, `mark_finished`, `mark_failed`, `mark_cancelled`, `request_cancel_*`, and the same for operation runs | guards read a row that may be older than the database |
| executor | the context of an execution (statuses, outputs, variables), one task per operation of a round | `execute_run`, `_execute_operations`, `_execute_single_operation`, `resume_waiting_operation`, bodies for 15 operation types | operations of a round are concurrent; pauses end a round that others are still in; cancels, timeouts, retries |
| operation graph (executor) | pending operations, permissions after a failure, `depends_on` | readiness, follow-ups, conditions, dead branches | the graph is rewritten while it is walked, and saved |
| worker | the batch it has listed | `tick_once` | one run at a time, chosen some time before it starts |
| run service | nothing of its own | enqueue, cancel, resume, expire a pause | runs beside the executor, in a session of its own |
| recovery | nothing | ends runs a dead process left behind | must not touch what is alive, waiting or ended |
| schedules (`workflow_factory.py`, `dynamic_scheduler.py`) | when each task last ran | a cron tick that enqueues due runs; sequential tasks | every server process has its own |
| ask jobs (`ask_job_service.py`) | files per job: request, status, result, queued messages | create, process, cancel, progress, enqueue, drain, carry over, clean up | files shared by several processes, no locks |
| orchestration (`assistants/orchestration/`) | payload of a turn (counters, observations), one pending action per thread and process | plan, route, call tools, guard tools | loops with limits, parallel tools, approvals that come later |
| MCP clients (`services/mcp/`) | child processes, pending requests | start, call, restart, stop, sync | answers, timeouts and deaths of a process |
| background tasks (`builtin/tools/background_tasks.py`) | task rows and processes | start, poll, stop | a process outlives the request that started it |
| transfers (`services/transfer/`) | routes: status, last run | poll, run on schedule, run by hand, copy and delete | every pass may fail anywhere; all its records share one commit |
| system cognition (`services/system_cognition/`) | events, memories | dispatch, reflect, compact | a queue behind every turn |
| providers, usage | registry, slots, health, token counts | route, fall back, account | limits checked before, usage recorded after |
| threads, boards, skills, tools, prompts, auth, secrets | rows | CRUD | little |
| voice, mail, pdf, shell, local models, fabric | external | adapters | I/O |

How they interact. An HTTP request, a schedule tick, a `for_each` or a
`sub_workflow` enqueues a run (status `queued`). The worker lists queued runs
every few seconds and executes them one after the other. An execution works in
rounds: all ready operations are gathered concurrently, the round's results are
taken up in order of id, and so on until nothing is pending. An operation may
ask for an approval or an answer: its operation run and the run become waiting
and the execution ends. A resume request continues that operation and then
*itself* executes the rest of the graph, in the process and session of the
request, while the worker may already be busy with other runs, or still with
the round in which the pause happened. A cancel request only sets
`cancel_requested`; executions find it at checkpoints. All of them meet in two
status columns.

A question of a chat is an *ask job*: the request stores it, starts a task in
its process and answers with a run id; the client polls two files, may cancel
the job, and may send more messages, which the running turn folds in before
each hop of the agent loop. These requests may come to any server process.

The task of an ask job is a turn of its thread. A turn looks first for a pending
action of the thread and takes its text as the answer; otherwise it enters the
agent loop, which asks the planner for a plan, runs the tools of the plan and
enters itself again. A command that needs approval is left as the pending action
and the turn ends; in a workflow the policy of the operation decides, or the
operation pauses. A `for_each` operation executes a child run per item itself, in
its own session, without the worker. Two timers of every server process feed the
rest: the scheduler enqueues the workflows that are due, and polls the routes of
the transfer hub.

What makes each part correct:

- statuses: an ended row stays ended; an accepted cancel is not overruled;
- executor: dependencies first; nothing executed twice in a run, whatever is
  paused, resumed or restarted; success means that everything was executed
  with success; a waiting run can be resumed; a cancel ends what it finds
  executing;
- operation graph: the walk ends; what is executed, left out and given up is
  what the definition says; the saved definition stays what it was;
- worker: every queued run gets its turn;
- recovery: it ends the interrupted runs and nothing else;
- ask jobs: a job ends in the eyes of its client exactly when it ends, once,
  with a result; a cancel reaches the task wherever it runs; a message sent
  meanwhile is taken up once;
- agent loop: it ends; what it does is bounded; a guarded command runs only if a
  human or the policy has approved that very command; a cancel stops it;
- turns of a thread: a "yes" approves what its author has seen, a "no" lasts;
- `for_each`: the limit on concurrent children, no child left behind, failures
  reported, siblings stopped, and it ends;
- schedules: every due time gets a run, and not more than one;
- transfers: nothing is deleted that has not arrived; a file that waits is
  moved; a route fails for a reason.


## The modules

| module | models | source |
|---|---|---|
| `RunStatus` | the guarded status transitions, as operators on a status | repository |
| `WorkflowRuns` | the life of runs: queue, worker, rounds of operations, watcher, retries, pauses, resume requests, cancels, expiries, restarts | executor, worker, run service, recovery |
| `GraphPromise` | abstract: what a definition promises of one run | — |
| `OperationGraph` | one workflow executed several times: follow-ups, conditions, skips, dead branches, pauses and resumes, saved edges | executor, `_execute_operations` |
| `AskJobs` | ask jobs: task, requests, watcher, message queue, and the files with every read, write and rename | job service |
| `AgentLoop` | one turn of the agent loop against any planner: budgets, retries, skill selection, guarded calls, approvals, cancels | runner, `tool_execution.py`, guard, `placeholder.py`, executor (approval of a workflow's tool) |
| `Turns` | the turns of a thread and its pending actions, in several processes | orchestrator, `pending.py`, job service |
| `ForEach` | a `for_each` operation, its child runs, attempts and cancels | executor, repository |
| `Schedules` | the scheduler loop of every process and the cron tick | scheduler, factory, `workflow_schedule_tick_service.py`, repository |
| `Transfers` | passes over the routes: read, write, delete, commit; edits, faults, crashes | engine, `transfer_poller.py`, `transfer_service.py`, `connectors.py` |
| `MCWorkflowRuns`, `MCOperationGraph`, `MCSchedules`, `MCTransfers` | the constants of the instances | — |
| `WorkflowRuns_proofs`, `OperationGraph_proofs`, `AskJobs_proofs`, `AgentLoop_proofs`, `Turns_proofs`, `ForEach_proofs`, `Schedules_proofs`, `Transfers_proofs` | theorems | — |

### WorkflowRuns

A step is what a coroutine does between two awaits. The worker and up to
`Cardinality(Resumers)` resume requests are *executors*. For each the model has

- `cur`, the run it drives, and `known`, its context's `operation_statuses`;
- `task`, what became of each operation of the current round: `scheduled` (in
  the gather, not started), `watched` (its body runs under the cancel watcher),
  `retrying` (its body runs again, without one), `resumed` (the continuation of
  a pause), and how it ended;
- `rowOf`, the operation run (`op_run`) each task works on;
- `view`, the status of the run in the identity map of its session, `Expired`
  after a commit. `get_run` gives back the cached row, so a checkpoint sees an
  old status until something in the same session commits. The model keeps
  this, because it decides whether a cancel is seen and what a status
  transition is guarded by; `Write` keeps SQLAlchemy's rule that a column is
  updated only when the value assigned differs from the value loaded.

`run` and `rows` are the two tables. `batch` is what the tick listed and has not
started. Request handlers are single steps: what they do before their first
await. Bodies of operations are their outcomes: return, raise (also a timeout or
a broken output contract), retry, pause. Outputs, traces, variables, progress
payloads and notifications are left out. Workflows here have plain dependencies;
everything else about the graph is in `OperationGraph`.

`Restart(S)` kills everything in memory and recovers the runs in `S`, any set of
interrupted runs: the threshold on their last activity is time, which the model
does not have, and any subset can be old enough.

Names ending in what a slip does (`ReadyAtOnce`, `MarkRunningOver`, `CancelAny`
and so on), each under a comment that begins "Slip:", are the deliberately wrong
variants that show a property can fail; no behaviour of the specification uses
them.

### OperationGraph and GraphPromise

`_execute_operations` alone, with what `WorkflowRuns` leaves out, at the
granularity of rounds: `Gather` executes all ready operations, one `Take...`
action per kind of result takes them up in order of id, as the `for` loop does.
`stored` is `depends_on` in the database and `deps` in the session: a follow-up
rewrites it and the next commit saves it, for all later runs of the workflow.
`TakeGone` is the `KeyError` of `pending.remove` for an operation that a
condition of the same round has taken out.

`GraphPromise` says in four actions what the definition of a workflow means,
with no rounds, contexts or saved state: an operation is executed when its
dependencies and follow-ups call for it, left out for one of four reasons, and
the run ends when all is decided, a failure has nobody to handle it, or nothing
can go on. `KeepsPromise` is the refinement, with the operation's status (for a
condition: its branch) as `outcome`.

### AskJobs

Coroutines of one process interleave at awaits only, but the files of a job are
shared by processes. So a coroutine's stretch between two awaits is a chain of
file operations, `at[p]` is the next one process `p` makes, and another
coroutine of `p` can run only when it is `Free`; processes interleave freely.
An action of the job or of a request does what happens up to the first write,
the checks on what it has read included; `WriteTmp` and `RenameStatus` or
`RenameQueue` finish it. `write_json_atomic` writes `status.json.tmp` and renames
it, whoever writes, so a rename may put another process's status in place, and
the rename of that other process then fails (`RenameFails`): a request gets an
error, an orchestration swallows it, a job that was about to complete fails,
and a task already in an `except` clause ends by the exception.

`task[j]` is the phase of `process_job`. The transcript is stored in an await of
its own (`storing`), during which the watcher is already cancelled. The
orchestration is nondeterministic: it reports progress, drains messages, and
returns, raises, or does neither. `result.json` has one writer and its temporary
file is not shared, so its write is one step. So is `write_text` of a temporary
file: the model does not have the moment between the truncation of a file and
the write of its text, in which another process could rename it half written.

`Known`: the run id is sent when the response passes the middleware of
`server.py`, some turns of the loop after `create_task`, so a request for a job
comes after the task's first step. `sent`, `accepted`, `folded` and `foreign`
are history: they record what clients were told and which jobs another process
than the owner has handled a request for.

`server.py` asks for `RUNTIME_WORKERS` processes together with `reload=True`,
with which uvicorn starts a single one. The job service is written for several
(lines 690-693), so the model has several; the properties about `foreign` jobs
separate what needs all requests to come to one process from what does not.

### AgentLoop

A hop is entry, planner answer, one step per tool, and the look at the results:
between the planner's answer and the first tool the code awaits nothing. The
planner is a language model, so `PlannerAnswer` offers everything the code can
be given: an exception, no plan, an invalid one, a selection of skills, an
answer, a question, blocked tools, and every sequence of tool calls up to
`PerTurn`. `flow` tells a chat from a workflow's operation; guards differ.

Tools are guarded commands, or named tools without effect on the guards.
`Templated` commands contain a `${...}`, which is filled in when the call runs,
after it was planned, shown and hashed: `Resolved`. `Canonical` is the renaming
of legacy tool names before any guard sees them. `pending` is the command a human
is asked about, `approved` the one being executed on a yes; an approval leads
back into the loop with the saved counters. Errors of tools are fingerprints, as
the repeat budget sees them. Calls without a dependency may run side by side in
the code; their results come back in the order of the plan and no guard looks
between them, so the model runs one after the other. `elapsed` stops one tick
beyond the limit, since all later times are alike.

### Turns

The slot of the `PendingStore` per process, and the turns of one thread, which
nothing serialises. `Confirm` starts the execution of what the slot holds; the
slot is cleared only when it returns (`Executed`), whatever it holds by then.
`note` is one message queued for a running turn: folded in, or carried over and
resubmitted as the next turn, where it is taken for an answer. The loop that
works on a question is `AgentLoop`; here it ends in an answer or in an action to
be approved. `meant` and `shown` record what the user had seen when writing.

### ForEach

Item tasks, the loop that collects their results, the watcher and the timeout of
the operation are coroutines of one event loop and one session; requests have
sessions of their own. A child run's execution is `WorkflowRuns`; here it ends in
one of the ways `execute_run` can end. It starts in the step that creates it, so
no worker of the same process finds it queued. `stale` says that the session has
the parent's row from before a cancel (see `view` above). Attempts after the
first run without the watcher and take a cancel for an error like any other:
`Stopped` then retries. `orphans` are open child runs of an earlier attempt. Child
runs that pause return, as in the code, which counts the item as a success. Two
histories record what cancels did: `dismissed`, the items whose own child run a
request cancelled in this attempt, and `escaped`, how many child runs finished or
paused after a cancel of the run.

### Schedules

Each process walks over its tasks; the first is the workflow tick, the others
take up to `MaxBusy`. Reading the list, looking for a run of the due time and
inserting one are steps of their own, of several processes over one database.
`found` is the due time between the last two. The session's rows of workflows are
those of the query until a commit (the insert) expires them: `refreshed`. An
exception ends the tick (`Abort`) before the workflows behind it. Time advances
only when nobody has anything to do at once. Reads are taken to see the last
commit, as with SQLite; a snapshot read would only widen the gap between look and
insert.

### Transfers

A pass runs in a thread with a session of its own: it reads which routes to
visit, and for each FROM endpoint lists, reads, writes to every TO endpoint and
deletes. Changes to records are written by one commit at its end. A manual run
does the same for one route without deleting. A file is its content's number:
`file` is what waits, `made` what was last put, and the history `got` says which TO
endpoints have that. The history `shared` has the routes at which two passes were at
once. `Fault` lets any call of a connector fail, in `delete()` also unnoticed. Nobody
validates a route: one whose expression croniter rejects (`Invalid`) is armed and
never due, one without a FROM or a TO endpoint (`Bare`) is skipped. Connectors differ in two ways that
matter: `Blind` ones list a file whether it exists or not (the default
`iter_files`), `Fixed` ones have no `delete()`, which ends the visit of the route. The
clause for a connector without `iter_files` (`transfer_engine.py:173`) has no step:
the default in `connectors.py` lists the path, and no connector raises it.


## What is checked

Runs that pass:

| run | instance | asks |
|---|---|---|
| `RunsDiamond` | 2 runs in one batch; 1, then 2 and 3 side by side, then 4; 1 and 4 may pause; 1 resume request | all safety properties of `WorkflowRuns`; interference between the worker, a resume and the next run of the batch |
| `RunsServed` | 3 runs of one operation that may pause, batches of 2 | every queued run leaves the queue; a cancel that finds an operation executing ends the run |
| `GraphRoute` | 8 operations: a failure handler of two operations of different rounds, a success follow-up, a condition behind it, an operation that may be skipped; 2 executions | refinement, saved graph, no unfounded give-up, the walk ends |
| `GraphPause` | 5 operations: a pause beside an operation with a follow-up, then a condition in one round with an operation it takes out, which may pause too; 2 executions | nothing is executed twice, over two resumes and through the `KeyError` |
| `AskJobs` | 1 job, 2 processes, 2 messages | which guarantees hold whichever process a request comes to, and which only where all come to the job's own; restarts at any point |
| `AgentLoop` | chat and workflow, either reaction to a denied command; 3 commands, one allowed, one a template, plans of up to 2 calls; 3 iterations, 2 calls, a limit of one tick | which bounds, confirmations and cancels hold through retries, skill selections and approvals; that the loop ends |
| `Turns` | 3 turns, 2 actions, 2 processes, one queued message | what a yes approves, and that a no lasts |
| `ForEach` | 3 items, one perhaps no object, 2 at a time, 2 attempts, both strategies | a cancel reaches the items, nothing left behind, honest report, siblings stop, it ends |
| `Schedules` | 2 processes, 2 workflows due every minute and every two, a busy task, 1 crash, 1 edit, two minutes in steps of 10 seconds | at least one run per due time, and at most one per process |
| `Transfers` | 1 poller, 1 requester; a watched route with two files on its second FROM endpoint, one of a connector without `delete()`, a scheduled one, and one with an invalid expression and no endpoints; 2 TO endpoints; 2 puts, 1 fault or crash, 1 request or edit | nothing lost, errors for a reason, files are moved |

Properties, by what could go wrong:

- `DependenciesFirst`: contexts are rebuilt from operation runs while other
  executors of the same run go on. A dependency must precede in the *table*,
  not only in some context.
- `ExecutedOnce` (`WorkflowRuns`), `NothingTwice` (`OperationGraph`): no operation has
  two operation runs in a run. The first holds where
  a pause is alone in its round, as in `RunsDiamond` (`PausesAlone`). It does not
  hold in general: with two operations in the round of a pause (`JoinDeps`), a
  resume finds the other one running or paused, takes it for unknown and executes
  it again. No document promises otherwise, so it is checked and proved where it
  holds and named here where it does not. In `OperationGraph`, where a round is one
  step, less is needed: that no round has two pauses (`PausesOrdered`). With
  operations 1 and 5 of `GraphPause` allowed to pause instead of 1 and 3, TLC finds
  one executed twice.
- `SuccessIsComplete`, `WaitingIsResumable`, `TerminalRunsFinal` likewise need a
  pause to be alone in its round. Added to `RunsJoin.cfg` (below), TLC reports each of
  them: a failure behind a pause in the same round is never looked at, and after
  the resume the run succeeds; the worker, still in the gather, marks a run
  waiting whose only pause was resumed meanwhile; and a `mark_failed` writes
  over a row an expiry has cancelled, because its session still has it as
  `waiting`.
- `TerminalOpRunsFinal`, `CancelNotOverruled`, `DependenciesFirst` hold
  everywhere, and are proved.
- `GraphKept`: the edges runs save are follow-up edges and nothing is lost.
- `StuckForAReason`: "Workflow graph is stuck" is said only if the definition
  lets none of the pending operations run. Neither this nor `KeepsPromise` holds of
  every graph: see "What is proved" for the conditions.
- `EndedIsTerminal`, `PollerFindsResult`: hold for every interleaving of
  processes on the shared temporary file. The first is not obvious: the rename
  that ends a task may fail, or put a progress report in place of nothing; what
  saves it is that progress is reported by the task's own process only, and all
  others write `cancelled`.
- `CancelReachesTask`: a cancel of another process can be written over by a
  progress report that was checked before it, so the promise is only about a
  `cancelled` that stands in the file while the orchestration runs on.
- `TerminalStands`, `SurfacedOnce`, `CompletedDropsNothing`: for jobs that are
  not `foreign`. For others the first fails when a progress report or the end of the
  task overwrites a cancel, the second and third when an enqueue and a drain of
  two processes read the queue before either has written it.
- `ConfirmedOnly`: a command that runs is the one just approved, or one the
  policy allows. Filling in a `${...}` after the confirmation must not change it,
  nor may a confirmation survive into a later plan.
- `ToolsBounded`, `LoopEnds`: the call budget is looked at after the calls,
  approved calls are not counted, skill selection gives its iteration back, and
  each kind of retry counts for itself; only the clock bounds a planner that
  selects skills for ever, and it must survive a pause for approval.
- `CancelStopsTools`: the cancel check is a callable and not part of the payload
  that is saved for an approval, so the approval has to supply a new one.
- `ApprovedExactly`, `CancelledMeansNotRun`: for turns that are `Direct`, that is
  one at a time, in one process, and not carried over. Without the first a second
  yes runs the command twice, without the second the prompt is in another
  process's slot, without the third see `VSwapped`. `DeclinedStays` needs none of it.
- `Contained`: a child run must not outlive the attempt that started it, or a
  retry would execute its item beside it. All rests on the loop waiting for its
  tasks, whichever exception ends it.
- `CancelHeeded`: after a cancel of the run at most one child run still finishes or
  pauses. Items look for the cancel in the row their shared session has cached, and
  before that row is refreshed one of them may start on it, or return; its commit is
  what tells the others, and later attempts. That one does escape (TLC finds it).
- `ReportsFailures`: `success` counts children that paused, and those that a request
  for that very child cancelled (their `execute_run` returns like one that finished);
  it hides no other: none that failed, and none that was cancelled by a cancel of the
  run, a timeout or a sibling's failure, in whatever order the loop takes results.
- `SiblingsStop`: without `late`, the items started after the failure: they are
  cancelled with the loop, but were not in the list of those asked to stop.
- `OncePerProcess`: with one process exactly once; with several the look and the
  insert of two can cross, and TLC finds two runs for two processes.
- `NoneMissed`: needs `Timely`. The longest a process can go without a look, `MaxGap`,
  is a tick, the other tasks of a tick and the time it is down, after each crash.
  It must fit the lookback, and, since a tick looks for the latest due time only,
  it must be shorter than the interval of each schedule. In the instance it is
  50 seconds. With a lookback of 20 TLC finds a miss; and, with one process, when the
  busy task takes 30, even with a lookback of two minutes: the process looks just
  before a due time and next at the following one, and only asks for that. In whole
  units a gap one unit longer does no harm yet; `Timely` does not count on it.
  `cut` excepts what an exception about another workflow has cut off.
- `NothingLost`: with one poller and no file put over one that waits. A poller
  that reads, and deletes what was put there meanwhile, loses that.
- `ErrorForAReason`: any exception makes a route `ERROR`, and nothing polls it any more.
  A file that has gone between its listing and its use is such an exception, and it
  takes a second pass at the same route at the same time (`shared`): no edit, put,
  crash or run of another route does it.
- `Moves`: a file behind one that cannot be deleted is never reached.

Runs that must fail, each a statement of the repository about itself:

| run | statement | what happens |
|---|---|---|
| `VBranch` | a condition "Branches on a test" | after a resume the other branch is executed too |
| `VSwapped` | "what runs is exactly what you approved — it can't be swapped" | a yes written before the prompt is carried over and approves it, be it queued early in the turn or after its last drain |

### Further configurations

They are kept beside the runs, with their properties in the modules. `RunsJoin.cfg`
(`MCWorkflowRuns`) passes: two operations that may both pause in one round, a third
after both, two resume requests at once; its three properties are proved. In the
others TLC finds a statement of the repository violated, in the same way as above:

| configuration | module | statement | what happens |
|---|---|---|---|
| `VCancelQueued` | `MCWorkflowRuns` | "A queued run is cancelled as soon as the worker picks it up" (`workflow_run_service.py:99`) | it is never picked up: the query lists `queued` only |
| `VWatcher` | `MCWorkflowRuns` | "a long in-flight op ... is interrupted mid-flight" (`workflow_executor.py:794`) | the watcher polls a cached row |
| `VHistory` | `MCOperationGraph` | follow-ups "let you route differently by outcome" (`docs/guide/workflows.md:28`) | an edge saved by an earlier run blocks the other route |
| `VStall` | `MCOperationGraph` | "so they don't stall the graph" (`workflow_executor.py:1295`) | whatever depends on a skipped branch does |
| `VForgets` | `MCOperationGraph` | follow-ups "let you route differently by outcome" (`docs/guide/workflows.md:28`) | a pause beside the failure: the resume has the edge but not the permission, and gives up |
| `VDropped` | `AskJobs` | "nothing the user typed gets dropped" (`ask_job_service.py:751`) | a job that is cancelled, fails or times out carries nothing over |
| `VMutation` | `AgentLoop` | "Before running anything that changes state ... the agent stops and asks" (`docs/guide/how-it-works.md:22`) | the check looks for legacy names among canonical ones and never fires (`MutationCheckIsDead` proves it) |
| `VSpin` | `AgentLoop` | the loop "always finishes instead of spinning" (`docs/guide/how-it-works.md:17`) | with a wall clock limit of 0, which the settings accept, skill selection alone can go on for ever |
| `VContinue` | `ForEach` | "Use for_each with continue when partial success is acceptable" (`docs/guide/workflows.md:120`) | an item that is no object fails the operation under either strategy |
| `VMissed` | `MCSchedules` | a scheduled workflow "fires automatically" (`docs/guide/workflows.md:101`) | the invalid expression of another workflow cuts the tick off before it |
| `VTransfer` | `MCTransfers` | "[] when nothing is waiting" (`transfer_engine.py:172`) | a connector with the default `iter_files` lists its path regardless, and the route becomes `ERROR` |

### Bounds

Sets are small, nothing else is bounded: tables cannot grow without limit,
because an operation run is created only by an execution and each executor holds
one run; TLC explores every reachable state of each instance. A diamond has
every relation two operations can have (before, beside, after) and a join; two
runs are enough for one to be listed while the other executes, and three to need
a second batch of two. Two resume requests are enough for both pauses of a
round. Two executions of a workflow are enough for one to inherit what another
saved; a third inherits nothing new, since edges are only added. Eight
operations hold follow-ups of both kinds, one with two sources, and a condition
with its branches behind one of them.

Jobs share nothing but the processes, so `AskJobs` has one; safety was also
checked once with two jobs and one message, and with three processes and one
message. Two processes are enough for a foreign request beside the owner, two
messages for one to be enqueued while the other is drained or carried over.

The later modules have counters, and bounds named for them. `AgentLoop`: the
budgets are constants of the code, made small; three iterations hold a skill
selection, tools and an approval in any order, two calls per plan an allowed and a
denied one. The loop's `retries` count beyond their limits nowhere. `Turns`:
`MaxTurns` 3 is a question, an answer and a turn between or after them; more
turns repeat these. `ForEach`: three items at a limit of two leave one at the
semaphore; two attempts are a first, watched one and a retry. `Schedules`: units
of 10 seconds, a tick of 30 and a lookback of 60 seconds as in the code, a busy task
and a process down for 10 each; `Horizon` 12 has two due times of the workflow of
every minute, and one at which both are due; the processes are alike, hence the
symmetry. `Transfers`: `Puts` 2, so that a file may
come back or be put over one that waits; `Mishaps` 1 and `Requests` 1 for one fault
or crash and one manual run or edit at any step; a second FROM and TO endpoint to
fail between.

### Fairness

`ServeSpec` assumes what the event loop owes its coroutines: the worker's timer
fires, the tasks of a gather start, a finished gather is resumed, the watcher's
sleep ends. `FairSpec` adds that bodies end, which is each operation's own
doing (HTTP timeouts, iteration limits, `timeout_seconds`). Neither assumes that
a request ever arrives, and both leave restarts out: a process that restarts for
ever promises nothing. `OperationGraph!FairSpec` is weak fairness of the loop
itself; its body has no other await than the gather. Deadlock checking is off
where nothing need happen: when all runs have ended (`RunsServed`)
and when all executions are used up (`OperationGraph`).

`AskJobs!ServeSpec`: a coroutine that is running goes on to its next await, so
file operations are weakly fair. One that can run gets its turn, although others
of the process keep taking theirs: the loop's ready queue is first in, first
out, hence strong fairness of `Loop`. The orchestration owes nothing; it may
report progress for ever. Restarts stay in, since a restart of the owner ends
the job it would have to serve.

`AgentLoop!FairSpec`: the loop's coroutine goes on, the planner and the tools
having timeouts, and time passes; nobody has to answer or to cancel.
`ForEach!Fairness`: a task that can run does, a child run ends because
`wait_for` bounds its time, the loop takes results that are there; the watcher,
the timeout and requests owe nothing. `Transfers!Fairness`: the scheduler ticks
again and again and calls to connectors return. `Turns` and `Schedules` promise
no liveness: `NoneMissed` says by when a run has to exist, with time that waits
for what is due at once. Deadlock checking stays on in `Schedules`, which has a
step for the end of time, and `Transfers`.


## What is proved

For every set of runs and of operations, every acyclic dependency graph, every
number of resume requests and every batch size (`ConstantsAssumption`,
`AcyclicAssumption`):

- `TypeCorrect`: the type invariant, with `Idle`: an executor without a run has
  no tasks and nothing cached.
- `EndedOpRunsStay`: `TerminalOpRunsFinal`. Every write to an operation run goes
  through an operator of `RunStatus` or through `Restart`, and all of them leave
  ended rows alone; it needs no invariant beyond types.
- `CancelStands`: `CancelNotOverruled`. Its difficulty is the cached status: a
  coroutine decides on what it has loaded, which can be older than the cancel.
  `FreshView` is what saves it: a status cached by an executor is either the
  current one, or `running` or `waiting` from before. A coroutine that ends its
  run with such an old view has either read the row anew or writes what is not
  a success.
- `DependenciesComeFirst`: `DependenciesFirst`. Contexts may lag behind the
  table but are never ahead of it: `KnownIsTrue` says that what a context holds
  to be successful has an operation run that succeeded. For a task that ends well
  this needs `OwnRow`: the operation run of a task is its own operation's,
  belongs to the run it drives, and no other task works on it while it is open.
  A resume needs the same of the row it reopens.
- `Invariant`: the conjunction `IInv` of these is inductive. Acyclicity is used
  for one thing: the first round of an execution is never empty.

For every such workflow that is `PausesAlone` (every other operation is, over
any number of steps, before the one that may pause or after it), as a chain is and
the diamond of `RunsDiamond`, `WorkflowRuns_proofs` also proves `NoneTwice`
(`ExecutedOnce`), `SuccessMeansAll` (`SuccessIsComplete`), `WaitingHasPause`
(`WaitingIsResumable`) and `EndedRunsStay` (`TerminalRunsFinal`). `WorkflowRuns`
with two operations that may pause side by side violates all four, see above.
`Before` says in terms of closed sets of operations what a path in the graph says,
since a path is a recursion. `AloneInvariant` is about coroutines and runs:

- `RoundOf`: a round with an operation that may pause has no other. Of two
  operations ready at once neither is before the other (`ReadyAlone`).
- `ContextOf`: a context knows nothing to have succeeded without its dependencies,
  and, while it drives a run, all that has an operation run there. After a resume
  this is so because, while a pause is open, everything else that was executed has
  succeeded (`OthersSucceeded`).
- `DriverOf`: of the coroutines that hold a run at most one still drives it. The
  others are `Lame`: their operation has paused, they have only to end the round, and
  what they have cached of the run is `waiting` (so that they write nothing) or a
  cancel that nothing undoes.
- `RunOK`: what the four properties say, and which runs have no operation runs yet.

For every graph of operations, follow-ups and conditions
(`GraphAssumption`), `GraphStaysItself` proves type correctness of
`OperationGraph` and `GraphKept`. The invariant adds that the session's
`depends_on` is bounded like the stored one. The others need conditions on the
workflow, all of which the graph of `GraphRoute` or `GraphPause` meets:

- `RunsOnce`: `NothingTwice`, if of two operations that may pause one depends on the
  other (`PausesOrdered`). `Once` is inductive: while the loop runs, an operation
  with an operation run is decided or its result is in the round being taken up,
  and at most one operation run is neither ended nor answered.
- `StuckMeansStuck`: `StuckForAReason`, in a workflow without pauses that is
  `Rerunnable`: a dependency that an execution has added to a follow-up must not
  keep it back in a later one. It does not if that is the only operation it
  follows, or if it follows its failure only and it is never skipped: it is in no
  branch and depends on another such operation or on nothing (`OutOfReach`).
  `VHistory` is the case where it does. With a pause, a resume starts with an empty
  `allowed_after_failure` (`VForgets`).
- `PromiseIsKept`: `KeepsPromise`, the refinement of `GraphPromise`, if besides
  every branch depends on its condition (`BranchesAfter`); the code does not demand
  it, and a branch that need not wait may run before its condition has been tested.
  The hard step is the one that takes up a result (`TakeDecides`, `PromiseStep`): a
  condition leaves out its other branch and, round by round, what hangs on it, and
  for each of these operations the promise wants a reason (`ConditionSkips`,
  `ToSkipLeast`). `Calls` says that the definition calls whatever a round executes,
  `Recorded` and `Reads` that an outcome is what the loop has decided, for a
  condition the one branch its operation run names.

For every number of processes, jobs and messages (`NoneAssumption`),
`AskJobs_proofs` proves `TypeCorrect`, `EndedTasksAreTerminal`
(`EndedIsTerminal`), `PollersFindResults` (`PollerFindsResult`),
`TerminalStatusStands` (`TerminalStands`), `SurfacesOnce` (`SurfacedOnce`) and
`CompletedKeepsAll` (`CompletedDropsNothing`). The inductive invariant has three parts beside the types.
`Fits`: what a process is in the middle of is what the phase of its task allows,
so progress and the end of a task come from the owner only. `Ends`: a status or
temporary file that claims an end is backed by the result, and a task at the
rename that ends it finds a terminal status in the temporary file or, if that
is gone, in place. `Alone`: for a job that is not `foreign`, a rename puts in
place what its process has written, and a terminal status before the end of the
task is a cancel that the task has been told of. For the last two, `Kept` follows a
message of such a job: the queue says of it exactly how often it was folded in and
whether it was handed back, and a queue that is still being written is the one in
place with that one change, since no other writer of the process comes between.

`AgentLoop_proofs`, for every set of commands, every budget and every plan length
(`CommandsAssumption`, `BudgetsAssumption`): `TypeCorrect`, `BoundedTools`,
`CancelledToolsBounded`, `RunsOnlyConfirmed` and `MutationCheckIsDead`. The
invariant has an account of what was started (`Counted`, `Budgeted`): the counted
calls, those of the plan in hand and the approvals; `Licensed`: what is confirmed
while tools execute was approved or is allowed; and `Stopped`: after a cancel only
the plan in hand is still carried out. `MutationCheckIsDead` needs no invariant: no
canonical name is a legacy one.

`Turns_proofs`, for every number of processes, turns and actions:
`TypeCorrect`, `ApprovedRuns`, `CancelledNeverRan`, `DeclinedStaysDeclined`. For
`DeclinedStays` the invariant says that an action is in at most one slot, and that
one declined is in none. The other two are about `Direct` histories: then at most
one turn is in progress, and what the process of the last turn holds in its slot is
the action shown last.

`ForEach_proofs`, for every list, limit and number of attempts:
`TypeCorrect`, `CancelReachesItems` (`CancelHeeded`), `NoneLeftBehind` (`Contained`),
`HonestReport` (`ReportsFailures`), `SiblingsAreStopped` (`SiblingsStop`). The invariant ties a
child run's status to its task: open only while the task executes, failed or
cancelled for a task that failed, and an operation that has ended to tasks that are
all done. `Asked` adds that under `stop`, once an item has raised, the child runs
that were open then have been asked to stop. `Chances` is what makes `CancelHeeded`
inductive: after a cancel there is one chance in all, held by the session's old row,
then by the one run started on it, and spent when that run ends. `Causes` names for
every child that is cancelled, or about to be, who asked: a request for it, a sibling
that raised, or the run; under the last the loop does not get past its result, which
is what `HonestReport` needs.

`Schedules_proofs`, for every number of processes, workflows and tasks and
any intervals: `TypeCorrect`, `BoundedRuns` (`OncePerProcess`) and, if `Timely`,
`NoneIsMissed` (`NoneMissed`). `OncePerProcess` counts the runs of a
due time together with the processes about to insert one, which makes it inductive
with the types: such a process has found none, and then no more than all processes
can be about to; each insert turns one of them into a run. The counting is
`FiniteSetTheorems`. For `NoneMissed`, `NextLook` is the latest time by which a
process comes to a workflow, whatever it is doing: sleeping, busy with another task,
down or on its way through the list. `OnTime` says that for a due time without a run
this is at most `MaxGap` after it; each step of the process leaves that as it is or
brings the look itself, and a crash adds a `MaxDown` that `MaxGap` has counted.

`Transfers_proofs`, for every number of routes, files, endpoints and
requesters: `TypeCorrect`, `NothingIsLost` (`NothingLost`) and `ErrorsHaveReasons`
(`ErrorForAReason`). For `NothingLost`, the
one poller's copy is the file's present content as long as nobody puts another over
it, and the TO endpoints before `to` have got it; a manual run writes copies but
never deletes. For `ErrorForAReason`, an actor's list holds files of the record it is
at only (`Visiting`), two actors at one record share it (`Sharing`), and so what an
actor has listed at a record it does not share is still there (`Present`), whatever
the number of pollers.

`TypeOK` of the last five modules is proved and in no run; the other runs check theirs.

So every safety invariant and every action property that a passing run checks, and
the refinement, has a theorem. Only model-checked are the liveness properties
(`QueueDrains`, `CancelEndsExecution`, `WalkEnds`, `CancelReachesTask`, `LoopEnds`,
`Ends`, `Moves`): they rest on fairness, hence on ENABLED, which is out of the
prover's reach. The conditions of the theorems are on constants only, and TLC
evaluated each on the instance of the run.


## What is not modelled

- `sub_workflow`: a body like any other. Of `for_each`, grandchildren, and child
  runs that go on after a pause.
- Several workers: `WorkflowRuns` has one process, as `server.py` starts (see
  `AskJobs` above); `list_queued_runs` claims nothing.
- Of ask jobs, the cleanup of old run directories and the indicator that says
  that a job waits for a local model.
- Of the assistant, what prompts and answers say, routing between assistants and
  their handoffs, `claude_code` turns, and the pending actions other than
  commands: a confirmation of mutations, which no plan reaches
  (`MutationCheckIsDead`), and triggers of workflows.
- Of schedules, edits of a cron expression and snapshot reads of a database
  other than SQLite; the look and the insert are apart anyway.
- Of transfers, two files of one name on one route, which write one target;
  connectors that ignore the status of a delete other than by `Fault`; and
  `NothingLost` of two pollers.
- Requests handled in a thread pool while the event loop runs: here a request is
  atomic.
- Edits of a workflow while a run of it is paused.
- The contents of outputs, inputs, prompts and variables.
- MCP processes and background tasks, which keep state over several steps and
  come next; system cognition, whose dispatcher has a queue; providers and usage.
  The remaining parts of the table above are adapters to external programs, pure
  conversions and CRUD. They are most of the lines of the repository.
  PROJECT.json gives the reason for each.


## Plan

Done: `RunStatus`, `WorkflowRuns`, `OperationGraph`, `AskJobs`, `AgentLoop`,
`Turns`, `ForEach`, `Schedules`, `Transfers` and the theorems above. Next, in order
of importance:

1. `StdioProcess` (MCP): requests and answers over a child process that may die,
   time out or be restarted; abstractly, one answer per request.
2. `BackgroundTasks`: processes that outlive requests; start, poll, stop, reap.
3. Several workers over one queue, without a claim.
4. Edits of a workflow under a paused run.
5. Fallback between providers, and usage checked before and recorded after a call.
6. Proofs: `KeepsPromise` with pauses, for graphs whose follow-ups come before
   them; `ExecutedOnce` of several workers, once claimed.
