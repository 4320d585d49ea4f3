-------------------------------- MODULE AskJobs --------------------------------
(***************************************************************************)
(* AskJobService: a question is a job, executed by a task of the server    *)
(* process that accepted it and observed through the files of its run      *)
(* directory: status, result, and the queue of messages sent while the job *)
(* is in progress.  Any server process may handle the requests for a job.  *)
(*                                                                         *)
(* A process runs one coroutine at a time, so what a coroutine does        *)
(* between two awaits is not interleaved with others of its process, but   *)
(* it is with other processes.  at[p] says which file operation p is about *)
(* to make: each read, each write of a temporary file and each rename is a *)
(* step.  All writers of a file use the same temporary file.               *)
(***************************************************************************)
EXTENDS Naturals

CONSTANTS
  Processes,   \* server processes
  Jobs,        \* run ids
  Messages,    \* messages sent in mid-turn
  None         \* no job, process, or temporary file

VARIABLES
  status,      \* status.json, its state
  statusTmp,   \* status.json.tmp
  queue,       \* queued_messages.json, the state of each message
  queueTmp,    \* queued_messages.json.tmp
  result,      \* result.json: its state, and the messages it carries over
  task,        \* where the job's task is
  owner,       \* the process of the task
  cancelling,  \* jobs whose task has been told to cancel
  at,          \* what each process is in the middle of
  sent,        \* the job each message was sent to
  accepted,    \* messages answered with queued=True
  folded,      \* how often each message was folded into a turn
  foreign      \* jobs another process than the owner handled a request for

files   == <<status, statusTmp, queue, queueTmp, result>>
history == <<sent, accepted, folded, foreign>>
vars    == <<files, task, owner, cancelling, at, history>>

\* "rejected" is left out: nothing writes it.
Terminal == {"completed", "failed", "timed_out", "cancelled"}
Active   == {"queued", "running", "awaiting_confirmation"}
States   == Active \cup Terminal
Marks    == {"none", "queued", "consumed", "carried"}
Queues   == [Messages -> Marks]
Phases   == {"none", "created", "answering", "storing", "finishing", "ended", "lost"}

ASSUME NoneAssumption ==
  None \notin Processes /\ None \notin Jobs /\ None \notin States /\ None \notin Queues

\* What a coroutine does to files, and the file operation it makes next.
StatusPurposes == {"progress", "cancel", "finish"}
QueuePurposes  == {"drain", "carry", "enqueue"}
Purposes       == StatusPurposes \cup QueuePurposes \cup {"result", "nothing"}
FileOps        == {"read", "write", "rename", "none"}

EmptyQueue == [m \in Messages |-> "none"]

Doing(why, op, j, s, q, ms) ==
  [for |-> why, next |-> op, job |-> j, state |-> s, items |-> q, msgs |-> ms]

Idle == Doing("nothing", "none", None, "queued", EmptyQueue, {})

TypeOK ==
  /\ status \in [Jobs -> States \cup {"absent"}]
  /\ statusTmp \in [Jobs -> States \cup {None}]
  /\ queue \in [Jobs -> Queues]
  /\ queueTmp \in [Jobs -> Queues \cup {None}]
  /\ result \in [Jobs -> [state : Terminal \cup {"absent"}, carried : SUBSET Messages]]
  /\ task \in [Jobs -> Phases]
  /\ owner \in [Jobs -> Processes \cup {None}]
  /\ cancelling \subseteq Jobs
  /\ at \in [Processes -> [for : Purposes, next : FileOps, job : Jobs \cup {None},
                           state : States, items : Queues, msgs : SUBSET Messages]]
  /\ sent \in [Messages -> Jobs \cup {None}]
  /\ accepted \subseteq Messages
  /\ folded \in [Messages -> Nat]
  /\ foreign \subseteq Jobs

Init ==
  /\ status = [j \in Jobs |-> "absent"] /\ statusTmp = [j \in Jobs |-> None]
  /\ queue = [j \in Jobs |-> EmptyQueue] /\ queueTmp = [j \in Jobs |-> None]
  /\ result = [j \in Jobs |-> [state |-> "absent", carried |-> {}]]
  /\ task = [j \in Jobs |-> "none"] /\ owner = [j \in Jobs |-> None]
  /\ cancelling = {}
  /\ at = [p \in Processes |-> Idle]
  /\ sent = [m \in Messages |-> None]
  /\ accepted = {} /\ folded = [m \in Messages |-> 0] /\ foreign = {}

---------------------------------------------------------------------------
(* Pieces of coroutines.                                                   *)

Free(p) == at[p].for = "nothing"

WriteStatus(why, j, s) ==
  Doing(why, "write", j, s, EmptyQueue, {})
WriteQueue(why, j, q, ms) ==
  Doing(why, "write", j, "queued", q, ms)

\* Slip: the status is written without the result.
EndOnlyStatus(j, outcome, ms) == WriteStatus("finish", j, outcome)

\* How process_job ends: the result is written, then the status.
EndWith(j, outcome, ms) ==
  Doing("result", "write", j, outcome, EmptyQueue, ms)

Queued(q) == {m \in Messages : q[m] = "queued"}

\* Slip: drained messages stay queued.
Unmarked(q, mark) == q

Marked(q, mark) == [m \in Messages |-> IF q[m] = "queued" THEN mark ELSE q[m]]

\* The task is at an await in a phase of ps, not told to cancel, and p is
\* free to go on with it.
Turn(p, j, ps) == owner[j] = p /\ Free(p) /\ task[j] \in ps /\ j \notin cancelling

\* The response with the run id is sent after the task's first step.
Known(j) == status[j] \notin {"absent", "queued"}

---------------------------------------------------------------------------
(* The job.                                                                *)

\* create_job, after the user's message is stored.
Create(p, j) ==
  /\ Free(p) /\ task[j] = "none"
  /\ owner' = [owner EXCEPT ![j] = p]
  /\ task' = [task EXCEPT ![j] = "created"]
  /\ status' = [status EXCEPT ![j] = "queued"]
  /\ UNCHANGED <<statusTmp, queue, queueTmp, result, cancelling, at, history>>

\* process_job up to its first await; nobody else knows of the job yet.
Begin(p, j) ==
  /\ Turn(p, j, {"created"})
  /\ task' = [task EXCEPT ![j] = "answering"]
  /\ status' = [status EXCEPT ![j] = "running"]
  /\ UNCHANGED <<statusTmp, queue, queueTmp, result, owner, cancelling, at, history>>

\* Slip: the state of the confirmation phase is written as it is.
EventStatesAny == {"running", "awaiting_confirmation", "confirmation"}

EventStates == {"running", "awaiting_confirmation"}

\* progress_cb: reads the status, and writes it unless the job is over.
Progress(p, j) ==
  /\ Turn(p, j, {"answering"})
  /\ status[j] \notin Terminal
  /\ \E s \in EventStates : at' = [at EXCEPT ![p] = WriteStatus("progress", j, s)]
  /\ UNCHANGED <<files, task, owner, cancelling, history>>

\* drain_queued_messages, called before each hop of the agent loop.
Drain(p, j) ==
  /\ Turn(p, j, {"answering"})
  /\ Queued(queue[j]) # {}
  /\ at' = [at EXCEPT ![p] = WriteQueue("drain", j, Marked(queue[j], "consumed"), Queued(queue[j]))]
  /\ UNCHANGED <<files, task, owner, cancelling, history>>

\* Slip: only "stopping" is looked for.
WatchStopping(p, j) ==
  /\ Turn(p, j, {"answering"}) /\ status[j] = "stopping"
  /\ cancelling' = cancelling \cup {j}
  /\ UNCHANGED <<files, task, owner, at, history>>

\* _watch_for_cancel, after a sleep.
Watch(p, j) ==
  /\ Turn(p, j, {"answering"}) /\ status[j] = "cancelled"
  /\ cancelling' = cancelling \cup {j}
  /\ UNCHANGED <<files, task, owner, at, history>>

\* The orchestration has returned; the answer goes to the transcript.
Answered(p, j) ==
  /\ Turn(p, j, {"answering"})
  /\ task' = [task EXCEPT ![j] = "storing"]
  /\ UNCHANGED <<files, owner, cancelling, at, history>>

\* The orchestration has raised.
Raised(p, j) ==
  /\ Turn(p, j, {"answering"})
  /\ task' = [task EXCEPT ![j] = "finishing"]
  /\ \E outcome \in {"timed_out", "failed"} : at' = [at EXCEPT ![p] = EndWith(j, outcome, {})]
  /\ UNCHANGED <<files, owner, cancelling, history>>

\* Slip: nothing is carried over.
StoredOnly(p, j) ==
  /\ Turn(p, j, {"storing"})
  /\ task' = [task EXCEPT ![j] = "finishing"]
  /\ at' = [at EXCEPT ![p] = EndWith(j, "completed", {})]
  /\ UNCHANGED <<files, owner, cancelling, history>>

\* The answer is stored, or could not be; carry_over_queued comes next.
Stored(p, j) ==
  /\ Turn(p, j, {"storing"})
  /\ task' = [task EXCEPT ![j] = "finishing"]
  /\ at' = [at EXCEPT ![p] =
              IF Queued(queue[j]) = {} THEN EndWith(j, "completed", {})
              ELSE WriteQueue("carry", j, Marked(queue[j], "carried"), Queued(queue[j]))]
  /\ UNCHANGED <<files, owner, cancelling, history>>

\* The CancelledError arrives.
Interrupted(p, j) ==
  /\ owner[j] = p /\ Free(p) /\ j \in cancelling /\ task[j] \in {"answering", "storing"}
  /\ task' = [task EXCEPT ![j] = "finishing"]
  /\ at' = [at EXCEPT ![p] = EndWith(j, "cancelled", {})]
  /\ UNCHANGED <<files, owner, cancelling, history>>

---------------------------------------------------------------------------
(* Requests.                                                               *)

TouchedBy(p, j) == foreign' = IF owner[j] = p THEN foreign ELSE foreign \cup {j}

\* Slip: the task is not cancelled, only the status is written.
CancelStatusOnly(p, j) ==
  /\ Free(p) /\ Known(j)
  /\ status[j] \notin Terminal
  /\ at' = [at EXCEPT ![p] = WriteStatus("cancel", j, "cancelled")]
  /\ TouchedBy(p, j)
  /\ UNCHANGED <<files, task, owner, cancelling, sent, accepted, folded>>

\* cancel_job: refused when the status read is terminal.
Cancel(p, j) ==
  /\ Free(p) /\ Known(j)
  /\ status[j] \notin Terminal
  /\ cancelling' = IF owner[j] = p /\ task[j] \in {"answering", "storing"}
                   THEN cancelling \cup {j} ELSE cancelling
  /\ at' = [at EXCEPT ![p] = WriteStatus("cancel", j, "cancelled")]
  /\ TouchedBy(p, j)
  /\ UNCHANGED <<files, task, owner, sent, accepted, folded>>

\* enqueue_message: refused, and then without effect, when the status read
\* is not active.
Enqueue(p, j, m) ==
  /\ Free(p) /\ Known(j) /\ sent[m] = None
  /\ status[j] \in Active
  /\ sent' = [sent EXCEPT ![m] = j]
  /\ at' = [at EXCEPT ![p] = Doing("enqueue", "read", j, "queued", EmptyQueue, {m})]
  /\ TouchedBy(p, j)
  /\ UNCHANGED <<files, task, owner, cancelling, accepted, folded>>

---------------------------------------------------------------------------
(* File operations.                                                        *)

\* _read_queue in enqueue_message; the messages are appended.
ReadQueue(p) ==
  /\ at[p].next = "read"
  /\ LET q == [m \in Messages |-> IF m \in at[p].msgs THEN "queued" ELSE queue[at[p].job][m]]
     IN  at' = [at EXCEPT ![p] = WriteQueue("enqueue", at[p].job, q, at[p].msgs)]
  /\ UNCHANGED <<files, task, owner, cancelling, history>>

\* write_json_atomic and _write_queue, their first half.
WriteTmp(p) ==
  /\ at[p].next = "write" /\ at[p].for # "result"
  /\ IF at[p].for \in StatusPurposes
     THEN /\ statusTmp' = [statusTmp EXCEPT ![at[p].job] = at[p].state]
          /\ UNCHANGED queueTmp
     ELSE /\ queueTmp' = [queueTmp EXCEPT ![at[p].job] = at[p].items]
          /\ UNCHANGED statusTmp
  /\ at' = [at EXCEPT ![p].next = "rename"]
  /\ UNCHANGED <<status, queue, result, task, owner, cancelling, history>>

\* Slip: a timeout does not get as far as the status.
WriteResultOnly(p) ==
  /\ at[p].for = "result"
  /\ result' = [result EXCEPT ![at[p].job] = [state |-> at[p].state, carried |-> at[p].msgs]]
  /\ IF at[p].state = "timed_out"
     THEN /\ at' = [at EXCEPT ![p] = Idle]
          /\ task' = [task EXCEPT ![at[p].job] = "ended"]
     ELSE /\ at' = [at EXCEPT ![p] = WriteStatus("finish", at[p].job, at[p].state)]
          /\ UNCHANGED task
  /\ UNCHANGED <<status, statusTmp, queue, queueTmp, owner, cancelling, history>>

\* write_result; nobody else writes this file.
WriteResult(p) ==
  /\ at[p].for = "result"
  /\ result' = [result EXCEPT ![at[p].job] = [state |-> at[p].state, carried |-> at[p].msgs]]
  /\ at' = [at EXCEPT ![p] = WriteStatus("finish", at[p].job, at[p].state)]
  /\ UNCHANGED <<status, statusTmp, queue, queueTmp, task, owner, cancelling, history>>

\* The rename puts in place whatever the temporary file holds by now.
RenameStatus(p) ==
  LET j == at[p].job IN
  /\ at[p].next = "rename" /\ at[p].for \in StatusPurposes
  /\ statusTmp[j] # None
  /\ status' = [status EXCEPT ![j] = statusTmp[j]]
  /\ statusTmp' = [statusTmp EXCEPT ![j] = None]
  /\ task' = IF at[p].for = "finish" THEN [task EXCEPT ![j] = "ended"] ELSE task
  /\ at' = [at EXCEPT ![p] = Idle]
  /\ UNCHANGED <<queue, queueTmp, result, owner, cancelling, history>>

RenameQueue(p) ==
  LET j == at[p].job IN
  /\ at[p].next = "rename" /\ at[p].for \in QueuePurposes
  /\ queueTmp[j] # None
  /\ queue' = [queue EXCEPT ![j] = queueTmp[j]]
  /\ queueTmp' = [queueTmp EXCEPT ![j] = None]
  /\ at' = [at EXCEPT ![p] = IF at[p].for = "carry" THEN EndWith(j, "completed", at[p].msgs) ELSE Idle]
  /\ folded' = [m \in Messages |->
                  IF at[p].for = "drain" /\ m \in at[p].msgs THEN folded[m] + 1 ELSE folded[m]]
  /\ accepted' = IF at[p].for = "enqueue" THEN accepted \cup at[p].msgs ELSE accepted
  /\ UNCHANGED <<status, statusTmp, result, task, owner, cancelling, sent, foreign>>

\* Another process has renamed the temporary file: FileNotFoundError.  It
\* fails a request, is swallowed by the orchestration, ends the answer of a
\* job with "failed", and ends a task that was already in an except clause.
RenameFails(p) ==
  LET j == at[p].job IN
  /\ at[p].next = "rename"
  /\ (IF at[p].for \in StatusPurposes THEN statusTmp ELSE queueTmp)[j] = None
  /\ IF at[p].for = "carry" \/ (at[p].for = "finish" /\ at[p].state = "completed")
     THEN /\ at' = [at EXCEPT ![p] = EndWith(j, "failed", {})]
          /\ UNCHANGED task
     ELSE /\ at' = [at EXCEPT ![p] = Idle]
          /\ task' = IF at[p].for = "finish" THEN [task EXCEPT ![j] = "ended"] ELSE task
  /\ UNCHANGED <<files, owner, cancelling, history>>

\* p dies and is started again; its tasks are gone, their files remain.
Restart(p) ==
  LET gone == {j \in Jobs : owner[j] = p /\ task[j] \notin {"ended", "lost"}} IN
  /\ task' = [j \in Jobs |-> IF j \in gone THEN "lost" ELSE task[j]]
  /\ cancelling' = cancelling \ gone
  /\ at' = [at EXCEPT ![p] = Idle]
  /\ UNCHANGED <<files, owner, history>>

---------------------------------------------------------------------------
FileStep(p) ==
  ReadQueue(p) \/ WriteTmp(p) \/ WriteResult(p) \/ RenameStatus(p) \/ RenameQueue(p) \/ RenameFails(p)

Loop(p, j) == Begin(p, j) \/ Watch(p, j) \/ Stored(p, j) \/ Interrupted(p, j)

Orchestration(p, j) == Progress(p, j) \/ Drain(p, j) \/ Answered(p, j) \/ Raised(p, j)

Request(p, j) == Create(p, j) \/ Cancel(p, j) \/ \E m \in Messages : Enqueue(p, j, m)

Next == \E p \in Processes :
  FileStep(p) \/ Restart(p) \/ \E j \in Jobs : Loop(p, j) \/ Orchestration(p, j) \/ Request(p, j)

Spec == Init /\ [][Next]_vars

\* What the event loop owes its coroutines: one that runs goes on to its
\* next await, and one that can run gets a turn in the end.  It does not owe
\* that the orchestration ever returns.
ServeSpec ==
  /\ Spec
  /\ \A p \in Processes : WF_vars(FileStep(p)) /\ \A j \in Jobs : SF_vars(Loop(p, j))

---------------------------------------------------------------------------
(* What holds for every number of processes.                               *)

\* A task that has ended leaves a terminal status, although other processes
\* write the status from what they read before, and through the same
\* temporary file: nobody polls a finished job for ever.
EndedIsTerminal == \A j \in Jobs : task[j] = "ended" => status[j] \in Terminal

\* The result that stands behind a status.  A result that was written before
\* the status could not be is replaced by a failure.
Backed(j, s) ==
  /\ s = "completed" => result[j].state \in {"completed", "failed"}
  /\ s \in {"failed", "timed_out"} => result[j].state = s

\* A poller that sees such a status finds the result: process_job writes the
\* result first.
PollerFindsResult == \A j \in Jobs : Backed(j, status[j])

\* A cancel that stands in the file, whoever wrote it, ends an orchestration
\* that would run on for ever: the watcher of the owner's process finds it.
CancelReachesTask ==
  \A j \in Jobs :
    (task[j] = "answering" /\ status[j] = "cancelled") ~>
      (task[j] # "answering" \/ status[j] # "cancelled")

---------------------------------------------------------------------------
(* What holds for the jobs whose requests all come to their own process.   *)

\* A terminal status stays: progress, the end of the task, cancels and
\* restarts leave it alone.
TerminalStands ==
  [][\A j \in Jobs : j \notin foreign' /\ status[j] \in Terminal => status'[j] = status[j]]_vars

Carried(m) == sent[m] # None /\ m \in result[sent[m]].carried

\* A message is folded into the turn or carried over to the next one, and
\* never both or twice: drain and carry-over mark what they take.
SurfacedOnce ==
  \A m \in Messages : sent[m] # None /\ sent[m] \notin foreign =>
    folded[m] <= 1 /\ (Carried(m) => folded[m] = 0)

\* Once a job has completed, every message that was accepted for it has been
\* folded into its turn or is handed back to the client.
CompletedDropsNothing ==
  \A m \in accepted :
    sent[m] \notin foreign /\ task[sent[m]] = "ended" /\ result[sent[m]].state = "completed" =>
      folded[m] > 0 \/ Carried(m)

---------------------------------------------------------------------------
(* What the code says of itself and does not keep.                         *)

\* "nothing the user typed gets dropped": whatever way a job ends.
NothingDropped ==
  \A m \in accepted : task[sent[m]] = "ended" => folded[m] > 0 \/ Carried(m)
=============================================================================
