----------------------------- MODULE AskJobs_proofs -----------------------------
(***************************************************************************)
(* Theorems about AskJobs, for any number of processes, jobs and messages. *)
(***************************************************************************)
EXTENDS AskJobs, TLAPS

\* What a process is in the middle of fits the task it does it for.
AtOf(p) ==
  LET a == at[p] IN
  /\ a.for = "nothing" => a.next = "none"
  /\ a.for # "nothing" => a.job \in Jobs /\ task[a.job] \notin {"none", "created"}
  /\ a.for \in {"progress", "drain"} => owner[a.job] = p /\ task[a.job] = "answering"
  /\ a.for \in {"carry", "result", "finish"} => owner[a.job] = p /\ task[a.job] = "finishing"
  /\ a.for = "progress" => a.state \in Active
  /\ a.for = "cancel" => a.state = "cancelled"
  /\ a.for \in {"result", "finish"} => a.state \in Terminal

Fits == \A p \in Processes : AtOf(p)

\* The files of a job, by the phase of its task.
FilesOf(j) ==
  /\ task[j] \in {"none", "created"} => status[j] \in {"absent", "queued"} /\ statusTmp[j] = None
  /\ task[j] \in {"none", "created", "answering", "storing"} => result[j].state = "absent"
  /\ task[j] = "ended" => status[j] \in Terminal /\ statusTmp[j] \in Terminal \cup {None}
  /\ Backed(j, status[j])
  /\ statusTmp[j] # None => Backed(j, statusTmp[j])

\* A task that is about to end has its result, and a terminal status
\* written by itself or by whoever has renamed what it wrote.
EndOf(p) ==
  LET a == at[p] IN
  /\ a.for = "carry" => result[a.job].state = "absent"
  /\ a.for = "result" => result[a.job].state = "absent" \/ (result[a.job].state = "completed" /\ a.state = "failed")
  /\ a.for = "finish" => result[a.job].state = a.state
  /\ a.for = "finish" /\ a.next = "rename" =>
       \/ statusTmp[a.job] \in Terminal
       \/ statusTmp[a.job] = None /\ status[a.job] \in Terminal

Ends == (\A j \in Jobs : FilesOf(j)) /\ \A p \in Processes : EndOf(p)

\* A job that only its own process has handled: nobody else writes, and a
\* terminal status before the end means that the task is being cancelled.
OwnOf(p) ==
  LET a == at[p] IN
  a.for \in StatusPurposes \cup {"carry", "result"} /\ a.job \notin foreign =>
    /\ owner[a.job] = p
    /\ a.for \in StatusPurposes /\ a.next = "rename" => statusTmp[a.job] = a.state
    /\ a.for \in {"progress", "cancel", "carry"} => status[a.job] \notin Terminal
    /\ a.for = "cancel" /\ task[a.job] \in {"answering", "storing"} => a.job \in cancelling
    /\ a.for \in {"result", "finish"} /\ status[a.job] \in Terminal =>
         status[a.job] = "cancelled" /\ a.state = "cancelled"

CancelledOf(j) ==
  j \notin foreign /\ task[j] \in {"answering", "storing"} /\ status[j] \in Terminal =>
    status[j] = "cancelled" /\ j \in cancelling

Alone == (\A p \in Processes : OwnOf(p)) /\ \A j \in Jobs : CancelledOf(j)

IInv == TypeOK /\ Fits /\ Ends /\ Alone

---------------------------------------------------------------------------
(* Types.                                                                  *)

At == [for : Purposes, next : FileOps, job : Jobs \cup {None},
       state : States, items : Queues, msgs : SUBSET Messages]

\* What the pieces of coroutines look like.
LEMMA IdleType == Idle \in At /\ Idle.for = "nothing" /\ Idle.next = "none"
  BY DEF Doing, Idle, At, Purposes, FileOps, States, Active, Queues, EmptyQueue, Marks

LEMMA Pieces ==
  ASSUME NEW j \in Jobs, NEW ms \in SUBSET Messages
  PROVE  /\ \A why \in StatusPurposes, s \in States :
              LET a == WriteStatus(why, j, s) IN
              a \in At /\ a.for = why /\ a.next = "write" /\ a.job = j /\ a.state = s
         /\ \A why \in QueuePurposes, q \in Queues :
              LET a == WriteQueue(why, j, q, ms) IN
              a \in At /\ a.for = why /\ a.next = "write" /\ a.job = j /\ a.msgs = ms
         /\ \A s \in Terminal :
              LET a == EndWith(j, s, ms) IN
              a \in At /\ a.for = "result" /\ a.next = "write" /\ a.job = j /\ a.state = s
<1>1. EmptyQueue \in Queues
  BY DEF EmptyQueue, Queues, Marks
<1>2. \A why \in StatusPurposes, s \in States : WriteStatus(why, j, s) \in At
  BY <1>1 DEF WriteStatus, Doing, At, Purposes, FileOps
<1>3. \A why \in QueuePurposes, q \in Queues : WriteQueue(why, j, q, ms) \in At
  BY DEF WriteQueue, Doing, At, Purposes, FileOps, States, Active
<1>4. \A s \in Terminal : EndWith(j, s, ms) \in At
  BY <1>1 DEF EndWith, Doing, At, Purposes, FileOps, States
<1> QED BY <1>2, <1>3, <1>4 DEF WriteStatus, WriteQueue, EndWith, Doing

LEMMA MarkedType ==
  ASSUME NEW q \in Queues, NEW mark \in Marks
  PROVE  Marked(q, mark) \in Queues /\ Queued(q) \subseteq Messages
  BY DEF Marked, Queued, Queues

\* A process that makes a file operation works on a job.
LEMMA BusyJob ==
  ASSUME TypeOK, Fits, NEW p \in Processes, at[p].for # "nothing" \/ at[p].next # "none"
  PROVE  at[p] \in At /\ at[p].job \in Jobs
  BY DEF TypeOK, At, Fits, AtOf

LEMMA TypeStep == TypeOK /\ Fits /\ [Next]_vars => TypeOK'
<1> SUFFICES ASSUME TypeOK, Fits, [Next]_vars PROVE TypeOK'
  OBVIOUS
<1>0. at \in [Processes -> At]
  BY DEF TypeOK, At
<1> USE DEF TypeOK, Phases, files, history
<1>1. ASSUME NEW p \in Processes, NEW j \in Jobs, Request(p, j) PROVE TypeOK'
  <2>1. CASE Create(p, j)
    BY <2>1 DEF Create, States, Active
  <2>2. CASE Cancel(p, j)
    <3>1. WriteStatus("cancel", j, "cancelled") \in At
      BY Pieces DEF StatusPurposes, States, Terminal
    <3> QED BY <2>2, <3>1, <1>0 DEF Cancel, TouchedBy, At
  <2>3. ASSUME NEW m \in Messages, Enqueue(p, j, m) PROVE TypeOK'
    <3>1. Doing("enqueue", "read", j, "queued", EmptyQueue, {m}) \in At
      BY DEF Doing, At, Purposes, QueuePurposes, FileOps, States, Active, EmptyQueue, Queues, Marks
    <3> QED BY <2>3, <3>1, <1>0 DEF Enqueue, TouchedBy, At
  <2> QED BY <1>1, <2>1, <2>2, <2>3 DEF Request
<1>2. ASSUME NEW p \in Processes, NEW j \in Jobs, Loop(p, j) PROVE TypeOK'
  <2>1. CASE Begin(p, j)
    BY <2>1 DEF Begin, States, Active
  <2>2. CASE Watch(p, j)
    BY <2>2 DEF Watch
  <2>3. CASE Stored(p, j)
    <3>1. queue[j] \in Queues
      OBVIOUS
    <3>2. EndWith(j, "completed", {}) \in At
      BY Pieces DEF Terminal
    <3>3. WriteQueue("carry", j, Marked(queue[j], "carried"), Queued(queue[j])) \in At
      BY Pieces, MarkedType, <3>1 DEF Marks, QueuePurposes
    <3> QED BY <2>3, <3>2, <3>3, <1>0 DEF Stored, At
  <2>4. CASE Interrupted(p, j)
    <3>1. EndWith(j, "cancelled", {}) \in At
      BY Pieces DEF Terminal
    <3> QED BY <2>4, <3>1, <1>0 DEF Interrupted, At
  <2> QED BY <1>2, <2>1, <2>2, <2>3, <2>4 DEF Loop
<1>3. ASSUME NEW p \in Processes, NEW j \in Jobs, Orchestration(p, j) PROVE TypeOK'
  <2>1. CASE Progress(p, j)
    <3>1. \A s \in EventStates : WriteStatus("progress", j, s) \in At
      BY Pieces DEF StatusPurposes, States, Active, EventStates
    <3> QED BY <2>1, <3>1, <1>0 DEF Progress, At
  <2>2. CASE Drain(p, j)
    <3>1. queue[j] \in Queues
      OBVIOUS
    <3>2. WriteQueue("drain", j, Marked(queue[j], "consumed"), Queued(queue[j])) \in At
      BY Pieces, MarkedType, <3>1 DEF Marks, QueuePurposes
    <3> QED BY <2>2, <3>2, <1>0 DEF Drain, At
  <2>3. CASE Answered(p, j)
    BY <2>3 DEF Answered
  <2>4. CASE Raised(p, j)
    <3>1. \A s \in {"timed_out", "failed"} : EndWith(j, s, {}) \in At
      BY Pieces DEF Terminal
    <3> QED BY <2>4, <3>1, <1>0 DEF Raised, At
  <2> QED BY <1>3, <2>1, <2>2, <2>3, <2>4 DEF Orchestration
<1>4. ASSUME NEW p \in Processes, FileStep(p) PROVE TypeOK'
  <2>0. at[p] \in At /\ at[p].job \in Jobs /\ at[p].msgs \subseteq Messages
    BY <1>4, BusyJob DEF FileStep, ReadQueue, WriteTmp, WriteResult, RenameStatus, RenameQueue,
       RenameFails, At, StatusPurposes, QueuePurposes
  <2>1. CASE ReadQueue(p)
    <3> DEFINE q == [m \in Messages |-> IF m \in at[p].msgs THEN "queued" ELSE queue[at[p].job][m]]
    <3>1. q \in Queues
      BY <2>0 DEF Queues, Marks
    <3>2. WriteQueue("enqueue", at[p].job, q, at[p].msgs) \in At
      BY Pieces, <2>0, <3>1 DEF QueuePurposes
    <3> QED BY <2>1, <3>2, <1>0 DEF ReadQueue, At
  <2>2. CASE WriteTmp(p)
    <3>1. [at[p] EXCEPT !.next = "rename"] \in At
      BY <2>0 DEF At, FileOps
    <3> QED BY <2>2, <2>0, <3>1, <1>0 DEF WriteTmp, At
  <2>3. CASE WriteResult(p)
    <3>1. at[p].state \in Terminal
      BY <2>3 DEF WriteResult, Fits, AtOf
    <3>2. WriteStatus("finish", at[p].job, at[p].state) \in At
      BY Pieces, <2>0, <3>1 DEF StatusPurposes, States
    <3> QED BY <2>3, <2>0, <3>1, <3>2, <1>0 DEF WriteResult, At
  <2>4. CASE RenameStatus(p)
    <3>1. statusTmp[at[p].job] \in States
      BY <2>4, <2>0 DEF RenameStatus
    <3> QED BY <2>4, <2>0, <3>1, <1>0, IdleType DEF RenameStatus, At
  <2>5. CASE RenameQueue(p)
    <3>1. EndWith(at[p].job, "completed", at[p].msgs) \in At 
      BY Pieces, <2>0 DEF Terminal
    <3>2. queueTmp[at[p].job] \in Queues
      BY <2>5, <2>0 DEF RenameQueue
    <3>3. at' \in [Processes -> At] /\ folded' \in [Messages -> Nat]
      BY <2>5, <3>1, <1>0, IdleType DEF RenameQueue
    <3> QED BY <2>5, <2>0, <3>2, <3>3 DEF RenameQueue, At
  <2>6. CASE RenameFails(p)
    <3>1. EndWith(at[p].job, "failed", {}) \in At
      BY Pieces, <2>0 DEF Terminal
    <3>2. at' \in [Processes -> At]
      BY <2>6, <3>1, <1>0, IdleType DEF RenameFails
    <3>3. task' \in [Jobs -> Phases]
      BY <2>6, <2>0 DEF RenameFails, Phases
    <3> QED BY <2>6, <3>2, <3>3 DEF RenameFails, At
  <2> QED BY <1>4, <2>1, <2>2, <2>3, <2>4, <2>5, <2>6 DEF FileStep
<1>5. ASSUME NEW p \in Processes, Restart(p) PROVE TypeOK'
  <2>1. [at EXCEPT ![p] = Idle] \in [Processes -> At]
    BY <1>0, IdleType
  <2> QED BY <1>5, <2>1 DEF Restart, At
<1>6. CASE UNCHANGED vars
  BY <1>6 DEF vars
<1> QED BY <1>1, <1>2, <1>3, <1>4, <1>5, <1>6 DEF Next

---------------------------------------------------------------------------
(* What processes are in the middle of.                                    *)

\* A process is not affected by a step that keeps its own tasks.
LEMMA AtFrame ==
  ASSUME NEW q \in Processes, AtOf(q), at'[q] = at[q],
         \A j \in Jobs : task[j] \notin {"none", "created"} => task'[j] \notin {"none", "created"},
         \A j \in Jobs : owner[j] = q /\ task[j] \in {"answering", "finishing"} =>
           owner'[j] = q /\ task'[j] = task[j]
  PROVE  AtOf(q)'
  BY DEF AtOf

\* A step of p that leaves other processes and their tasks alone.
OnlyBy(p) ==
  /\ \A q \in Processes : q # p => at'[q] = at[q]
  /\ \A j \in Jobs : task[j] \notin {"none", "created"} => task'[j] \notin {"none", "created"}
  /\ \A j \in Jobs : owner[j] # p /\ task[j] \in {"answering", "finishing"} =>
       owner'[j] = owner[j] /\ task'[j] = task[j]

LEMMA OnlyByFits ==
  ASSUME NEW p \in Processes, Fits, OnlyBy(p), AtOf(p)'
  PROVE  Fits'
<1> SUFFICES ASSUME NEW q \in Processes, q # p PROVE AtOf(q)'
  BY DEF Fits
<1> QED BY AtFrame, NoneAssumption DEF Fits, OnlyBy

\* A process that is free, or becomes so, fits.
LEMMA FreeFits ==
  ASSUME NEW p \in Processes, at'[p].for = "nothing", at'[p].next = "none"
  PROVE  AtOf(p)'
  BY DEF AtOf

LEMMA FitsStep == TypeOK /\ Fits /\ Ends /\ [Next]_vars => Fits'
<1> SUFFICES ASSUME TypeOK, Fits, Ends, [Next]_vars PROVE Fits'
  OBVIOUS
<1>0. at \in [Processes -> At] /\ task \in [Jobs -> Phases] /\ owner \in [Jobs -> Processes \cup {None}]
  BY DEF TypeOK, At
<1> USE DEF files, history
<1>1. ASSUME NEW p \in Processes, NEW j \in Jobs, Request(p, j) PROVE Fits'
  <2>1. CASE Create(p, j)
    <3>1. OnlyBy(p) /\ at'[p] = at[p]
      BY <2>1, <1>0 DEF Create, OnlyBy
    <3>2. AtOf(p)'
      BY <2>1, <3>1, FreeFits DEF Create, Free, Fits, AtOf
    <3> QED BY <3>1, <3>2, OnlyByFits
  <2>2. CASE Cancel(p, j)
    <3>1. OnlyBy(p) /\ at'[p] = WriteStatus("cancel", j, "cancelled") /\ task' = task
      BY <2>2, <1>0 DEF Cancel, OnlyBy
    <3>2. task[j] \notin {"none", "created"}
      BY <2>2 DEF Cancel, Known, Ends, FilesOf
    <3>3. AtOf(p)'
      BY <3>1, <3>2, Pieces DEF AtOf, States, Terminal, StatusPurposes
    <3> QED BY <3>1, <3>3, OnlyByFits
  <2>3. ASSUME NEW m \in Messages, Enqueue(p, j, m) PROVE Fits'
    <3>1. OnlyBy(p) /\ at'[p] = Doing("enqueue", "read", j, "queued", EmptyQueue, {m}) /\ task' = task
      BY <2>3, <1>0 DEF Enqueue, OnlyBy
    <3>2. task[j] \notin {"none", "created"}
      BY <2>3 DEF Enqueue, Known, Ends, FilesOf
    <3>3. AtOf(p)'
      BY <3>1, <3>2 DEF AtOf, Doing
    <3> QED BY <3>1, <3>3, OnlyByFits
  <2> QED BY <1>1, <2>1, <2>2, <2>3 DEF Request
<1>2. ASSUME NEW p \in Processes, NEW j \in Jobs, Loop(p, j) PROVE Fits'
  <2>0. OnlyBy(p)
    BY <1>2, <1>0 DEF Loop, Begin, Watch, Stored, Interrupted, Turn, OnlyBy
  <2>1. CASE Begin(p, j)
    BY <2>0, <2>1, FreeFits, OnlyByFits DEF Begin, Turn, Free, Fits, AtOf
  <2>2. CASE Watch(p, j)
    BY <2>0, <2>2, FreeFits, OnlyByFits DEF Watch, Turn, Free, Fits, AtOf
  <2>3. CASE Stored(p, j)
    <3>1. task'[j] = "finishing" /\ owner'[j] = p
      BY <2>3, <1>0 DEF Stored, Turn
    <3>2. at'[p].for \in {"carry", "result"} /\ at'[p].job = j
            /\ (at'[p].for = "result" => at'[p].state = "completed")
      BY <2>3, <1>0 DEF Stored, EndWith, WriteQueue, Doing
    <3>3. AtOf(p)'
      BY <3>1, <3>2 DEF AtOf, Terminal
    <3> QED BY <2>0, <3>3, OnlyByFits
  <2>4. CASE Interrupted(p, j)
    <3>1. task'[j] = "finishing" /\ owner'[j] = p /\ at'[p] = EndWith(j, "cancelled", {})
      BY <2>4, <1>0 DEF Interrupted
    <3>2. AtOf(p)'
      BY <3>1 DEF AtOf, EndWith, Doing, Terminal
    <3> QED BY <2>0, <3>2, OnlyByFits
  <2> QED BY <1>2, <2>1, <2>2, <2>3, <2>4 DEF Loop
<1>3. ASSUME NEW p \in Processes, NEW j \in Jobs, Orchestration(p, j) PROVE Fits'
  <2>0. OnlyBy(p)
    BY <1>3, <1>0 DEF Orchestration, Progress, Drain, Answered, Raised, Turn, OnlyBy
  <2>1. CASE Progress(p, j)
    <3>1. task'[j] = "answering" /\ owner'[j] = p /\ \E s \in EventStates : at'[p] = WriteStatus("progress", j, s)
      BY <2>1, <1>0 DEF Progress, Turn
    <3>2. AtOf(p)'
      BY <3>1 DEF AtOf, WriteStatus, Doing, EventStates, Active
    <3> QED BY <2>0, <3>2, OnlyByFits
  <2>2. CASE Drain(p, j)
    <3>1. task'[j] = "answering" /\ owner'[j] = p /\ at'[p].for = "drain" /\ at'[p].job = j
      BY <2>2, <1>0 DEF Drain, Turn, WriteQueue, Doing
    <3>2. AtOf(p)'
      BY <3>1 DEF AtOf
    <3> QED BY <2>0, <3>2, OnlyByFits
  <2>3. CASE Answered(p, j)
    BY <2>0, <2>3, FreeFits, OnlyByFits DEF Answered, Turn, Free, Fits, AtOf
  <2>4. CASE Raised(p, j)
    <3>1. task'[j] = "finishing" /\ owner'[j] = p
            /\ \E s \in {"timed_out", "failed"} : at'[p] = EndWith(j, s, {})
      BY <2>4, <1>0 DEF Raised, Turn
    <3>2. AtOf(p)'
      BY <3>1 DEF AtOf, EndWith, Doing, Terminal
    <3> QED BY <2>0, <3>2, OnlyByFits
  <2> QED BY <1>3, <2>1, <2>2, <2>3, <2>4 DEF Orchestration
<1>4. ASSUME NEW p \in Processes, FileStep(p) PROVE Fits'
  <2>0. at[p] \in At /\ at[p].job \in Jobs /\ AtOf(p) /\ at[p].for # "nothing"
    BY <1>4, BusyJob DEF FileStep, ReadQueue, WriteTmp, WriteResult, RenameStatus, RenameQueue,
       RenameFails, Fits, AtOf
  <2>1. OnlyBy(p)
    BY <1>4, <1>0, <2>0 DEF FileStep, ReadQueue, WriteTmp, WriteResult, RenameStatus, RenameQueue,
       RenameFails, OnlyBy, AtOf
  <2>2. CASE ReadQueue(p)
    <3>1. at'[p].for = "enqueue" /\ at'[p].job = at[p].job /\ task' = task
      BY <2>2, <1>0 DEF ReadQueue, WriteQueue, Doing
    <3>2. AtOf(p)'
      BY <3>1, <2>0 DEF AtOf
    <3> QED BY <2>1, <3>2, OnlyByFits
  <2>3. CASE WriteTmp(p)
    <3>1. at'[p] = [at[p] EXCEPT !.next = "rename"] /\ task' = task /\ owner' = owner
      BY <2>3, <1>0 DEF WriteTmp
    <3>2. AtOf(p)'
      BY <3>1, <2>0 DEF AtOf, At
    <3> QED BY <2>1, <3>2, OnlyByFits
  <2>4. CASE WriteResult(p)
    <3>1. at'[p] = WriteStatus("finish", at[p].job, at[p].state) /\ task' = task /\ owner' = owner
      BY <2>4, <1>0 DEF WriteResult
    <3>2. AtOf(p)'
      BY <3>1, <2>0, <2>4 DEF AtOf, WriteResult, WriteStatus, Doing
    <3> QED BY <2>1, <3>2, OnlyByFits
  <2>5. CASE RenameStatus(p)
    <3>1. at'[p] = Idle
      BY <2>5, <1>0 DEF RenameStatus
    <3> QED BY <2>1, <3>1, IdleType, FreeFits, OnlyByFits
  <2>6. CASE RenameQueue(p)
    <3>1. CASE at[p].for = "carry"
      <4>1. at'[p] = EndWith(at[p].job, "completed", at[p].msgs) /\ task' = task /\ owner' = owner
        BY <2>6, <1>0, <3>1 DEF RenameQueue
      <4>2. AtOf(p)'
        BY <4>1, <3>1, <2>0 DEF AtOf, EndWith, Doing, Terminal
      <4> QED BY <2>1, <4>2, OnlyByFits
    <3>2. CASE at[p].for # "carry"
      <4>1. at'[p] = Idle
        BY <2>6, <1>0, <3>2 DEF RenameQueue
      <4> QED BY <2>1, <4>1, IdleType, FreeFits, OnlyByFits
    <3> QED BY <3>1, <3>2
  <2>7. CASE RenameFails(p)
    <3>1. CASE at[p].for = "carry" \/ (at[p].for = "finish" /\ at[p].state = "completed")
      <4>1. at'[p] = EndWith(at[p].job, "failed", {}) /\ task' = task /\ owner' = owner
        BY <2>7, <1>0, <3>1 DEF RenameFails
      <4>2. AtOf(p)'
        BY <4>1, <3>1, <2>0 DEF AtOf, EndWith, Doing, Terminal
      <4> QED BY <2>1, <4>2, OnlyByFits
    <3>2. CASE ~(at[p].for = "carry" \/ (at[p].for = "finish" /\ at[p].state = "completed"))
      <4>1. at'[p] = Idle
        BY <2>7, <1>0, <3>2 DEF RenameFails
      <4> QED BY <2>1, <4>1, IdleType, FreeFits, OnlyByFits
    <3> QED BY <3>1, <3>2
  <2> QED BY <1>4, <2>2, <2>3, <2>4, <2>5, <2>6, <2>7 DEF FileStep
<1>5. ASSUME NEW p \in Processes, Restart(p) PROVE Fits'
  <2>1. OnlyBy(p) /\ at'[p] = Idle
    BY <1>5, <1>0 DEF Restart, OnlyBy
  <2> QED BY <2>1, IdleType, FreeFits, OnlyByFits
<1>6. CASE UNCHANGED vars
  BY <1>6 DEF vars, Fits, AtOf
<1> QED BY <1>1, <1>2, <1>3, <1>4, <1>5, <1>6 DEF Next

---------------------------------------------------------------------------
(* Results and terminal statuses.                                          *)

\* A process is not affected by a step that leaves the files of its job.
LEMMA EndFrame ==
  ASSUME NEW q \in Processes, EndOf(q), at'[q] = at[q],
         at[q].for \in {"carry", "result", "finish"} =>
           /\ result'[at[q].job] = result[at[q].job]
           /\ status'[at[q].job] = status[at[q].job]
           /\ statusTmp'[at[q].job] = statusTmp[at[q].job]
  PROVE  EndOf(q)'
  BY DEF EndOf

\* A step that changes what p is in the middle of, and no status or result.
OnlyAt(p) ==
  /\ status' = status /\ statusTmp' = statusTmp /\ result' = result
  /\ \A q \in Processes : q # p => at'[q] = at[q]
  /\ \A j \in Jobs : \/ task'[j] = task[j]
                     \/ task'[j] \in {"finishing", "lost"}
                     \/ task'[j] = "storing" /\ task[j] = "answering"

LEMMA EndsFrame ==
  ASSUME NEW p \in Processes, Ends, OnlyAt(p), EndOf(p)'
  PROVE  Ends'
<1> USE DEF OnlyAt
<1>1. ASSUME NEW j \in Jobs PROVE FilesOf(j)'
  BY DEF Ends, FilesOf, Backed
<1>2. ASSUME NEW q \in Processes, q # p PROVE EndOf(q)'
  BY <1>2, EndFrame DEF Ends
<1> QED BY <1>1, <1>2 DEF Ends

\* A new job has no result, and no process is at its end.
LEMMA NewJob ==
  ASSUME TypeOK, Fits, Ends, NEW j \in Jobs, NEW s \in Active,
         task[j] \in {"none", "created"}, task'[j] \in {"created", "answering"},
         s = "queued" \/ task'[j] = "answering",
         status' = [status EXCEPT ![j] = s], UNCHANGED <<statusTmp, result, at>>,
         \A k \in Jobs : k # j => task'[k] = task[k]
  PROVE  Ends'
<1>1. status'[j] = s /\ \A k \in Jobs : k # j => status'[k] = status[k]
  BY DEF TypeOK
<1>2. ASSUME NEW k \in Jobs PROVE FilesOf(k)'
  BY <1>1, <1>2 DEF Ends, FilesOf, Backed, Active
<1>3. ASSUME NEW q \in Processes PROVE EndOf(q)'
  <2>1. at[q].for \in {"carry", "result", "finish"} => at[q].job \in Jobs /\ at[q].job # j
    BY DEF Fits, AtOf
  <2> QED BY <1>1, <2>1, EndFrame DEF Ends
<1> QED BY <1>2, <1>3 DEF Ends

LEMMA EndsStep == TypeOK /\ Fits /\ Ends /\ [Next]_vars => Ends'
<1> SUFFICES ASSUME TypeOK, Fits, Ends, [Next]_vars PROVE Ends'
  OBVIOUS
<1>0. at \in [Processes -> At] /\ task \in [Jobs -> Phases] /\ owner \in [Jobs -> Processes \cup {None}]
  BY DEF TypeOK, At
<1> USE DEF files, history
<1>1. ASSUME NEW p \in Processes, NEW j \in Jobs, Request(p, j) PROVE Ends'
  <2>1. CASE Create(p, j)
    BY <2>1, <1>0, NewJob DEF Create, Active
  <2>2. CASE Cancel(p, j)
    <3>1. at'[p].for = "cancel" /\ \A q \in Processes : q # p => at'[q] = at[q]
      BY <2>2, <1>0 DEF Cancel, WriteStatus, Doing
    <3>2. EndOf(p)'
      BY <3>1 DEF EndOf
    <3>9. OnlyAt(p)
      BY <2>2, <3>1, <3>2, <1>0 DEF OnlyAt, Cancel
    <3> QED BY <3>1, <3>2, <3>9, EndsFrame
  <2>3. ASSUME NEW m \in Messages, Enqueue(p, j, m) PROVE Ends'
    <3>1. at'[p].for = "enqueue" /\ \A q \in Processes : q # p => at'[q] = at[q]
      BY <2>3, <1>0 DEF Enqueue, Doing
    <3>2. EndOf(p)'
      BY <3>1 DEF EndOf
    <3>9. OnlyAt(p)
      BY <2>3, <3>1, <3>2, <1>0 DEF OnlyAt, Enqueue
    <3> QED BY <3>1, <3>2, <3>9, EndsFrame
  <2> QED BY <1>1, <2>1, <2>2, <2>3 DEF Request
<1>2. ASSUME NEW p \in Processes, NEW j \in Jobs, Loop(p, j) \/ Orchestration(p, j) PROVE Ends'
  <2>1. CASE Begin(p, j)
    BY <2>1, <1>0, NewJob DEF Begin, Turn, Active
  <2>2. CASE Watch(p, j)
    <3>1. EndOf(p)'
      BY <2>2 DEF Watch, Turn, Free, EndOf
    <3>9. OnlyAt(p)
      BY <2>2, <3>1, <1>0 DEF OnlyAt, Watch
    <3> QED BY <3>1, <3>9, EndsFrame
  <2>3. CASE Stored(p, j)
    <3>1. result[j].state = "absent"
      BY <2>3 DEF Stored, Turn, Ends, FilesOf
    <3>2. at'[p].for \in {"carry", "result"} /\ at'[p].job = j
      BY <2>3, <1>0 DEF Stored, EndWith, WriteQueue, Doing
    <3>3. EndOf(p)'
      BY <2>3, <3>1, <3>2 DEF Stored, EndOf
    <3>9. OnlyAt(p)
      BY <2>3, <1>0, <3>3 DEF OnlyAt, Stored, Turn
    <3> QED BY <3>3, <3>9, EndsFrame
  <2>4. CASE Interrupted(p, j)
    <3>1. result[j].state = "absent"
      BY <2>4 DEF Interrupted, Ends, FilesOf
    <3>2. at'[p].for = "result" /\ at'[p].job = j
      BY <2>4, <1>0 DEF Interrupted, EndWith, Doing
    <3>3. EndOf(p)'
      BY <2>4, <3>1, <3>2 DEF Interrupted, EndOf
    <3>9. OnlyAt(p)
      BY <2>4, <1>0, <3>3 DEF OnlyAt, Interrupted
    <3> QED BY <3>3, <3>9, EndsFrame
  <2>5. CASE Progress(p, j)
    <3>1. at'[p].for = "progress" /\ \A q \in Processes : q # p => at'[q] = at[q]
      BY <2>5, <1>0 DEF Progress, WriteStatus, Doing
    <3>2. EndOf(p)'
      BY <3>1 DEF EndOf
    <3>9. OnlyAt(p)
      BY <2>5, <3>1, <3>2, <1>0 DEF OnlyAt, Progress
    <3> QED BY <3>1, <3>2, <3>9, EndsFrame
  <2>6. CASE Drain(p, j)
    <3>1. at'[p].for = "drain" /\ \A q \in Processes : q # p => at'[q] = at[q]
      BY <2>6, <1>0 DEF Drain, WriteQueue, Doing
    <3>2. EndOf(p)'
      BY <3>1 DEF EndOf
    <3>9. OnlyAt(p)
      BY <2>6, <3>1, <3>2, <1>0 DEF OnlyAt, Drain
    <3> QED BY <3>1, <3>2, <3>9, EndsFrame
  <2>7. CASE Answered(p, j)
    <3>1. EndOf(p)'
      BY <2>7 DEF Answered, Turn, Free, EndOf
    <3>9. OnlyAt(p)
      BY <2>7, <1>0, <3>1 DEF OnlyAt, Answered, Turn
    <3> QED BY <3>1, <3>9, EndsFrame
  <2>8. CASE Raised(p, j)
    <3>1. result[j].state = "absent"
      BY <2>8 DEF Raised, Turn, Ends, FilesOf
    <3>2. at'[p].for = "result" /\ at'[p].job = j
      BY <2>8, <1>0 DEF Raised, EndWith, Doing
    <3>3. EndOf(p)'
      BY <2>8, <3>1, <3>2 DEF Raised, EndOf
    <3>9. OnlyAt(p)
      BY <2>8, <1>0, <3>3 DEF OnlyAt, Raised, Turn
    <3> QED BY <3>3, <3>9, EndsFrame
  <2> QED BY <1>2, <2>1, <2>2, <2>3, <2>4, <2>5, <2>6, <2>7, <2>8 DEF Loop, Orchestration
<1>4. ASSUME NEW p \in Processes, FileStep(p) PROVE Ends'
  <2> DEFINE j == at[p].job
  <2>0. at[p] \in At /\ j \in Jobs /\ AtOf(p) /\ EndOf(p) /\ FilesOf(j)
    BY <1>4, BusyJob DEF FileStep, ReadQueue, WriteTmp, WriteResult, RenameStatus, RenameQueue,
       RenameFails, Fits, AtOf, Ends, StatusPurposes, QueuePurposes
  <2>1. \A q \in Processes : q # p => at'[q] = at[q]
    BY <1>4, <1>0 DEF FileStep, ReadQueue, WriteTmp, WriteResult, RenameStatus, RenameQueue, RenameFails
  <2>2. CASE ReadQueue(p)
    <3>1. at'[p].for = "enqueue"
      BY <2>2, <1>0 DEF ReadQueue, WriteQueue, Doing
    <3>2. EndOf(p)'
      BY <3>1 DEF EndOf
    <3>9. OnlyAt(p)
      BY <2>1, <2>2, <3>2, <1>0 DEF OnlyAt, ReadQueue
    <3> QED BY <3>2, <3>9, EndsFrame
  <2>3. CASE WriteTmp(p)
    <3>0. at'[p] = [at[p] EXCEPT !.next = "rename"] /\ UNCHANGED <<status, result, task>>
      BY <2>3, <1>0 DEF WriteTmp
    <3>1. CASE at[p].for \in StatusPurposes
      <4>1. statusTmp'[j] = at[p].state /\ \A k \in Jobs : k # j => statusTmp'[k] = statusTmp[k]
        BY <2>3, <2>0, <3>1 DEF WriteTmp, TypeOK
      <4>2. Backed(j, at[p].state)
        BY <3>1, <2>0 DEF AtOf, EndOf, Backed, StatusPurposes, Active, Terminal
      <4>3. task[j] \in {"ended", "finishing"} => at[p].state \in Terminal
        BY <3>1, <2>0 DEF AtOf, StatusPurposes, Terminal
      <4>4. ASSUME NEW k \in Jobs PROVE FilesOf(k)'
        <5>1. CASE k = j
          BY <5>1, <2>0, <3>0, <4>1, <4>2, <4>3, <3>1 DEF FilesOf, Backed, AtOf, StatusPurposes
        <5>2. CASE k # j
          BY <5>2, <3>0, <4>1 DEF FilesOf, Backed, Ends
        <5> QED BY <5>1, <5>2
      <4>5. ASSUME NEW q \in Processes PROVE EndOf(q)'
        <5>1. CASE q = p
          BY <5>1, <2>0, <3>0, <3>1, <4>1 DEF EndOf, AtOf, At, StatusPurposes
        <5>2. CASE q # p /\ at[q].job = j /\ at[q].for \in {"carry", "result", "finish"}
          <6>1. task[j] = "finishing" /\ EndOf(q)
            BY <5>2 DEF Fits, AtOf, Ends
          <6> QED BY <5>2, <6>1, <2>1, <3>0, <4>1, <4>3 DEF EndOf
        <5>3. CASE q # p /\ ~(at[q].job = j /\ at[q].for \in {"carry", "result", "finish"})
          <6>1. at[q].for \in {"carry", "result", "finish"} => at[q].job \in Jobs /\ at[q].job # j
            BY <5>3 DEF Fits, AtOf
          <6> QED BY <5>3, <6>1, <2>1, <3>0, <4>1, EndFrame DEF Ends
        <5> QED BY <5>1, <5>2, <5>3
      <4> QED BY <4>4, <4>5 DEF Ends
    <3>2. CASE at[p].for \notin StatusPurposes
      <4>1. UNCHANGED statusTmp
        BY <2>3, <3>2 DEF WriteTmp
      <4>2. EndOf(p)'
        BY <2>0, <3>0, <3>2, <4>1 DEF EndOf, At, StatusPurposes
      <4>9. OnlyAt(p)
        BY <2>1, <3>0, <4>1, <4>2, <1>0 DEF OnlyAt
      <4> QED BY <4>1, <4>2, <4>9, EndsFrame
    <3> QED BY <3>1, <3>2
  <2>4. CASE WriteResult(p)
    <3>0. /\ at'[p] = WriteStatus("finish", j, at[p].state) /\ UNCHANGED <<status, statusTmp, task>>
          /\ result'[j].state = at[p].state /\ \A k \in Jobs : k # j => result'[k] = result[k]
          /\ at[p].for = "result" /\ task[j] = "finishing" /\ owner[j] = p
      BY <2>4, <2>0, <1>0 DEF WriteResult, TypeOK, AtOf
    <3>1. ASSUME NEW k \in Jobs PROVE FilesOf(k)'
      <4>1. CASE k = j
        BY <4>1, <2>0, <3>0 DEF FilesOf, EndOf, Backed
      <4>2. CASE k # j
        BY <4>2, <3>0 DEF FilesOf, Backed, Ends
      <4> QED BY <4>1, <4>2
    <3>2. ASSUME NEW q \in Processes PROVE EndOf(q)'
      <4>1. CASE q = p
        BY <4>1, <3>0 DEF EndOf, WriteStatus, Doing
      <4>2. CASE q # p
        <5>1. at[q].for \in {"carry", "result", "finish"} => at[q].job \in Jobs /\ at[q].job # j
          BY <4>2, <3>0 DEF Fits, AtOf
        <5> QED BY <4>2, <5>1, <2>1, <3>0, EndFrame DEF Ends
      <4> QED BY <4>1, <4>2
    <3> QED BY <3>1, <3>2 DEF Ends
  <2>5. CASE RenameStatus(p)
    <3>0. /\ at'[p] = Idle /\ UNCHANGED result /\ statusTmp[j] # None /\ at[p].for \in StatusPurposes
          /\ status'[j] = statusTmp[j] /\ statusTmp'[j] = None
          /\ \A k \in Jobs : k # j => status'[k] = status[k] /\ statusTmp'[k] = statusTmp[k] /\ task'[k] = task[k]
          /\ task'[j] = IF at[p].for = "finish" THEN "ended" ELSE task[j]
          /\ at[p].next = "rename"
      BY <2>5, <2>0, <1>0 DEF RenameStatus, TypeOK
    <3>1. ASSUME NEW k \in Jobs PROVE FilesOf(k)'
      <4>1. CASE k = j
        BY <4>1, <2>0, <3>0 DEF FilesOf, EndOf, AtOf, Backed, StatusPurposes
      <4>2. CASE k # j
        BY <4>2, <3>0 DEF FilesOf, Backed, Ends
      <4> QED BY <4>1, <4>2
    <3>2. ASSUME NEW q \in Processes PROVE EndOf(q)'
      <4>1. CASE q = p
        BY <4>1, <3>0, IdleType DEF EndOf
      <4>2. CASE q # p /\ at[q].job = j /\ at[q].for \in {"carry", "result", "finish"}
        <5>1. EndOf(q)
          BY DEF Ends
        <5> QED BY <4>2, <5>1, <2>1, <3>0 DEF EndOf
      <4>3. CASE q # p /\ ~(at[q].job = j /\ at[q].for \in {"carry", "result", "finish"})
        <5>1. at[q].for \in {"carry", "result", "finish"} => at[q].job \in Jobs /\ at[q].job # j
          BY <4>3 DEF Fits, AtOf
        <5> QED BY <4>3, <5>1, <2>1, <3>0, EndFrame DEF Ends
      <4> QED BY <4>1, <4>2, <4>3
    <3> QED BY <3>1, <3>2 DEF Ends
  <2>6. CASE RenameQueue(p)
    <3>1. EndOf(p)'
      <4>1. CASE at[p].for = "carry"
        BY <4>1, <2>0, <2>6, <1>0 DEF RenameQueue, EndOf, EndWith, Doing
      <4>2. CASE at[p].for # "carry"
        BY <4>2, <2>6, <1>0, IdleType DEF RenameQueue, EndOf
      <4> QED BY <4>1, <4>2
    <3>9. OnlyAt(p)
      BY <2>1, <2>6, <3>1, <1>0 DEF OnlyAt, RenameQueue
    <3> QED BY <3>1, <3>9, EndsFrame
  <2>7. CASE RenameFails(p)
    <3>1. CASE at[p].for = "carry" \/ (at[p].for = "finish" /\ at[p].state = "completed")
      <4>1. EndOf(p)'
        BY <3>1, <2>0, <2>7, <1>0 DEF RenameFails, EndOf, EndWith, Doing
      <4>9. OnlyAt(p)
        BY <2>1, <2>7, <3>1, <4>1, <1>0 DEF OnlyAt, RenameFails
      <4> QED BY <4>1, <4>9, EndsFrame
    <3>2. CASE ~(at[p].for = "carry" \/ (at[p].for = "finish" /\ at[p].state = "completed"))
      <4>0. /\ at'[p] = Idle /\ UNCHANGED <<status, statusTmp, result>>
            /\ \A k \in Jobs : k # j => task'[k] = task[k]
            /\ task'[j] = IF at[p].for = "finish" THEN "ended" ELSE task[j]
            /\ at[p].for = "finish" => at[p].next = "rename" /\ statusTmp[j] = None
        BY <2>7, <2>0, <1>0, <3>2 DEF RenameFails, StatusPurposes
      <4>1. ASSUME NEW k \in Jobs PROVE FilesOf(k)'
        <5>1. CASE k = j
          <6>1. at[p].for = "finish" => status[j] \in Terminal
            BY <2>0, <4>0, NoneAssumption DEF EndOf, States
          <6> QED BY <5>1, <2>0, <4>0, <6>1 DEF FilesOf, Backed
        <5>2. CASE k # j
          BY <5>2, <4>0 DEF FilesOf, Backed, Ends
        <5> QED BY <5>1, <5>2
      <4>2. ASSUME NEW q \in Processes PROVE EndOf(q)'
        <5>1. CASE q = p
          BY <5>1, <4>0, IdleType DEF EndOf
        <5>2. CASE q # p
          BY <5>2, <2>1, <4>0, EndFrame DEF Ends
        <5> QED BY <5>1, <5>2
      <4> QED BY <4>1, <4>2 DEF Ends
    <3> QED BY <3>1, <3>2
  <2> QED BY <1>4, <2>2, <2>3, <2>4, <2>5, <2>6, <2>7, SMTT(30) DEF FileStep
<1>5. ASSUME NEW p \in Processes, Restart(p) PROVE Ends'
  <2>1. EndOf(p)' /\ \A q \in Processes : q # p => at'[q] = at[q]
    BY <1>5, <1>0, IdleType DEF Restart, EndOf
  <2>2. \A j \in Jobs : task'[j] = task[j] \/ task'[j] = "lost"
    BY <1>5 DEF Restart
  <2>9. OnlyAt(p)
    BY <1>5, <2>1, <2>2, <1>0 DEF OnlyAt, Restart
  <2> QED BY <2>1, <2>2, <2>9, EndsFrame
<1>6. CASE UNCHANGED vars
  BY <1>6 DEF vars, Ends, FilesOf, EndOf, Backed
<1> QED BY <1>1, <1>2, <1>4, <1>5, <1>6 DEF Next

---------------------------------------------------------------------------
(* Jobs that only their own process handles.                               *)

Writing == StatusPurposes \cup {"carry", "result"}

\* A process is not affected by a step that leaves the status of its job.
LEMMA OwnFrame ==
  ASSUME NEW q \in Processes, OwnOf(q), at'[q] = at[q], foreign \subseteq foreign',
         at[q].for \in Writing /\ at[q].job \notin foreign =>
           /\ owner'[at[q].job] = owner[at[q].job]
           /\ status'[at[q].job] = status[at[q].job]
           /\ statusTmp'[at[q].job] = statusTmp[at[q].job]
           /\ task'[at[q].job] \in {"answering", "storing"} =>
                /\ task[at[q].job] \in {"answering", "storing"}
                /\ at[q].job \in cancelling => at[q].job \in cancelling'
  PROVE  OwnOf(q)'
  BY DEF OwnOf, Writing

\* The same for a step that changes no status and asks no cancel back.
KeepsStatus(p) ==
  /\ status' = status /\ statusTmp' = statusTmp /\ owner' = owner /\ foreign \subseteq foreign'
  /\ \A q \in Processes : q # p => at'[q] = at[q]
  /\ \A j \in Jobs : task'[j] \in {"answering", "storing"} =>
       task[j] \in {"answering", "storing"} /\ (j \in cancelling => j \in cancelling')

LEMMA AloneFrame ==
  ASSUME NEW p \in Processes, Fits, Alone, KeepsStatus(p), OwnOf(p)'
  PROVE  Alone'
<1>1. ASSUME NEW q \in Processes, q # p PROVE OwnOf(q)'
  <2>1. at[q].for \in Writing => at[q].job \in Jobs
    BY DEF Fits, AtOf, Writing, StatusPurposes
  <2>2. OwnOf(q)
    BY DEF Alone
  <2> QED BY <1>1, <2>1, <2>2, OwnFrame DEF KeepsStatus
<1>2. ASSUME NEW j \in Jobs PROVE CancelledOf(j)'
  <2>1. CancelledOf(j)
    BY DEF Alone
  <2> QED BY <2>1 DEF CancelledOf, KeepsStatus
<1> QED BY <1>1, <1>2 DEF Alone

LEMMA NewJobAlone ==
  ASSUME TypeOK, Fits, Alone, NEW j \in Jobs, NEW s \in Active,
         task[j] \in {"none", "created"}, status' = [status EXCEPT ![j] = s],
         UNCHANGED <<statusTmp, at, cancelling, foreign>>,
         \A k \in Jobs : k # j => task'[k] = task[k] /\ owner'[k] = owner[k]
  PROVE  Alone'
<1>1. status'[j] = s /\ \A k \in Jobs : k # j => status'[k] = status[k]
  BY DEF TypeOK
<1>2. ASSUME NEW q \in Processes PROVE OwnOf(q)'
  <2>1. at[q].for \in Writing => at[q].job \in Jobs /\ at[q].job # j
    BY DEF Fits, AtOf, Writing, StatusPurposes
  <2>2. OwnOf(q)
    BY DEF Alone
  <2> QED BY <1>1, <2>1, <2>2, OwnFrame
<1>3. ASSUME NEW k \in Jobs PROVE CancelledOf(k)'
  <2>1. CancelledOf(k)
    BY DEF Alone
  <2> QED BY <1>1, <2>1 DEF CancelledOf, Active, Terminal
<1> QED BY <1>2, <1>3 DEF Alone

\* Two processes do not both write the status of a job that is not foreign.
LEMMA OneWriter ==
  ASSUME NEW p \in Processes, NEW q \in Processes, q # p, Alone,
         at[p].for \in StatusPurposes, at[q].for \in Writing, at[q].job \notin foreign
  PROVE  at[q].job # at[p].job
  BY DEF Alone, OwnOf, Writing

LEMMA AloneStep == TypeOK /\ Fits /\ Alone /\ [Next]_vars => Alone'
<1> SUFFICES ASSUME TypeOK, Fits, Alone, [Next]_vars PROVE Alone'
  OBVIOUS
<1>0. /\ at \in [Processes -> At] /\ task \in [Jobs -> Phases] /\ owner \in [Jobs -> Processes \cup {None}]
      /\ statusTmp \in [Jobs -> States \cup {None}] /\ status \in [Jobs -> States \cup {"absent"}]
  BY DEF TypeOK, At
<1>1. ASSUME NEW p \in Processes, NEW j \in Jobs, Request(p, j) PROVE Alone'
  <2>1. CASE Create(p, j)
    <3>1. \A k \in Jobs : k # j => task'[k] = task[k] /\ owner'[k] = owner[k]
      BY <2>1, <1>0 DEF Create
    <3> QED BY <2>1, <3>1, NewJobAlone DEF Create, Active, history
  <2>2. CASE Cancel(p, j)
    <3>1. KeepsStatus(p) /\ at'[p] = WriteStatus("cancel", j, "cancelled")
      BY <2>2, <1>0 DEF Cancel, TouchedBy, KeepsStatus, files
    <3>2. OwnOf(p)'
      BY <2>2, <3>1 DEF OwnOf, WriteStatus, Doing, Cancel, TouchedBy, files
    <3> QED BY <3>1, <3>2, AloneFrame
  <2>3. ASSUME NEW m \in Messages, Enqueue(p, j, m) PROVE Alone'
    <3>1. KeepsStatus(p) /\ at'[p].for = "enqueue"
      BY <2>3, <1>0 DEF Enqueue, TouchedBy, KeepsStatus, files, Doing
    <3>2. OwnOf(p)'
      BY <3>1 DEF OwnOf, StatusPurposes
    <3> QED BY <3>1, <3>2, AloneFrame
  <2> QED BY <1>1, <2>1, <2>2, <2>3 DEF Request
<1>2. ASSUME NEW p \in Processes, NEW j \in Jobs, Loop(p, j) \/ Orchestration(p, j) PROVE Alone'
  <2>0. OwnOf(p) /\ CancelledOf(j)
    BY DEF Alone
  <2>1. CASE Begin(p, j)
    <3>1. \A k \in Jobs : k # j => task'[k] = task[k] /\ owner'[k] = owner[k]
      BY <2>1, <1>0 DEF Begin
    <3> QED BY <2>1, <3>1, NewJobAlone DEF Begin, Turn, Active, history
  <2>2. CASE Watch(p, j)
    <3>1. KeepsStatus(p) /\ at'[p] = at[p]
      BY <2>2, <1>0 DEF Watch, KeepsStatus, files, history
    <3>2. OwnOf(p)'
      BY <2>2, <3>1 DEF Watch, Turn, Free, OwnOf, StatusPurposes
    <3> QED BY <3>1, <3>2, AloneFrame
  <2>3. CASE Stored(p, j)
    <3>1. KeepsStatus(p) /\ owner[j] = p
      BY <2>3, <1>0 DEF Stored, Turn, KeepsStatus, files, history
    <3>2. j \notin foreign => status[j] \notin Terminal
      BY <2>0, <2>3 DEF CancelledOf, Stored, Turn
    <3>3. at'[p].for \in {"carry", "result"} /\ at'[p].job = j /\ UNCHANGED foreign
      BY <2>3, <1>0 DEF Stored, EndWith, WriteQueue, Doing, history
    <3>4. OwnOf(p)'
      BY <3>1, <3>2, <3>3 DEF OwnOf, StatusPurposes, KeepsStatus
    <3> QED BY <3>1, <3>4, AloneFrame
  <2>4. CASE Interrupted(p, j)
    <3>1. KeepsStatus(p) /\ owner[j] = p
      BY <2>4, <1>0 DEF Interrupted, KeepsStatus, files, history
    <3>2. at'[p].for = "result" /\ at'[p].state = "cancelled" /\ at'[p].job = j /\ UNCHANGED foreign
      BY <2>4, <1>0 DEF Interrupted, EndWith, Doing, history
    <3>3. OwnOf(p)'
      BY <2>0, <2>4, <3>1, <3>2 DEF OwnOf, CancelledOf, Interrupted, StatusPurposes, KeepsStatus
    <3> QED BY <3>1, <3>3, AloneFrame
  <2>5. CASE Progress(p, j)
    <3>1. KeepsStatus(p) /\ owner[j] = p /\ status[j] \notin Terminal
      BY <2>5, <1>0 DEF Progress, Turn, KeepsStatus, files, history
    <3>2. at'[p].for = "progress" /\ at'[p].next = "write" /\ at'[p].job = j /\ UNCHANGED foreign
      BY <2>5, <1>0 DEF Progress, WriteStatus, Doing, history
    <3>3. OwnOf(p)'
      BY <3>1, <3>2 DEF OwnOf, KeepsStatus
    <3> QED BY <3>1, <3>3, AloneFrame
  <2>6. CASE Drain(p, j)
    <3>1. KeepsStatus(p) /\ at'[p].for = "drain"
      BY <2>6, <1>0 DEF Drain, KeepsStatus, files, history, WriteQueue, Doing
    <3>2. OwnOf(p)'
      BY <3>1 DEF OwnOf, StatusPurposes
    <3> QED BY <3>1, <3>2, AloneFrame
  <2>7. CASE Answered(p, j)
    <3>1. KeepsStatus(p) /\ at'[p] = at[p]
      BY <2>7, <1>0 DEF Answered, Turn, KeepsStatus, files, history
    <3>2. OwnOf(p)'
      BY <2>7, <3>1 DEF Answered, Turn, Free, OwnOf, StatusPurposes
    <3> QED BY <3>1, <3>2, AloneFrame
  <2>8. CASE Raised(p, j)
    <3>1. KeepsStatus(p) /\ owner[j] = p
      BY <2>8, <1>0 DEF Raised, Turn, KeepsStatus, files, history
    <3>2. j \notin foreign => status[j] \notin Terminal
      BY <2>0, <2>8 DEF CancelledOf, Raised, Turn
    <3>3. at'[p].for = "result" /\ at'[p].job = j /\ UNCHANGED foreign
      BY <2>8, <1>0 DEF Raised, EndWith, Doing, history
    <3>4. OwnOf(p)'
      BY <3>1, <3>2, <3>3 DEF OwnOf, StatusPurposes, KeepsStatus
    <3> QED BY <3>1, <3>4, AloneFrame
  <2> QED BY <1>2, <2>1, <2>2, <2>3, <2>4, <2>5, <2>6, <2>7, <2>8 DEF Loop, Orchestration
<1>3. ASSUME NEW p \in Processes, FileStep(p) PROVE Alone'
  <2> DEFINE j == at[p].job
  <2>0. at[p] \in At /\ j \in Jobs /\ AtOf(p) /\ OwnOf(p) /\ CancelledOf(j) /\ owner' = owner
    BY <1>3, BusyJob DEF FileStep, ReadQueue, WriteTmp, WriteResult, RenameStatus, RenameQueue,
       RenameFails, Fits, AtOf, Alone
  <2>1. (\A q \in Processes : q # p => at'[q] = at[q]) /\ foreign' = foreign /\ cancelling' = cancelling
    BY <1>3, <1>0 DEF FileStep, ReadQueue, WriteTmp, WriteResult, RenameStatus, RenameQueue,
       RenameFails, history
  <2>2. CASE ReadQueue(p)
    <3>1. KeepsStatus(p) /\ at'[p].for = "enqueue"
      BY <2>2, <2>1, <1>0 DEF ReadQueue, KeepsStatus, files, WriteQueue, Doing
    <3>2. OwnOf(p)'
      BY <3>1 DEF OwnOf, StatusPurposes
    <3> QED BY <3>1, <3>2, AloneFrame
  <2>3. CASE WriteTmp(p) /\ at[p].for \in StatusPurposes
    <3>0. at'[p] = [at[p] EXCEPT !.next = "rename"] /\ UNCHANGED <<status, task>>
      BY <2>3, <1>0 DEF WriteTmp
    <3>1. statusTmp'[j] = at[p].state /\ \A k \in Jobs : k # j => statusTmp'[k] = statusTmp[k]
      BY <2>3, <2>0, <1>0 DEF WriteTmp
    <3>2. OwnOf(p)'
      BY <2>0, <2>1, <2>3, <3>0, <3>1 DEF OwnOf, At
    <3>3. ASSUME NEW q \in Processes, q # p PROVE OwnOf(q)'
      <4>1. at[q].for \in Writing => at[q].job \in Jobs
        BY DEF Fits, AtOf, Writing, StatusPurposes
      <4>2. OwnOf(q)
        BY DEF Alone
      <4> QED BY <2>0, <2>1, <2>3, <3>0, <3>1, <3>3, <4>1, <4>2, OwnFrame, OneWriter
    <3>4. ASSUME NEW k \in Jobs PROVE CancelledOf(k)'
      BY <2>1, <3>0 DEF CancelledOf, Alone
    <3> QED BY <3>2, <3>3, <3>4 DEF Alone
  <2>4. CASE WriteTmp(p) /\ at[p].for \notin StatusPurposes
    <3>0. at'[p] = [at[p] EXCEPT !.next = "rename"] /\ KeepsStatus(p)
      BY <2>4, <2>1, <1>0 DEF WriteTmp, KeepsStatus
    <3>1. OwnOf(p)'
      BY <2>0, <2>1, <2>4, <3>0 DEF OwnOf, At, StatusPurposes, KeepsStatus
    <3> QED BY <3>0, <3>1, AloneFrame
  <2>5. CASE WriteResult(p)
    <3>1. /\ KeepsStatus(p) /\ at[p].for = "result"
          /\ at'[p] = WriteStatus("finish", j, at[p].state)
      BY <2>5, <2>1, <1>0 DEF WriteResult, KeepsStatus
    <3>2. OwnOf(p)'
      BY <2>0, <2>1, <3>1 DEF OwnOf, WriteStatus, Doing, StatusPurposes, KeepsStatus
    <3> QED BY <3>1, <3>2, AloneFrame
  <2>6. CASE RenameStatus(p)
    <3>0. /\ at'[p] = Idle /\ at[p].for \in StatusPurposes /\ at[p].next = "rename"
          /\ status'[j] = statusTmp[j]
          /\ \A k \in Jobs : k # j => status'[k] = status[k] /\ statusTmp'[k] = statusTmp[k] /\ task'[k] = task[k]
          /\ task'[j] = IF at[p].for = "finish" THEN "ended" ELSE task[j]
      BY <2>6, <2>0, <1>0 DEF RenameStatus
    <3>1. OwnOf(p)'
      BY <3>0, IdleType DEF OwnOf, StatusPurposes
    <3>2. ASSUME NEW q \in Processes, q # p PROVE OwnOf(q)'
      <4>1. at[q].for \in Writing => at[q].job \in Jobs
        BY DEF Fits, AtOf, Writing, StatusPurposes
      <4>2. OwnOf(q)
        BY DEF Alone
      <4> QED BY <2>0, <2>1, <3>0, <3>2, <4>1, <4>2, OwnFrame, OneWriter
    <3>3. ASSUME NEW k \in Jobs, k = j PROVE CancelledOf(k)'
      BY <2>0, <2>1, <3>0, <3>3 DEF CancelledOf, OwnOf, AtOf, StatusPurposes, Active, Terminal
    <3>4. ASSUME NEW k \in Jobs, k # j PROVE CancelledOf(k)'
      BY <2>1, <3>0, <3>4 DEF CancelledOf, Alone
    <3> QED BY <3>1, <3>2, <3>3, <3>4 DEF Alone
  <2>7. CASE RenameQueue(p)
    <3>1. KeepsStatus(p)
      BY <2>7, <2>1, <1>0 DEF RenameQueue, KeepsStatus
    <3>2. OwnOf(p)'
      <4>1. CASE at[p].for = "carry"
        BY <4>1, <2>0, <2>1, <2>7, <1>0 DEF RenameQueue, OwnOf, EndWith, Doing, StatusPurposes
      <4>2. CASE at[p].for # "carry"
        BY <4>2, <2>7, <1>0, IdleType DEF RenameQueue, OwnOf, StatusPurposes
      <4> QED BY <4>1, <4>2
    <3> QED BY <3>1, <3>2, AloneFrame
  <2>8. CASE RenameFails(p)
    <3>1. KeepsStatus(p)
      BY <2>8, <2>1, <1>0 DEF RenameFails, KeepsStatus, files
    <3>2. OwnOf(p)'
      <4>1. CASE at[p].for = "carry" \/ (at[p].for = "finish" /\ at[p].state = "completed")
        BY <4>1, <2>0, <2>1, <2>8, <3>1, <1>0
           DEF RenameFails, OwnOf, EndWith, Doing, StatusPurposes, KeepsStatus
      <4>2. CASE ~(at[p].for = "carry" \/ (at[p].for = "finish" /\ at[p].state = "completed"))
        BY <4>2, <2>8, <1>0, IdleType DEF RenameFails, OwnOf, StatusPurposes
      <4> QED BY <4>1, <4>2
    <3> QED BY <3>1, <3>2, AloneFrame
  <2> QED BY <1>3, <2>2, <2>3, <2>4, <2>5, <2>6, <2>7, <2>8, SMTT(30) DEF FileStep
<1>4. ASSUME NEW p \in Processes, Restart(p) PROVE Alone'
  <2>1. KeepsStatus(p) /\ at'[p] = Idle
    BY <1>4, <1>0 DEF Restart, KeepsStatus, files, history
  <2>2. OwnOf(p)'
    BY <2>1, IdleType DEF OwnOf, StatusPurposes
  <2> QED BY <2>1, <2>2, AloneFrame
<1>5. CASE UNCHANGED vars
  BY <1>5 DEF vars, files, history, Alone, OwnOf, CancelledOf
<1> QED BY <1>1, <1>2, <1>3, <1>4, <1>5 DEF Next

---------------------------------------------------------------------------
(* The theorems.                                                           *)

\* The inductive invariant, and with it the types.
THEOREM Invariant == Spec => []IInv
<1>1. Init => IInv
  <2> SUFFICES ASSUME Init PROVE IInv
    OBVIOUS
  <2>1. TypeOK
    BY IdleType DEF Init, TypeOK, At, EmptyQueue, Queues, Marks, Phases
  <2>2. \A p \in Processes : at[p].for = "nothing" /\ at[p].next = "none"
    BY IdleType DEF Init
  <2>3. Fits
    BY <2>2 DEF Fits, AtOf
  <2>4. Ends
    BY <2>2 DEF Ends, EndOf, FilesOf, Backed, Init
  <2>5. Alone
    BY <2>2 DEF Alone, OwnOf, CancelledOf, StatusPurposes, Init
  <2> QED BY <2>1, <2>3, <2>4, <2>5 DEF IInv
<1>2. IInv /\ [Next]_vars => IInv'
  BY TypeStep, FitsStep, EndsStep, AloneStep DEF IInv
<1> QED BY <1>1, <1>2, PTL DEF Spec

\* For every number of processes, jobs and messages the state is well typed.
THEOREM TypeCorrect == Spec => []TypeOK
<1>1. IInv => TypeOK
  BY DEF IInv
<1> QED BY <1>1, Invariant, PTL

\* A task that has ended leaves a terminal status, however many processes
\* write it, and although they share one temporary file.
THEOREM EndedTasksAreTerminal == Spec => []EndedIsTerminal
<1>1. IInv => EndedIsTerminal
  BY DEF IInv, Ends, FilesOf, EndedIsTerminal
<1> QED BY <1>1, Invariant, PTL

\* Whoever reads that a job completed, failed or timed out finds a result
\* that says so, or that the job failed.
THEOREM PollersFindResults == Spec => []PollerFindsResult
<1>1. IInv => PollerFindsResult
  BY DEF IInv, Ends, FilesOf, PollerFindsResult
<1> QED BY <1>1, Invariant, PTL

\* Only a new job or a rename changes a status.
LEMMA StatusStep ==
  ASSUME IInv, [Next]_vars, NEW j \in Jobs, j \notin foreign', status[j] \in Terminal
  PROVE  status'[j] = status[j]
<1>0. /\ status \in [Jobs -> States \cup {"absent"}] /\ Fits /\ Ends /\ Alone
      /\ task[j] \notin {"none", "created"}
  BY DEF IInv, TypeOK, Ends, FilesOf, Terminal
<1>1. ASSUME NEW p \in Processes, RenameStatus(p) PROVE status'[j] = status[j]
  <2>1. CASE at[p].job # j
    BY <1>1, <1>0, <2>1 DEF RenameStatus
  <2>2. CASE at[p].job = j
    <3>1. OwnOf(p) /\ AtOf(p)
      BY <1>0 DEF Alone, Fits
    <3>2. foreign' = foreign /\ status' = [status EXCEPT ![j] = statusTmp[j]]
      BY <1>1, <2>2 DEF RenameStatus, history
    <3>3. /\ at[p].for \in StatusPurposes /\ at[p].next = "rename" /\ j \notin foreign
          /\ status'[j] = statusTmp[j]
      BY <1>1, <1>0, <3>2 DEF RenameStatus
    <3>4. statusTmp[j] = at[p].state /\ at[p].for = "finish"
      BY <1>0, <3>1, <3>3, <2>2 DEF OwnOf, StatusPurposes
    <3> QED BY <1>0, <3>1, <3>3, <3>4, <2>2 DEF OwnOf
  <2> QED BY <2>1, <2>2
<1>2. ASSUME NEW p \in Processes, NEW k \in Jobs, Create(p, k) \/ Begin(p, k)
      PROVE  status'[j] = status[j]
  <2>1. k # j
    BY <1>0, <1>2 DEF Create, Begin, Turn
  <2> QED BY <1>0, <1>2, <2>1 DEF Create, Begin
<1>3. ASSUME NEW p \in Processes, FileStep(p) PROVE status'[j] = status[j]
  BY <1>1, <1>3 DEF FileStep, ReadQueue, WriteTmp, WriteResult, RenameQueue, RenameFails, files
<1>4. ASSUME NEW p \in Processes, NEW k \in Jobs, Loop(p, k) \/ Orchestration(p, k) \/ Request(p, k)
      PROVE  status'[j] = status[j]
  BY <1>2, <1>4 DEF Loop, Orchestration, Request, Watch, Stored, Interrupted, Progress, Drain,
                    Answered, Raised, Cancel, Enqueue, files
<1>5. ASSUME NEW p \in Processes, Restart(p) PROVE status'[j] = status[j]
  BY <1>5 DEF Restart, files
<1>6. CASE UNCHANGED vars
  BY <1>6 DEF vars, files
<1> QED BY <1>3, <1>4, <1>5, <1>6 DEF Next

\* A terminal status stays, as long as the requests for the job come to its
\* own process.
THEOREM TerminalStatusStands == Spec => TerminalStands
<1>1. IInv /\ [Next]_vars =>
        [\A j \in Jobs : j \notin foreign' /\ status[j] \in Terminal => status'[j] = status[j]]_vars
  BY StatusStep
<1> QED BY <1>1, Invariant, PTL DEF Spec, TerminalStands

---------------------------------------------------------------------------
(* Where the messages are.                                                 *)

\* Every list of messages holds what was sent to its job.
To(j, q)      == \A m \in Messages : q[m] # "none" => sent[m] = j
AllTo(j, ms)  == \A m \in ms : sent[m] = j

AddressedAt(p) ==
  at[p].for # "nothing" =>
    /\ To(at[p].job, at[p].items) /\ AllTo(at[p].job, at[p].msgs)
    /\ at[p].next = "read" => at[p].for = "enqueue"

Addressed ==
  /\ \A j \in Jobs :
       /\ To(j, queue[j]) /\ AllTo(j, result[j].carried)
       /\ queueTmp[j] # None => To(j, queueTmp[j])
  /\ \A p \in Processes : AddressedAt(p)
  /\ \A m \in Messages : sent[m] = None => folded[m] = 0 /\ m \notin accepted

\* What the messages ms appended to a queue make of it.
Appended(q, ms) == [m \in Messages |-> IF m \in ms THEN "queued" ELSE q[m]]

\* The queue of a job that only its own process has handled is as that process
\* read it, until it renames what it has written.
QueueOf(p) ==
  LET a == at[p]
      q == queue[a.job]
  IN
  a.for \in QueuePurposes \cup {"result", "finish"} /\ a.job \notin foreign =>
    /\ owner[a.job] = p
    /\ a.for = "drain" => a.items = Marked(q, "consumed")
    /\ a.for = "carry" => a.items = Marked(q, "carried") /\ \A m \in Messages : q[m] # "carried"
    /\ a.for \in {"drain", "carry"} => a.msgs = Queued(q) /\ a.next # "read"
    /\ a.for = "enqueue" =>
         /\ task[a.job] # "ended" /\ \A m \in a.msgs : q[m] = "none"
         /\ a.next # "read" => a.items = Appended(q, a.msgs)
    /\ a.for \in QueuePurposes /\ a.next = "rename" => queueTmp[a.job] = a.items
    /\ a.for = "result" => \A m \in a.msgs : q[m] = "carried"
    /\ a.for = "result" /\ a.state = "completed" => \A m \in Messages : q[m] = "carried" => m \in a.msgs
    /\ a.for \in {"result", "finish"} /\ a.state = "completed" => Queued(q) = {}

\* A message sent to a job, and the job's queue and result.
MessageOf(m, j) ==
  LET is == queue[j][m] IN
  /\ folded[m] = IF is = "consumed" THEN 1 ELSE 0
  /\ m \in accepted => is # "none"
  /\ m \in result[j].carried => is = "carried"
  /\ is = "carried" /\ result[j].state = "completed" => m \in result[j].carried
  /\ is = "carried" => task[j] \in {"finishing", "ended", "lost"}
  /\ task[j] = "ended" /\ result[j].state = "completed" => is # "queued"

Kept ==
  /\ Addressed
  /\ \A p \in Processes : QueueOf(p)
  /\ \A m \in Messages, j \in Jobs : sent[m] = j /\ j \notin foreign => MessageOf(m, j)

\* What the pieces of coroutines hold.
LEMMA Fields ==
  ASSUME NEW j
  PROVE  /\ \A why, s : LET a == WriteStatus(why, j, s) IN
              a.for = why /\ a.next = "write" /\ a.job = j /\ a.state = s
              /\ a.items = EmptyQueue /\ a.msgs = {}
         /\ \A why, q, ms : LET a == WriteQueue(why, j, q, ms) IN
              a.for = why /\ a.next = "write" /\ a.job = j /\ a.items = q /\ a.msgs = ms
         /\ \A s, ms : LET a == EndWith(j, s, ms) IN
              a.for = "result" /\ a.next = "write" /\ a.job = j /\ a.state = s
              /\ a.items = EmptyQueue /\ a.msgs = ms
         /\ Idle.for = "nothing" /\ Idle.next = "none"
         /\ \A m \in Messages : EmptyQueue[m] = "none"
BY DEF WriteStatus, WriteQueue, EndWith, Doing, Idle, EmptyQueue

\* What marking and appending do to a message.
LEMMA MarkedFacts ==
  ASSUME NEW q, NEW ms, NEW m \in Messages, NEW mark
  PROVE  /\ Marked(q, mark)[m] = IF q[m] = "queued" THEN mark ELSE q[m]
         /\ Appended(q, ms)[m] = IF m \in ms THEN "queued" ELSE q[m]
         /\ m \in Queued(q) <=> q[m] = "queued"
BY DEF Marked, Appended, Queued

\* Marking a queue takes no message from its job.
LEMMA MarkedTo ==
  ASSUME NEW j, NEW q, NEW mark, To(j, q)
  PROVE  To(j, Marked(q, mark)) /\ AllTo(j, Queued(q))
<1>1. \A m \in Messages : Marked(q, mark)[m] # "none" => q[m] # "none"
  BY MarkedFacts
<1>2. \A m \in Queued(q) : m \in Messages /\ q[m] = "queued"
  BY DEF Queued
<1> QED BY <1>1, <1>2 DEF To, AllTo

\* Process p is not about to change the queue of job k, or to end k.
Elsewhere(p, k) == ~(at[p].for \in QueuePurposes \cup {"finish"} /\ at[p].job = k)

\* A step of p that leaves the queues, the results and the messages alone.
KeepsQueues(p) ==
  /\ UNCHANGED <<queue, result, sent, folded, accepted>>
  /\ foreign \subseteq foreign'
  /\ \A k \in Jobs : queueTmp'[k] # queueTmp[k] =>
       k = at[p].job /\ at[p].for \in QueuePurposes /\ queueTmp'[k] = at[p].items
  /\ \A q \in Processes : q # p => at'[q] = at[q]
  /\ \A k \in Jobs : task[k] \notin {"none", "created"} => owner'[k] = owner[k]
  /\ \A k \in Jobs : task[k] \in {"finishing", "ended", "lost"} => task'[k] \in {"finishing", "ended", "lost"}
  /\ \A k \in Jobs : task'[k] = "ended" /\ task[k] # "ended" => at[p].for = "finish" /\ at[p].job = k

\* Another process is not affected by what p does for a job it does not share.
LEMMA QueueFrame ==
  ASSUME NEW p \in Processes, NEW q \in Processes, q # p, Fits, QueueOf(p), QueueOf(q),
         at'[q] = at[q], foreign \subseteq foreign',
         \A k \in Jobs : task[k] \notin {"none", "created"} => owner'[k] = owner[k],
         \A k \in Jobs : Elsewhere(p, k) => queue'[k] = queue[k] /\ queueTmp'[k] = queueTmp[k]
                                          /\ (task'[k] = "ended" => task[k] = "ended")
  PROVE  QueueOf(q)'
<1> SUFFICES ASSUME at[q].for \in QueuePurposes \cup {"result", "finish"}, at[q].job \notin foreign'
             PROVE  QueueOf(q)'
  BY DEF QueueOf
<1> DEFINE k == at[q].job
<1>1. k \in Jobs /\ task[k] \notin {"none", "created"} /\ k \notin foreign /\ owner[k] = q
  BY DEF Fits, AtOf, QueueOf, QueuePurposes
<1>2. Elsewhere(p, k)
  <2>1. at[p].for \in QueuePurposes \cup {"finish"} /\ at[p].job = k => owner[k] = p
    BY <1>1 DEF QueueOf
  <2> QED BY <1>1, <2>1 DEF Elsewhere
<1>3. owner'[k] = q /\ queue'[k] = queue[k] /\ queueTmp'[k] = queueTmp[k] /\ (task'[k] = "ended" => task[k] = "ended")
  BY <1>1, <1>2
<1> QED BY <1>1, <1>3 DEF QueueOf

\* A step that leaves the queues alone keeps what is known of them.
LEMMA KeptFrame ==
  ASSUME TypeOK, Fits, Ends, Kept, NEW p \in Processes, KeepsQueues(p), QueueOf(p)', AddressedAt(p)'
  PROVE  Kept'
<1>0. QueueOf(p) /\ AtOf(p) /\ EndOf(p)
  BY DEF Kept, Fits, Ends
<1>1. Addressed'
  <2>1. ASSUME NEW j \in Jobs, queueTmp'[j] # None PROVE To(j, queueTmp[j])'
    <3>1. CASE queueTmp'[j] = queueTmp[j]
      BY <2>1, <3>1 DEF Kept, Addressed, KeepsQueues, To
    <3>2. CASE queueTmp'[j] # queueTmp[j]
      BY <2>1, <3>2 DEF Kept, Addressed, AddressedAt, KeepsQueues, To, QueuePurposes
    <3> QED BY <3>1, <3>2
  <2>2. ASSUME NEW j \in Jobs PROVE (To(j, queue[j]) /\ AllTo(j, result[j].carried))'
    BY DEF Kept, Addressed, KeepsQueues, To, AllTo
  <2>3. ASSUME NEW q \in Processes PROVE AddressedAt(q)'
    <3>1. CASE q # p
      BY <3>1 DEF Kept, Addressed, KeepsQueues, To, AllTo, AddressedAt
    <3> QED BY <3>1
  <2>4. \A m \in Messages : (sent[m] = None => folded[m] = 0 /\ m \notin accepted)'
    BY DEF Kept, Addressed, KeepsQueues
  <2> QED BY <2>1, <2>2, <2>3, <2>4 DEF Addressed, AddressedAt
<1>2. ASSUME NEW q \in Processes, q # p PROVE QueueOf(q)'
  <2>1. \A k \in Jobs : Elsewhere(p, k) => queue'[k] = queue[k] /\ queueTmp'[k] = queueTmp[k]
                                          /\ (task'[k] = "ended" => task[k] = "ended")
    BY DEF KeepsQueues, Elsewhere
  <2>2. QueueOf(q)
    BY DEF Kept
  <2> QED BY <1>0, <1>2, <2>1, <2>2, QueueFrame DEF KeepsQueues
<1>3. ASSUME NEW m \in Messages, NEW j \in Jobs, sent'[m] = j, j \notin foreign' PROVE MessageOf(m, j)'
  <2>1. MessageOf(m, j) /\ j \notin foreign
    BY <1>3 DEF Kept, KeepsQueues
  <2>2. task'[j] = "ended" /\ result[j].state = "completed" => queue[j][m] # "queued"
    <3>1. CASE task[j] = "ended"
      BY <2>1, <3>1 DEF MessageOf
    <3>2. CASE task'[j] = "ended" /\ task[j] # "ended"
      <4>1. at[p].for = "finish" /\ at[p].job = j /\ result[j].state = at[p].state
        BY <1>0, <3>2 DEF KeepsQueues, EndOf
      <4>2. at[p].state = "completed" => Queued(queue[j]) = {}
        BY <1>0, <2>1, <4>1 DEF QueueOf
      <4> QED BY <4>1, <4>2, MarkedFacts
    <3> QED BY <3>1, <3>2
  <2> QED BY <2>1, <2>2 DEF MessageOf, KeepsQueues
<1> QED BY <1>1, <1>2, <1>3 DEF Kept

\* A process that is free, or writes a status before the end, holds no messages.
LEMMA LightAt ==
  ASSUME NEW p \in Processes
  PROVE  /\ at'[p].for = "nothing" => QueueOf(p)' /\ AddressedAt(p)'
         /\ at'[p].for \in {"progress", "cancel"} /\ at'[p].next # "read" /\ at'[p].items = EmptyQueue /\ at'[p].msgs = {} =>
              QueueOf(p)' /\ AddressedAt(p)'
BY Fields DEF QueueOf, QueuePurposes, AddressedAt, To, AllTo

\* What a process holds when it ends a job whose messages it does not carry.
LEMMA EndsEmpty ==
  ASSUME NEW p \in Processes, NEW s, at'[p] = EndWith(at'[p].job, s, {}), s # "completed",
         at'[p].job \in foreign' \/ owner'[at'[p].job] = p
  PROVE  QueueOf(p)' /\ AddressedAt(p)'
<1>1. at'[p].for = "result" /\ at'[p].next # "read" /\ at'[p].state = s /\ at'[p].items = EmptyQueue /\ at'[p].msgs = {}
  BY Fields
<1> QED BY <1>1, Fields DEF QueueOf, QueuePurposes, AddressedAt, To, AllTo

\* A new message has no mark anywhere.
LEMMA RequestKept ==
  ASSUME TypeOK, Fits, Ends, Kept, NEW p \in Processes, NEW j \in Jobs, Request(p, j)
  PROVE  Kept'
<1>0. /\ at \in [Processes -> At] /\ task \in [Jobs -> Phases] /\ owner \in [Jobs -> Processes \cup {None}]
      /\ sent \in [Messages -> Jobs \cup {None}]
  BY DEF TypeOK, At
<1> USE DEF files, history
<1>1. CASE Create(p, j)
  <2>1. KeepsQueues(p) /\ at'[p].for = "nothing"
    BY <1>1, <1>0 DEF Create, KeepsQueues, Free
  <2> QED BY <2>1, LightAt, KeptFrame
<1>2. CASE Cancel(p, j)
  <2>1. KeepsQueues(p) /\ at'[p] = WriteStatus("cancel", j, "cancelled")
    BY <1>2, <1>0 DEF Cancel, TouchedBy, KeepsQueues
  <2> QED BY <2>1, Fields, LightAt, KeptFrame
<1>3. ASSUME NEW m \in Messages, Enqueue(p, j, m) PROVE Kept'
  <2>1. /\ sent[m] = None /\ sent' = [sent EXCEPT ![m] = j]
        /\ at' = [at EXCEPT ![p] = Doing("enqueue", "read", j, "queued", EmptyQueue, {m})]
        /\ UNCHANGED <<status, statusTmp, queue, queueTmp, result, task, owner, folded, accepted>>
        /\ foreign' = IF owner[j] = p THEN foreign ELSE foreign \cup {j}
        /\ Free(p) /\ status[j] \in Active
    BY <1>3 DEF Enqueue, TouchedBy
  <2>2. /\ at'[p].for = "enqueue" /\ at'[p].next = "read" /\ at'[p].job = j
        /\ at'[p].items = EmptyQueue /\ at'[p].msgs = {m}
        /\ \A q \in Processes : q # p => at'[q] = at[q]
    BY <2>1, <1>0 DEF Doing
  <2>3. sent'[m] = j /\ \A k \in Messages : k # m => sent'[k] = sent[k]
    BY <2>1, <1>0
  <2>4. \A k \in Jobs \cup {None} : \A q : k # None /\ To(k, q) => To(k, q)'
    BY <2>1, <2>3 DEF To
  <2>5. \A k \in Jobs, ms \in SUBSET Messages : AllTo(k, ms) => AllTo(k, ms)'
    BY <2>1, <2>3, NoneAssumption DEF AllTo
  <2>6. Addressed'
    <3>1. ASSUME NEW k \in Jobs
          PROVE  (To(k, queue[k]) /\ AllTo(k, result[k].carried) /\ (queueTmp[k] # None => To(k, queueTmp[k])))'
      BY <2>1, <2>3, NoneAssumption DEF Kept, Addressed, To, AllTo, TypeOK
    <3>2. ASSUME NEW q \in Processes PROVE AddressedAt(q)'
      <4>1. CASE q = p
        BY <2>2, <2>3, <4>1, Fields DEF AddressedAt, To, AllTo
      <4>2. CASE q # p
        <5> SUFFICES ASSUME at'[q].for # "nothing" PROVE AddressedAt(q)'
          BY DEF AddressedAt
        <5>1. at'[q] = at[q] /\ at[q].job \in Jobs /\ at[q].msgs \subseteq Messages
          BY <1>0, <2>2, <4>2 DEF Fits, AtOf, At
        <5>2. PICK k \in Jobs : k = at[q].job
          BY <5>1
        <5>3. To(k, at[q].items) /\ AllTo(k, at[q].msgs)
          BY <5>1, <5>2 DEF Kept, Addressed, AddressedAt
        <5>4. \A n \in Messages : sent[n] = k => sent'[n] = k
          BY <2>1, <2>3, NoneAssumption
        <5>5. at[q].next = "read" => at[q].for = "enqueue"
          BY <5>1 DEF Kept, Addressed, AddressedAt
        <5> QED BY <5>1, <5>2, <5>3, <5>4, <5>5 DEF AddressedAt, To, AllTo
      <4> QED BY <4>1, <4>2
    <3>3. \A k \in Messages : (sent[k] = None => folded[k] = 0 /\ k \notin accepted)'
      BY <2>1, <2>3, NoneAssumption DEF Kept, Addressed
    <3> QED BY <3>1, <3>2, <3>3 DEF Addressed, AddressedAt
  <2>7. queue[j][m] = "none" /\ m \notin result[j].carried
    BY <2>1, NoneAssumption DEF Kept, Addressed, To, AllTo
  <2>8. ASSUME NEW q \in Processes PROVE QueueOf(q)'
    <3>1. CASE q = p
      <4>1. task[j] # "ended"
        BY <2>1 DEF Ends, FilesOf, Active, Terminal
      <4>2. j \notin foreign' => owner'[j] = p
        BY <2>1
      <4>3. queue'[j][m] = "none" /\ task'[j] # "ended"
        BY <2>1, <2>7, <4>1
      <4> QED BY <2>2, <3>1, <4>2, <4>3 DEF QueueOf, QueuePurposes
    <3>2. CASE q # p
      BY <2>1, <2>2, <3>2, SMTT(30) DEF QueueOf, Kept
    <3> QED BY <3>1, <3>2
  <2>9. ASSUME NEW n \in Messages, NEW k \in Jobs, sent'[n] = k, k \notin foreign' PROVE MessageOf(n, k)'
    <3>1. CASE n = m
      <4>1. folded[m] = 0 /\ m \notin accepted /\ k = j
        BY <2>1, <2>3, <2>9, <3>1 DEF Kept, Addressed
      <4> QED BY <2>1, <2>7, <3>1, <4>1 DEF MessageOf
    <3>2. CASE n # m
      <4>1. MessageOf(n, k)
        BY <2>1, <2>3, <2>9, <3>2 DEF Kept
      <4> QED BY <2>1, <4>1 DEF MessageOf
    <3> QED BY <3>1, <3>2
  <2> QED BY <2>6, <2>8, <2>9 DEF Kept
<1> QED BY <1>1, <1>2, <1>3 DEF Request

\* The task marks what it takes, and ends with what it has taken.
LEMMA LoopKept ==
  ASSUME TypeOK, Fits, Ends, Kept, NEW p \in Processes, NEW j \in Jobs, Loop(p, j) \/ Orchestration(p, j)
  PROVE  Kept'
<1>0. /\ at \in [Processes -> At] /\ task \in [Jobs -> Phases] /\ owner \in [Jobs -> Processes \cup {None}]
  BY DEF TypeOK, At
<1> USE DEF files, history
<1>1. KeepsQueues(p) /\ owner[j] = p /\ UNCHANGED <<owner, foreign>>
  BY <1>0 DEF Loop, Orchestration, Begin, Watch, Stored, Interrupted, Progress, Drain, Answered, Raised,
              Turn, KeepsQueues
<1>2. CASE Begin(p, j) \/ Watch(p, j) \/ Answered(p, j)
  <2>1. at'[p].for = "nothing"
    BY <1>2 DEF Begin, Watch, Answered, Turn, Free
  <2> QED BY <1>1, <2>1, LightAt, KeptFrame
<1>3. CASE Progress(p, j)
  <2>1. PICK s : at'[p] = WriteStatus("progress", j, s)
    BY <1>3, <1>0 DEF Progress
  <2> QED BY <1>1, <2>1, Fields, LightAt, KeptFrame
<1>4. CASE Raised(p, j) \/ Interrupted(p, j)
  <2>1. PICK s : at'[p] = EndWith(j, s, {}) /\ s # "completed"
    BY <1>4, <1>0 DEF Raised, Interrupted
  <2>2. at'[p].job = j /\ owner'[j] = p
    BY <1>1, <2>1, Fields
  <2>3. QueueOf(p)' /\ AddressedAt(p)'
    BY <2>1, <2>2, EndsEmpty
  <2> QED BY <1>1, <2>3, KeptFrame
<1>5. To(j, queue[j])
  BY DEF Kept, Addressed
<1>6. CASE Drain(p, j)
  <2>1. at'[p] = WriteQueue("drain", j, Marked(queue[j], "consumed"), Queued(queue[j])) /\ UNCHANGED <<queue, sent>>
    BY <1>6, <1>0 DEF Drain
  <2>2. /\ at'[p].for = "drain" /\ at'[p].next = "write" /\ at'[p].job = j
        /\ at'[p].items = Marked(queue[j], "consumed") /\ at'[p].msgs = Queued(queue[j])
    BY <2>1, Fields
  <2>0. To(j, Marked(queue[j], "consumed")) /\ AllTo(j, Queued(queue[j]))
    BY <1>5, MarkedTo
  <2>3. AddressedAt(p)'
    BY <2>0, <2>1, <2>2 DEF AddressedAt, To, AllTo
  <2>4. QueueOf(p)'
    BY <1>1, <2>1, <2>2 DEF QueueOf, QueuePurposes
  <2> QED BY <1>1, <2>3, <2>4, KeptFrame
<1>7. CASE Stored(p, j)
  <2>1. \A m \in Messages : j \notin foreign => queue[j][m] # "carried"
    BY <1>5, <1>7 DEF Kept, MessageOf, To, Stored, Turn
  <2>2. CASE Queued(queue[j]) = {}
    <3>1. at'[p] = EndWith(j, "completed", {}) /\ UNCHANGED <<queue, sent>>
      BY <1>7, <2>2, <1>0 DEF Stored
    <3>2. AddressedAt(p)'
      BY <3>1, Fields DEF AddressedAt, To, AllTo
    <3>3. QueueOf(p)'
      BY <1>1, <2>1, <2>2, <3>1, Fields DEF QueueOf, QueuePurposes
    <3> QED BY <1>1, <3>2, <3>3, KeptFrame
  <2>3. CASE Queued(queue[j]) # {}
    <3>1. at'[p] = WriteQueue("carry", j, Marked(queue[j], "carried"), Queued(queue[j])) /\ UNCHANGED <<queue, sent>>
      BY <1>7, <2>3, <1>0 DEF Stored
    <3>2. /\ at'[p].for = "carry" /\ at'[p].next = "write" /\ at'[p].job = j
          /\ at'[p].items = Marked(queue[j], "carried") /\ at'[p].msgs = Queued(queue[j])
      BY <3>1, Fields
    <3>0. To(j, Marked(queue[j], "carried")) /\ AllTo(j, Queued(queue[j]))
      BY <1>5, MarkedTo
    <3>3. AddressedAt(p)'
      BY <3>0, <3>1, <3>2 DEF AddressedAt, To, AllTo
    <3>4. QueueOf(p)'
      BY <1>1, <2>1, <3>1, <3>2 DEF QueueOf, QueuePurposes
    <3> QED BY <1>1, <3>3, <3>4, KeptFrame
  <2> QED BY <2>2, <2>3
<1> QED BY <1>2, <1>3, <1>4, <1>6, <1>7 DEF Loop, Orchestration

\* A restart forgets what was about to be written, never what was.
LEMMA RestartKept ==
  ASSUME TypeOK, Fits, Ends, Kept, NEW p \in Processes, Restart(p)
  PROVE  Kept'
<1>1. /\ at \in [Processes -> At] /\ at' = [at EXCEPT ![p] = Idle]
      /\ UNCHANGED <<queue, queueTmp, result, sent, folded, accepted, foreign, owner>>
      /\ task' = [j \in Jobs |-> IF owner[j] = p /\ task[j] \notin {"ended", "lost"} THEN "lost" ELSE task[j]]
  BY DEF Restart, files, history, TypeOK, At
<1>2. KeepsQueues(p) /\ at'[p].for = "nothing"
  BY <1>1, Fields DEF KeepsQueues
<1> QED BY <1>2, LightAt, KeptFrame

\* Nobody else writes to the temporary queue of a job that is not shared.
LEMMA WriteTmpKept ==
  ASSUME TypeOK, Fits, Ends, Kept, NEW p \in Processes, at[p].job \in Jobs, WriteTmp(p)
  PROVE  Kept'
<1>0. at \in [Processes -> At] /\ queueTmp \in [Jobs -> Queues \cup {None}]
  BY DEF TypeOK, At
<1>1. /\ at[p].next = "write" /\ at' = [at EXCEPT ![p].next = "rename"]
      /\ UNCHANGED <<status, queue, result, task, owner, cancelling, history>>
      /\ queueTmp' = IF at[p].for \in StatusPurposes THEN queueTmp
                     ELSE [queueTmp EXCEPT ![at[p].job] = at[p].items]
  BY DEF WriteTmp
<1>2. at'[p] = [at[p] EXCEPT !.next = "rename"] /\ \A q \in Processes : q # p => at'[q] = at[q]
  BY <1>0, <1>1
<1>3. /\ at'[p].for = at[p].for /\ at'[p].job = at[p].job /\ at'[p].items = at[p].items
      /\ at'[p].msgs = at[p].msgs /\ at'[p].state = at[p].state /\ at'[p].next = "rename"
  BY <1>0, <1>2 DEF At
<1>4. AtOf(p) /\ QueueOf(p) /\ AddressedAt(p)
  BY DEF Fits, Kept, Addressed
<1>5. at[p].for \in QueuePurposes \/ at[p].for \in StatusPurposes
  BY <1>0, <1>1, <1>4 DEF WriteTmp, AtOf, At, Purposes
<1>6. KeepsQueues(p)
  BY <1>0, <1>1, <1>2, <1>5 DEF KeepsQueues, history
<1>7. AddressedAt(p)'
  BY <1>1, <1>3, <1>4 DEF AddressedAt, To, AllTo, history
<1>8. at[p].for \in QueuePurposes => queueTmp'[at[p].job] = at[p].items
  BY <1>0, <1>1 DEF QueuePurposes, StatusPurposes
<1>9. QueueOf(p)'
  BY <1>1, <1>3, <1>4, <1>8 DEF QueueOf, history
<1> QED BY <1>6, <1>7, <1>9, KeptFrame

\* A job ends with its status.
LEMMA RenameStatusKept ==
  ASSUME TypeOK, Fits, Ends, Kept, NEW p \in Processes, at[p].job \in Jobs, RenameStatus(p)
  PROVE  Kept'
<1>1. /\ at \in [Processes -> At] /\ task \in [Jobs -> Phases] /\ at' = [at EXCEPT ![p] = Idle]
      /\ UNCHANGED <<queue, queueTmp, result, sent, folded, accepted, foreign, owner>>
      /\ task' = IF at[p].for = "finish" THEN [task EXCEPT ![at[p].job] = "ended"] ELSE task
  BY DEF RenameStatus, history, TypeOK, At
<1>2. KeepsQueues(p) /\ at'[p].for = "nothing"
  BY <1>1, Fields DEF KeepsQueues
<1> QED BY <1>2, LightAt, KeptFrame

\* A job whose end cannot be written fails, and carries nothing over.
LEMMA RenameFailsKept ==
  ASSUME TypeOK, Fits, Ends, Kept, NEW p \in Processes, at[p].job \in Jobs, RenameFails(p)
  PROVE  Kept'
<1>1. /\ at \in [Processes -> At] /\ task \in [Jobs -> Phases]
      /\ UNCHANGED <<queue, queueTmp, result, sent, folded, accepted, foreign, owner>>
  BY DEF RenameFails, files, history, TypeOK, At
<1>2. AtOf(p)
  BY DEF Fits
<1>3. CASE at[p].for = "carry" \/ (at[p].for = "finish" /\ at[p].state = "completed")
  <2>1. at' = [at EXCEPT ![p] = EndWith(at[p].job, "failed", {})] /\ task' = task
    BY <1>3 DEF RenameFails
  <2>2. KeepsQueues(p) /\ at'[p] = EndWith(at[p].job, "failed", {})
    BY <1>1, <2>1 DEF KeepsQueues
  <2>3. owner'[at[p].job] = p /\ at'[p].job = at[p].job
    BY <1>1, <1>2, <1>3, <2>2, Fields DEF AtOf
  <2>4. QueueOf(p)' /\ AddressedAt(p)'
    BY <2>2, <2>3, EndsEmpty
  <2> QED BY <2>2, <2>4, KeptFrame
<1>4. CASE ~(at[p].for = "carry" \/ (at[p].for = "finish" /\ at[p].state = "completed"))
  <2>1. /\ at' = [at EXCEPT ![p] = Idle]
        /\ task' = IF at[p].for = "finish" THEN [task EXCEPT ![at[p].job] = "ended"] ELSE task
    BY <1>4 DEF RenameFails
  <2>2. KeepsQueues(p) /\ at'[p].for = "nothing"
    BY <1>1, <2>1, Fields DEF KeepsQueues
  <2> QED BY <2>2, LightAt, KeptFrame
<1> QED BY <1>3, <1>4

\* A message is appended to the queue as it is.
LEMMA ReadQueueKept ==
  ASSUME TypeOK, Fits, Ends, Kept, NEW p \in Processes, NEW j \in Jobs, at[p].job = j, ReadQueue(p)
  PROVE  Kept'
<1>0. at \in [Processes -> At]
  BY DEF TypeOK, At
<1> DEFINE q == Appended(queue[j], at[p].msgs)
<1>1. /\ at' = [at EXCEPT ![p] = WriteQueue("enqueue", j, q, at[p].msgs)] /\ at[p].next = "read"
      /\ UNCHANGED <<files, task, owner, cancelling, history>>
  BY DEF ReadQueue, Appended
<1>2. /\ at'[p].for = "enqueue" /\ at'[p].job = j /\ at'[p].items = q /\ at'[p].msgs = at[p].msgs
      /\ at'[p].next = "write"
  BY <1>0, <1>1, Fields
<1>3. at[p].for = "enqueue" /\ To(j, queue[j]) /\ AllTo(j, at[p].msgs) /\ QueueOf(p)
  BY <1>0, <1>1 DEF Kept, Addressed, AddressedAt, Fits, AtOf
<1>4. To(j, q)
  BY <1>3, MarkedFacts DEF To, AllTo
<1> HIDE DEF q
<1>5. KeepsQueues(p)
  BY <1>0, <1>1 DEF KeepsQueues, files, history
<1>6. AddressedAt(p)'
  BY <1>1, <1>2, <1>3, <1>4 DEF AddressedAt, To, AllTo, history
<1>7. QueueOf(p)'
  BY <1>1, <1>2, <1>3 DEF QueueOf, QueuePurposes, files, history, q
<1> QED BY <1>5, <1>6, <1>7, KeptFrame

\* The result carries what the queue marks as carried.
LEMMA WriteResultKept ==
  ASSUME TypeOK, Fits, Ends, Kept, NEW p \in Processes, NEW j \in Jobs, at[p].job = j, WriteResult(p)
  PROVE  Kept'
<1>0. at \in [Processes -> At] /\ result \in [Jobs -> [state : Terminal \cup {"absent"}, carried : SUBSET Messages]]
  BY DEF TypeOK, At
<1>1. /\ at[p].for = "result"
      /\ result' = [result EXCEPT ![j] = [state |-> at[p].state, carried |-> at[p].msgs]]
      /\ at' = [at EXCEPT ![p] = WriteStatus("finish", j, at[p].state)]
      /\ UNCHANGED <<queue, queueTmp, task, owner, sent, folded, accepted, foreign>>
  BY DEF WriteResult, history
<1>2. /\ at'[p].for = "finish" /\ at'[p].job = j /\ at'[p].state = at[p].state /\ at'[p].items = EmptyQueue
      /\ at'[p].msgs = {} /\ at'[p].next = "write" /\ \A q \in Processes : q # p => at'[q] = at[q]
  BY <1>0, <1>1, Fields
<1>3. AtOf(p) /\ QueueOf(p) /\ AddressedAt(p)
  BY DEF Fits, Kept, Addressed
<1>4. /\ result'[j].state = at[p].state /\ result'[j].carried = at[p].msgs
      /\ \A k \in Jobs : k # j => result'[k] = result[k]
  BY <1>0, <1>1
<1>5. Addressed'
  <2>1. ASSUME NEW k \in Jobs
        PROVE  (To(k, queue[k]) /\ AllTo(k, result[k].carried) /\ (queueTmp[k] # None => To(k, queueTmp[k])))'
    <3>1. To(k, queue[k]) /\ AllTo(k, result[k].carried) /\ (queueTmp[k] # None => To(k, queueTmp[k]))
      BY DEF Kept, Addressed
    <3>2. AllTo(k, result'[k].carried)
      BY <1>1, <1>3, <1>4, <3>1 DEF AddressedAt
    <3> QED BY <1>1, <3>1, <3>2 DEF To, AllTo
  <2>2. ASSUME NEW q \in Processes PROVE AddressedAt(q)'
    <3>1. CASE q = p
      BY <1>2, <3>1, Fields DEF AddressedAt, To, AllTo
    <3>2. CASE q # p
      BY <1>1, <1>2, <3>2 DEF Kept, Addressed, AddressedAt, To, AllTo
    <3> QED BY <3>1, <3>2
  <2> QED BY <1>1, <2>1, <2>2 DEF Kept, Addressed
<1>6. ASSUME NEW q \in Processes PROVE QueueOf(q)'
  <2>1. CASE q = p
    BY <1>1, <1>2, <1>3, <2>1 DEF QueueOf, QueuePurposes
  <2>2. CASE q # p
    BY <1>1, <1>2, <2>2 DEF QueueOf, Kept
  <2> QED BY <2>1, <2>2
<1>7. ASSUME NEW m \in Messages, NEW k \in Jobs, sent'[m] = k, k \notin foreign' PROVE MessageOf(m, k)'
  <2>1. MessageOf(m, k) /\ k \notin foreign
    BY <1>1, <1>7 DEF Kept
  <2>2. CASE k # j
    BY <1>1, <1>4, <2>1, <2>2 DEF MessageOf
  <2>3. CASE k = j
    <3>1. task[j] = "finishing"
      BY <1>1, <1>3 DEF AtOf
    <3>2. (m \in at[p].msgs => queue[j][m] = "carried")
            /\ (at[p].state = "completed" /\ queue[j][m] = "carried" => m \in at[p].msgs)
      BY <1>1, <1>3, <2>1, <2>3 DEF QueueOf
    <3> QED BY <1>1, <1>4, <2>1, <2>3, <3>1, <3>2 DEF MessageOf
  <2> QED BY <2>2, <2>3
<1> QED BY <1>5, <1>6, <1>7 DEF Kept

\* A queue is put in place: drained, carried over or appended to.
LEMMA RenameQueueKept ==
  ASSUME TypeOK, Fits, Ends, Kept, NEW p \in Processes, NEW j \in Jobs, at[p].job = j, RenameQueue(p)
  PROVE  Kept'
<1>0. /\ at \in [Processes -> At] /\ queue \in [Jobs -> Queues] /\ queueTmp \in [Jobs -> Queues \cup {None}]
      /\ folded \in [Messages -> Nat]
  BY DEF TypeOK, At
<1>1. /\ at[p].next = "rename" /\ at[p].for \in QueuePurposes /\ queueTmp[j] # None
      /\ queue' = [queue EXCEPT ![j] = queueTmp[j]] /\ queueTmp' = [queueTmp EXCEPT ![j] = None]
      /\ at' = [at EXCEPT ![p] = IF at[p].for = "carry" THEN EndWith(j, "completed", at[p].msgs) ELSE Idle]
      /\ folded' = [m \in Messages |->
                      IF at[p].for = "drain" /\ m \in at[p].msgs THEN folded[m] + 1 ELSE folded[m]]
      /\ accepted' = IF at[p].for = "enqueue" THEN accepted \cup at[p].msgs ELSE accepted
      /\ UNCHANGED <<result, task, owner, sent, foreign>>
  BY DEF RenameQueue
<1>2. /\ queue'[j] = queueTmp[j] /\ queueTmp'[j] = None
      /\ \A k \in Jobs : k # j => queue'[k] = queue[k] /\ queueTmp'[k] = queueTmp[k]
      /\ \A q \in Processes : q # p => at'[q] = at[q]
      /\ at'[p] = IF at[p].for = "carry" THEN EndWith(j, "completed", at[p].msgs) ELSE Idle
  BY <1>0, <1>1
<1>3. AtOf(p) /\ EndOf(p) /\ QueueOf(p) /\ AddressedAt(p)
  BY DEF Fits, Ends, Kept, Addressed
<1>4. /\ at[p].for = "carry" => /\ at'[p].for = "result" /\ at'[p].job = j /\ at'[p].state = "completed"
                                /\ at'[p].items = EmptyQueue /\ at'[p].msgs = at[p].msgs /\ at'[p].next = "write"
      /\ at[p].for # "carry" => at'[p].for = "nothing"
  BY <1>2, Fields
<1>5. AllTo(j, at[p].msgs)
  BY <1>1, <1>3 DEF AddressedAt, QueuePurposes
<1>6. ASSUME NEW m \in Messages, sent[m] # j
      PROVE  folded'[m] = folded[m] /\ (m \in accepted' <=> m \in accepted)
  <2>1. m \notin at[p].msgs
    BY <1>5, <1>6 DEF AllTo
  <2> QED BY <1>1, <2>1
<1>7. Addressed'
  <2>1. ASSUME NEW k \in Jobs
        PROVE  (To(k, queue[k]) /\ AllTo(k, result[k].carried) /\ (queueTmp[k] # None => To(k, queueTmp[k])))'
    <3>1. To(k, queue[k]) /\ AllTo(k, result[k].carried) /\ (queueTmp[k] # None => To(k, queueTmp[k]))
      BY DEF Kept, Addressed
    <3>2. To(k, queue'[k])
      BY <1>1, <1>2, <3>1
    <3>3. queueTmp'[k] # None => To(k, queueTmp'[k])
      BY <1>2, <3>1
    <3> QED BY <1>1, <3>1, <3>2, <3>3 DEF To, AllTo
  <2>2. ASSUME NEW q \in Processes PROVE AddressedAt(q)'
    <3>1. CASE q = p
      BY <1>1, <1>4, <1>5, <3>1, Fields DEF AddressedAt, To, AllTo
    <3>2. CASE q # p
      BY <1>1, <1>2, <3>2 DEF Kept, Addressed, AddressedAt, To, AllTo
    <3> QED BY <3>1, <3>2
  <2>3. \A m \in Messages : (sent[m] = None => folded[m] = 0 /\ m \notin accepted)'
    BY <1>1, <1>6, NoneAssumption DEF Kept, Addressed
  <2> QED BY <2>1, <2>2, <2>3 DEF Addressed
<1>8. ASSUME j \notin foreign
      PROVE  /\ owner[j] = p
             /\ at[p].for = "drain" => queue'[j] = Marked(queue[j], "consumed") /\ at[p].msgs = Queued(queue[j])
             /\ at[p].for = "carry" => /\ queue'[j] = Marked(queue[j], "carried") /\ at[p].msgs = Queued(queue[j])
                                       /\ \A m \in Messages : queue[j][m] # "carried"
             /\ at[p].for = "enqueue" => /\ queue'[j] = Appended(queue[j], at[p].msgs) /\ task[j] # "ended"
                                         /\ \A m \in at[p].msgs : queue[j][m] = "none"
  BY <1>1, <1>2, <1>3, <1>8 DEF QueueOf
<1>9. ASSUME NEW q \in Processes PROVE QueueOf(q)'
  <2>1. CASE q = p /\ at[p].for # "carry"
    BY <1>4, <2>1 DEF QueueOf, QueuePurposes
  <2>2. CASE q = p /\ at[p].for = "carry"
    <3>1. at'[p].for \notin QueuePurposes
      BY <1>4, <2>2 DEF QueuePurposes
    <3>2. ASSUME j \notin foreign
          PROVE  /\ \A m \in Messages : queue'[j][m] = "carried" <=> m \in at[p].msgs
                 /\ Queued(queue'[j]) = {}
      <4>1. \A m \in Messages : queue'[j][m] = IF queue[j][m] = "queued" THEN "carried" ELSE queue[j][m]
        BY <1>8, <2>2, <3>2, MarkedFacts
      <4>2. at[p].msgs = Queued(queue[j]) /\ \A m \in Messages : queue[j][m] # "carried"
        BY <1>8, <2>2, <3>2
      <4>3. \A m \in Messages : m \in at[p].msgs <=> queue[j][m] = "queued"
        BY <4>2, MarkedFacts
      <4> QED BY <4>1, <4>2, <4>3 DEF Queued
    <3>3. at[p].msgs \subseteq Messages
      BY <1>0 DEF At
    <3>4. owner'[j] = p \/ j \in foreign'
      BY <1>1, <1>8
    <3> QED BY <1>1, <1>4, <2>2, <3>1, <3>2, <3>3, <3>4 DEF QueueOf, QueuePurposes
  <2>3. CASE q # p
    <3>1. \A k \in Jobs : Elsewhere(p, k) => queue'[k] = queue[k] /\ queueTmp'[k] = queueTmp[k]
                                             /\ (task'[k] = "ended" => task[k] = "ended")
      BY <1>1, <1>2 DEF Elsewhere
    <3>2. QueueOf(q) /\ owner' = owner /\ foreign' = foreign /\ at'[q] = at[q]
      BY <1>1, <1>2, <2>3 DEF Kept
    <3> QED BY <1>3, <2>3, <3>1, <3>2, QueueFrame
  <2> QED BY <2>1, <2>2, <2>3
<1>10. ASSUME NEW m \in Messages, NEW k \in Jobs, sent'[m] = k, k \notin foreign' PROVE MessageOf(m, k)'
  <2>1. MessageOf(m, k) /\ k \notin foreign /\ sent[m] = k
    BY <1>1, <1>10 DEF Kept
  <2>2. CASE k # j
    BY <1>1, <1>2, <1>6, <2>1, <2>2 DEF MessageOf
  <2>3. CASE k = j /\ at[p].for = "drain"
    <3>1. queue'[j][m] = IF queue[j][m] = "queued" THEN "consumed" ELSE queue[j][m]
      <4>1. queue'[j] = Marked(queue[j], "consumed")
        BY <1>8, <2>1, <2>3
      <4> QED BY <4>1, MarkedFacts, SMTT(30)
    <3>2. folded'[m] = IF queue[j][m] = "queued" THEN folded[m] + 1 ELSE folded[m]
      BY <1>1, <1>8, <2>1, <2>3, MarkedFacts, SMTT(30)
    <3> QED BY <1>1, <2>1, <2>3, <3>1, <3>2 DEF MessageOf
  <2>4. CASE k = j /\ at[p].for = "carry"
    <3>1. /\ queue'[j][m] = IF queue[j][m] = "queued" THEN "carried" ELSE queue[j][m]
          /\ queue[j][m] # "carried"
      <4>1. queue'[j] = Marked(queue[j], "carried") /\ queue[j][m] # "carried"
        BY <1>8, <2>1, <2>4
      <4>2. Marked(queue[j], "carried")[m] = IF queue[j][m] = "queued" THEN "carried" ELSE queue[j][m]
        BY MarkedFacts
      <4> QED BY <4>1, <4>2
    <3>2. folded'[m] = folded[m] /\ task[j] = "finishing" /\ result[j].state = "absent"
      BY <1>1, <1>3, <2>4 DEF AtOf, EndOf
    <3> QED BY <1>1, <2>1, <2>4, <3>1, <3>2 DEF MessageOf
  <2>5. CASE k = j /\ at[p].for = "enqueue"
    <3>1. /\ queue'[j][m] = IF m \in at[p].msgs THEN "queued" ELSE queue[j][m]
          /\ m \in at[p].msgs => queue[j][m] = "none"
          /\ task[j] # "ended"
      BY <1>8, <2>1, <2>5, MarkedFacts
    <3>2. folded'[m] = folded[m] /\ (m \in accepted' <=> m \in accepted \/ m \in at[p].msgs)
      BY <1>1, <2>5
    <3> QED BY <1>1, <2>1, <2>5, <3>1, <3>2 DEF MessageOf
  <2> QED BY <1>1, <2>2, <2>3, <2>4, <2>5 DEF QueuePurposes
<1> QED BY <1>7, <1>9, <1>10 DEF Kept

\* Every step keeps the messages.
LEMMA KeptStep == TypeOK /\ Fits /\ Ends /\ Kept /\ [Next]_vars => Kept'
<1> SUFFICES ASSUME TypeOK, Fits, Ends, Kept, [Next]_vars PROVE Kept'
  OBVIOUS
<1>1. ASSUME NEW p \in Processes, FileStep(p) PROVE Kept'
  <2>1. at[p].job \in Jobs
    BY <1>1, BusyJob DEF FileStep, ReadQueue, WriteTmp, WriteResult, RenameStatus, RenameQueue,
       RenameFails, StatusPurposes, QueuePurposes
  <2> QED BY <1>1, <2>1, ReadQueueKept, WriteTmpKept, WriteResultKept, RenameStatusKept, RenameQueueKept,
             RenameFailsKept DEF FileStep
<1>2. CASE UNCHANGED vars
  BY <1>2 DEF vars, files, history, Kept, Addressed, AddressedAt, To, AllTo, QueueOf, MessageOf
<1> QED BY <1>1, <1>2, RestartKept, LoopKept, RequestKept DEF Next

\* At first there are none.
LEMMA InitKept == Init => Kept
<1> SUFFICES ASSUME Init PROVE Kept
  OBVIOUS
<1>1. \A p \in Processes : at[p].for = "nothing"
  BY Fields DEF Init
<1>2. Addressed
  BY <1>1, Fields DEF Init, Addressed, AddressedAt, To, AllTo
<1>3. \A p \in Processes : QueueOf(p)
  BY <1>1 DEF QueueOf, QueuePurposes
<1>4. \A m \in Messages, j \in Jobs : sent[m] # j
  BY NoneAssumption DEF Init
<1> QED BY <1>2, <1>3, <1>4 DEF Kept

\* Where every message is, as long as one process handles the requests of its job.
THEOREM MessagesKept == Spec => [](IInv /\ Kept)
<1>1. IInv /\ Kept /\ [Next]_vars => Kept'
  BY KeptStep DEF IInv
<1> QED BY <1>1, Invariant, InitKept, PTL DEF Spec

\* A message sent in mid-turn is folded into the turn once or handed back, and
\* never both, for every number of processes, jobs and messages, whatever
\* restarts and whichever way the job ends.
THEOREM SurfacesOnce == Spec => []SurfacedOnce
<1>1. IInv /\ Kept => SurfacedOnce
  BY DEF IInv, TypeOK, Kept, MessageOf, SurfacedOnce, Carried
<1> QED BY <1>1, MessagesKept, PTL

\* A job that has completed has answered for every message it accepted.
THEOREM CompletedKeepsAll == Spec => []CompletedDropsNothing
<1>1. IInv /\ Kept => CompletedDropsNothing
  <2> SUFFICES ASSUME TypeOK, Kept, NEW m \in accepted, sent[m] \notin foreign, task[sent[m]] = "ended",
                      result[sent[m]].state = "completed"
               PROVE  folded[m] > 0 \/ Carried(m)
    BY DEF IInv, CompletedDropsNothing
  <2>1. m \in Messages /\ sent[m] \in Jobs
    BY DEF TypeOK, Kept, Addressed
  <2>2. MessageOf(m, sent[m]) /\ queue[sent[m]][m] \in Marks
    BY <2>1 DEF Kept, TypeOK, Queues
  <2> QED BY <2>1, <2>2, NoneAssumption DEF MessageOf, Marks, Carried
<1> QED BY <1>1, MessagesKept, PTL
=============================================================================
