-------------------------- MODULE WorkflowRuns_proofs --------------------------
(***************************************************************************)
(* Theorems about WorkflowRuns, for any workflow, any number of runs and   *)
(* any number of concurrent resumes.                                       *)
(***************************************************************************)
EXTENDS WorkflowRuns, TLAPS

\* A coroutine that drives no run has no task.
Idle == \A e \in Executors : cur[e] = None => \A o \in Ops : task[e][o] = "none"

Busy(e, o) == task[e][o] \in {"watched", "retrying", "resumed"}

\* A task in its body works on a running operation run of its own.
OwnRow ==
  /\ \A e \in Executors, o \in Ops : Busy(e, o) =>
       /\ rowOf[e][o] \in DOMAIN rows[cur[e]]
       /\ rows[cur[e]][rowOf[e][o]].op = o
       /\ rows[cur[e]][rowOf[e][o]].status = "running"
  /\ \A e, f \in Executors, o \in Ops :
       Busy(e, o) /\ Busy(f, o) /\ cur[e] = cur[f] /\ rowOf[e][o] = rowOf[f][o] => e = f

\* What a context calls successful did succeed, and only operations whose
\* dependencies did are scheduled.
Succeeded(r, o) == \E i \in DOMAIN rows[r] : rows[r][i].op = o /\ rows[r][i].status = "success"

KnownOf(e) ==
  /\ \A o \in Ops : known[e][o] = "success" \/ task[e][o] = "ok" => cur[e] \in Runs /\ Succeeded(cur[e], o)
  /\ \A o \in Ops : task[e][o] = "scheduled" => \A d \in Deps[o] : known[e][d] = "success"

KnownIsTrue == \A e \in Executors : KnownOf(e)

\* What a session has cached when a round is complete.
Flying(e) == \E o \in Ops : task[e][o] \in InFlight

ViewOf(e) ==
  /\ Flying(e) \/ cur[e] = None \/ view[e] = Expired
       \/ \E o \in Ops : task[e][o] \in {"error", "cancelled", "waiting"}
  /\ Flying(e) \/ view[e] \notin {"absent", "queued", "running"}
       \/ \A o \in Ops : task[e][o] # "waiting"
  /\ (\E o \in Ops : task[e][o] = "scheduled") => \A o \in Ops : task[e][o] \notin {"ok", "waiting"}

FreshView == \A e \in Executors : ViewOf(e)

IInv == TypeOK /\ Idle /\ OwnRow /\ KnownIsTrue /\ FreshView /\ DependenciesFirst

---------------------------------------------------------------------------
(* The status tables.                                                      *)

\* Every guarded transition of a run leaves a status a run can have, and a
\* run that has ended as it is.
LEMMA RunTable ==
  ASSUME NEW s \in RunStates \cup {"absent"}
  PROVE  /\ MarkRunning(s) \in RunStates
         /\ MarkFinished(s) \in RunStates
         /\ MarkWaiting(s) \in RunStates
         /\ MarkFailed(s) \in RunStates
         /\ MarkCancelled(s) \in RunStates
         /\ RequestCancel(s) \in RunStates
  BY DEF MarkRunning, MarkFinished, MarkWaiting, MarkFailed, MarkCancelled, RequestCancel,
         Unless, RunStates, TerminalRun, ActiveRun

\* The same of an operation run, whatever is found in its column.
LEMMA OpTable ==
  ASSUME NEW s
  PROVE  /\ OpRunning(s) \in OpStates
         /\ \A w \in WaitingOp : OpWaiting(s, w) \in OpStates
         /\ OpFinish(s) \in OpStates
         /\ OpFail(s) \in OpStates
         /\ OpCancel(s) \in OpStates
         /\ s \in TerminalOp =>
              /\ OpRunning(s) = s
              /\ \A w : OpWaiting(s, w) = s
              /\ OpFinish(s) = s
              /\ OpFail(s) = s
              /\ OpCancel(s) = s
  BY DEF OpRunning, OpWaiting, OpFinish, OpFail, OpCancel, Unless, OpStates, WaitingOp, TerminalOp

\* SetRow changes the status of one row at most.
LEMMA SetRowFrame ==
  ASSUME rows \in [Runs -> Seq(Row)], NEW r \in Runs, NEW i, NEW s \in OpStates, SetRow(r, i, s)
  PROVE  /\ rows' \in [Runs -> Seq(Row)]
         /\ \A q \in Runs : DOMAIN rows'[q] = DOMAIN rows[q]
         /\ \A q \in Runs : \A j \in DOMAIN rows[q] :
              rows'[q][j] = IF q = r /\ j = i THEN [op |-> rows[q][j].op, status |-> s] ELSE rows[q][j]
<1> DEFINE seq == [rows[r] EXCEPT ![i].status = s]
<1>1. rows' = [rows EXCEPT ![r] = seq]
  BY DEF SetRow
<1>2. rows[r] \in Seq(Row) /\ \A j \in DOMAIN rows[r] : rows[r][j] \in Row
  OBVIOUS
<1>3. DOMAIN seq = DOMAIN rows[r]
  OBVIOUS
<1>4. \A j \in DOMAIN rows[r] :
        seq[j] = IF j = i THEN [op |-> rows[r][j].op, status |-> s] ELSE rows[r][j]
  <2> TAKE j \in DOMAIN rows[r]
  <2>1. rows[r][j] = [op |-> rows[r][j].op, status |-> rows[r][j].status]
    BY <1>2 DEF Row
  <2>2. seq[j] = IF j = i THEN [rows[r][j] EXCEPT !.status = s] ELSE rows[r][j]
    OBVIOUS
  <2> QED BY <2>1, <2>2, <1>2 DEF Row
<1>5. seq \in Seq(Row)
  <2>1. DOMAIN seq = 1 .. Len(rows[r]) /\ Len(rows[r]) \in Nat
    BY <1>3, <1>2
  <2>2. \A j \in 1 .. Len(rows[r]) : seq[j] \in Row
    BY <1>2, <1>4 DEF Row
  <2>3. seq = [j \in 1 .. Len(rows[r]) |-> seq[j]]
    BY <2>1
  <2> HIDE DEF seq
  <2> QED BY <2>1, <2>2, <2>3
<1> HIDE DEF seq
<1> QED BY <1>1, <1>3, <1>4, <1>5

---------------------------------------------------------------------------
(* Types.                                                                  *)

\* What the constants are known to be.
LEMMA Constants ==
  /\ None \notin Runs
  /\ Deps \in [Ops -> SUBSET Ops]
  /\ Worker \in Executors /\ Resumers \subseteq Executors
  BY ConstantsAssumption DEF Executors

\* Release, Schedule and the operators built from them keep the types.
LEMMA ReleaseType ==
  ASSUME TypeOK, NEW e \in Executors, Release(e)
  PROVE  /\ cur'   \in [Executors -> Runs \cup {None}]
         /\ known' \in [Executors -> [Ops -> {"unknown", "success", "failed"}]]
         /\ task'  \in [Executors -> [Ops -> TaskStates]]
         /\ rowOf' \in [Executors -> [Ops -> Nat]]
         /\ view'  \in [Executors -> RunStates \cup {"absent", Expired}]
  BY DEF TypeOK, Release, NoTask, NoRow, Unknown, TaskStates

\* Scheduling a round keeps the types of the coroutine's variables.
LEMMA ScheduleType ==
  ASSUME TypeOK, NEW e \in Executors, NEW r \in Runs,
         NEW s \in RunStates \cup {"absent"},
         NEW k \in [Ops -> {"unknown", "success", "failed"}], Schedule(e, r, s, k)
  PROVE  /\ cur'   \in [Executors -> Runs \cup {None}]
         /\ known' \in [Executors -> [Ops -> {"unknown", "success", "failed"}]]
         /\ task'  \in [Executors -> [Ops -> TaskStates]]
         /\ rowOf' \in [Executors -> [Ops -> Nat]]
         /\ view'  \in [Executors -> RunStates \cup {"absent", Expired}]
<1>1. [o \in Ops |-> IF o \in Ready(k) THEN "scheduled" ELSE "none"] \in [Ops -> TaskStates]
  BY DEF TaskStates, InFlight
<1> QED BY <1>1 DEF TypeOK, Schedule, NoRow

Outcomes == {"success", "waiting", "cancelled", "error"}

\* The status an execution ends with is one a run can have.
LEMMA EndedType ==
  ASSUME NEW e, NEW outcome \in Outcomes, NEW s \in RunStates \cup {"absent"}
  PROVE  Ended(e, outcome, s) \in RunStates \cup {"absent"}
<1>1. CASE outcome = "success"
  BY <1>1, RunTable DEF Ended
<1>2. CASE outcome = "waiting"
  BY <1>2, RunTable DEF Ended
<1>3. CASE outcome = "cancelled"
  BY <1>3, RunTable DEF Ended
<1>4. CASE outcome = "error"
  BY <1>4, RunTable DEF Ended
<1> QED BY <1>1, <1>2, <1>3, <1>4 DEF Outcomes

\* The write at the end of an execution keeps the type of run.
LEMMA ConcludeType ==
  ASSUME TypeOK, NEW e \in Executors, NEW r \in Runs,
         NEW s \in RunStates \cup {"absent"}, NEW outcome \in Outcomes,
         Conclude(e, r, s, outcome)
  PROVE  run' \in [Runs -> RunStates \cup {"absent"}]
<1> DEFINE loaded == IF outcome = "cancelled" THEN run[r] ELSE s
<1>1. loaded \in RunStates \cup {"absent"}
  BY DEF TypeOK
<1>2. Ended(e, outcome, loaded) \in RunStates \cup {"absent"}
  BY <1>1, EndedType
<1>3. Write(r, loaded, Ended(e, outcome, loaded))
  BY DEF Conclude
<1> HIDE DEF loaded
<1> QED BY <1>2, <1>3 DEF Write, TypeOK

\* One pass of the while loop of _execute_operations keeps the types.
LEMMA LoopType ==
  ASSUME TypeOK, NEW e \in Executors, NEW r \in Runs,
         NEW s \in RunStates \cup {"absent"},
         NEW k \in [Ops -> {"unknown", "success", "failed"}], Loop(e, r, s, k)
  PROVE  /\ run'   \in [Runs -> RunStates \cup {"absent"}]
         /\ cur'   \in [Executors -> Runs \cup {None}]
         /\ known' \in [Executors -> [Ops -> {"unknown", "success", "failed"}]]
         /\ task'  \in [Executors -> [Ops -> TaskStates]]
         /\ rowOf' \in [Executors -> [Ops -> Nat]]
         /\ view'  \in [Executors -> RunStates \cup {"absent", Expired}]
<1>1. CASE Schedule(e, r, s, k) /\ UNCHANGED run
  BY <1>1, ScheduleType DEF TypeOK
<1>2. CASE Conclude(e, r, s, "success") \/ Conclude(e, r, s, "error")
  <2>1. run' \in [Runs -> RunStates \cup {"absent"}]
    BY <1>2, ConcludeType DEF Outcomes
  <2>2. Release(e)
    BY <1>2 DEF Conclude
  <2> QED BY <2>1, <2>2, ReleaseType
<1> QED BY <1>1, <1>2 DEF Loop

\* A task exists only where a run is driven.
LEMMA TaskHasRun ==
  ASSUME TypeOK, Idle, NEW e \in Executors, NEW o \in Ops, task[e][o] # "none"
  PROVE  cur[e] \in Runs
  BY DEF TypeOK, Idle

\* What a session reads is a status.
LEMMA ReadType ==
  ASSUME TypeOK, NEW e \in Executors, cur[e] \in Runs
  PROVE  Read(e) \in RunStates \cup {"absent"}
  BY DEF TypeOK, Read

\* A context rebuilt from operation runs has its type.
LEMMA ContextType ==
  ASSUME NEW seq, NEW x PROVE Context(seq, x) \in [Ops -> {"unknown", "success", "failed"}]
<1>1. \A o \in Ops : Context(seq, x)[o] \in {"unknown", "success", "failed"}
  <2> TAKE o \in Ops
  <2>1. CASE LastIs(seq, o, "success")
    BY <2>1 DEF Context
  <2>2. CASE ~LastIs(seq, o, "success") /\ LastIs(seq, o, "failed")
    BY <2>2 DEF Context
  <2>3. CASE ~LastIs(seq, o, "success") /\ ~LastIs(seq, o, "failed")
    BY <2>3 DEF Context
  <2> QED BY <2>1, <2>2, <2>3
<1> QED BY <1>1 DEF Context

\* The steps of an operation keep the types.
LEMMA OpStepType ==
  ASSUME TypeOK, Idle, NEW e \in Executors, NEW o \in Ops, OpStep(e, o)
  PROVE  TypeOK'
<1> USE DEF InFlight, TaskStates
<1>0. OpStates = {"running"} \cup WaitingOp \cup TerminalOp /\ TerminalOp = {"success", "failed", "cancelled"}
  BY DEF OpStates, TerminalOp
<1>1. CASE OpStart(e, o)
  <2>1. cur[e] \in Runs
    BY <1>1, TaskHasRun DEF OpStart
  <2>2. Read(e) \in RunStates \cup {"absent"}
    BY <2>1, ReadType
  <2>3. ASSUME NEW result \in {"cancelled", "error"},
               task' = [task EXCEPT ![e][o] = result], Load(e), UNCHANGED <<rows, rowOf>>
        PROVE  TypeOK'
    <3>1. view' \in [Executors -> RunStates \cup {"absent", Expired}]
      BY <2>2, <2>3 DEF TypeOK, Load
    <3>2. task' \in [Executors -> [Ops -> TaskStates]]
      BY <2>3 DEF TypeOK
    <3> QED BY <1>1, <2>3, <3>1, <3>2 DEF OpStart, TypeOK
  <2>4. ASSUME NEW s \in {"running", "failed"},
               rows' = [rows EXCEPT ![cur[e]] = Append(@, [op |-> o, status |-> s])],
               task' = [task EXCEPT ![e][o] = IF s = "running" THEN "watched" ELSE "error"],
               rowOf' = [rowOf EXCEPT ![e][o] = Len(rows[cur[e]]) + 1], Commit(e)
        PROVE  TypeOK'
    <3>1. [op |-> o, status |-> s] \in Row /\ rows[cur[e]] \in Seq(Row)
      BY <1>0, <2>1 DEF TypeOK, Row
    <3>2. Append(rows[cur[e]], [op |-> o, status |-> s]) \in Seq(Row) /\ Len(rows[cur[e]]) + 1 \in Nat
      BY <3>1
    <3>3. rows' \in [Runs -> Seq(Row)]
      BY <2>1, <2>4, <3>2 DEF TypeOK
    <3> QED BY <1>1, <2>4, <3>2, <3>3 DEF OpStart, TypeOK, Commit
  <2> QED BY <1>1, <2>3, <2>4 DEF OpStart
<1>2. CASE OpReturn(e, o)
  <2>1. cur[e] \in Runs
    BY <1>2, TaskHasRun DEF OpReturn, InBody
  <2>2. Read(e) \in RunStates \cup {"absent"}
    BY <2>1, ReadType
  <2>3. CASE task' = [task EXCEPT ![e][o] = "cancelled"] /\ Load(e) /\ UNCHANGED rows
    BY <1>2, <2>2, <2>3 DEF OpReturn, TypeOK, Load
  <2>4. CASE EndTask(e, o, "ok", OpFinish(OpRow(e, o))) /\ Commit(e)
    <3>1. rows' \in [Runs -> Seq(Row)]
      BY <2>1, <2>4, SetRowFrame, OpTable DEF EndTask, TypeOK
    <3> QED BY <1>2, <2>4, <3>1 DEF OpReturn, TypeOK, Commit, EndTask
  <2> QED BY <1>2, <2>3, <2>4 DEF OpReturn
<1>3. CASE OpFailed(e, o)
  <2>1. cur[e] \in Runs
    BY <1>3, TaskHasRun DEF OpFailed, InBody
  <2>2. rows' \in [Runs -> Seq(Row)]
    BY <1>3, <2>1, SetRowFrame, OpTable DEF OpFailed, EndTask, TypeOK
  <2> QED BY <1>3, <2>2 DEF OpFailed, TypeOK, Commit, EndTask
<1>4. CASE OpRetry(e, o)
  BY <1>4 DEF OpRetry, TypeOK
<1>5. CASE OpPause(e, o)
  <2>1. cur[e] \in Runs
    BY <1>5, TaskHasRun DEF OpPause, InBody
  <2>2. MarkWaiting(run[cur[e]]) \in RunStates
    BY <2>1, RunTable DEF TypeOK
  <2>3. rows' \in [Runs -> Seq(Row)] /\ task' = [task EXCEPT ![e][o] = "waiting"]
    BY <1>5, <2>1, SetRowFrame, OpTable DEF OpPause, EndTask, TypeOK
  <2> QED BY <1>5, <2>1, <2>2, <2>3 DEF OpPause, TypeOK
<1>6. CASE OpPoll(e, o)
  <2>1. cur[e] \in Runs
    BY <1>6, TaskHasRun DEF OpPoll, InBody
  <2>2. Read(e) \in RunStates \cup {"absent"}
    BY <2>1, ReadType
  <2>3. CASE UNCHANGED <<rows, task>> /\ Load(e)
    BY <1>6, <2>2, <2>3 DEF OpPoll, TypeOK, Load
  <2>4. CASE EndTask(e, o, "cancelled", OpCancel(OpRow(e, o))) /\ Commit(e)
    <3>1. rows' \in [Runs -> Seq(Row)]
      BY <2>1, <2>4, SetRowFrame, OpTable DEF EndTask, TypeOK
    <3> QED BY <1>6, <2>4, <3>1 DEF OpPoll, TypeOK, Commit, EndTask
  <2> QED BY <1>6, <2>3, <2>4 DEF OpPoll
<1>7. CASE OpProgress(e, o)
  BY <1>7 DEF OpProgress, TypeOK, Commit, drive
<1>8. CASE ResumedReturn(e, o)
  <2>1. cur[e] \in Runs
    BY <1>8, TaskHasRun DEF ResumedReturn
  <2>2. rows' \in [Runs -> Seq(Row)]
    BY <1>8, <2>1, SetRowFrame, OpTable DEF ResumedReturn, TypeOK
  <2>3. run[cur[e]] \in RunStates \cup {"absent"}
    BY <2>1 DEF TypeOK
  <2>4. CASE Conclude(e, cur[e], run[cur[e]], "cancelled")
    <3>1. run' \in [Runs -> RunStates \cup {"absent"}] /\ Release(e)
      BY <2>1, <2>3, <2>4, ConcludeType DEF Conclude, Outcomes
    <3> QED BY <1>8, <2>2, <3>1, ReleaseType DEF ResumedReturn, TypeOK
  <2>5. CASE Loop(e, cur[e], run[cur[e]], Context(rows'[cur[e]], o))
    BY <1>8, <2>1, <2>2, <2>3, <2>5, ContextType, LoopType DEF ResumedReturn, TypeOK
  <2> QED BY <1>8, <2>4, <2>5 DEF ResumedReturn
<1>9. CASE ResumedStop(e, o)
  <2>1. cur[e] \in Runs
    BY <1>9, TaskHasRun DEF ResumedStop
  <2>2. rows' \in [Runs -> Seq(Row)]
    BY <1>9, <2>1, SetRowFrame, OpTable DEF ResumedStop, TypeOK
  <2>3. MarkWaiting(run[cur[e]]) \in RunStates /\ MarkFailed(run[cur[e]]) \in RunStates
    BY <2>1, RunTable DEF TypeOK
  <2> QED BY <1>9, <2>1, <2>2, <2>3, ReleaseType DEF ResumedStop, TypeOK
<1>10. CASE ResumedRaise(e, o)
  BY <1>10, ReleaseType DEF ResumedRaise, TypeOK
<1> QED BY <1>1, <1>2, <1>3, <1>4, <1>5, <1>6, <1>7, <1>8, <1>9, <1>10 DEF OpStep

\* The end of a gather keeps the types.
LEMMA RoundEndType ==
  ASSUME TypeOK, Idle, NEW e \in Executors, RoundEnd(e)
  PROVE  TypeOK'
<1> DEFINE s == Read(e)
           k == [o \in Ops |-> IF task[e][o] = "ok" THEN "success" ELSE known[e][o]]
<1>1. cur[e] \in Runs
  BY DEF RoundEnd, TypeOK
<1>2. s \in RunStates \cup {"absent"}
  BY <1>1, ReadType
<1>3. k \in [Ops -> {"unknown", "success", "failed"}]
  BY DEF TypeOK
<1>4. CASE \E outcome \in Outcomes : Conclude(e, cur[e], s, outcome)
  <2>1. run' \in [Runs -> RunStates \cup {"absent"}] /\ Release(e)
    BY <1>1, <1>2, <1>4, ConcludeType DEF Conclude
  <2> QED BY <2>1, ReleaseType DEF RoundEnd, TypeOK
<1>5. CASE Loop(e, cur[e], s, k)
  <2> HIDE DEF s, k
  <2> QED BY <1>1, <1>2, <1>3, <1>5, LoopType DEF RoundEnd, TypeOK
<1>6. (\E outcome \in Outcomes : Conclude(e, cur[e], s, outcome)) \/ Loop(e, cur[e], s, k)
  <2>1. "waiting" \in Outcomes /\ "error" \in Outcomes /\ "cancelled" \in Outcomes
    BY DEF Outcomes
  <2> QED BY <2>1 DEF RoundEnd
<1> QED BY <1>4, <1>5, <1>6

\* execute_run, called by a worker tick, keeps the types.
LEMMA ExecuteRunType ==
  ASSUME TypeOK, NEW r \in Runs, ExecuteRun(r), rows' = rows, batch' \in SUBSET Runs
  PROVE  TypeOK'
<1> DEFINE s == MarkRunning(run[r])
<1>1. s \in RunStates \cup {"absent"} /\ MarkCancelled(s) \in RunStates
  BY RunTable DEF TypeOK
<1>2. Unknown \in [Ops -> {"unknown", "success", "failed"}]
  BY DEF Unknown
<1>3. CASE run' = [run EXCEPT ![r] = MarkCancelled(s)] /\ UNCHANGED <<drive, view>>
  <2> HIDE DEF s
  <2> QED BY <1>1, <1>3 DEF TypeOK, drive
<1>4. CASE run' = [run EXCEPT ![r] = s] /\ Schedule(Worker, r, s, Unknown)
  <2> HIDE DEF s
  <2> QED BY <1>1, <1>2, <1>4, ScheduleType, Constants DEF TypeOK
<1> QED BY <1>3, <1>4 DEF ExecuteRun

\* The requests, from enqueue_run to a resume, keep the types.
LEMMA RequestType ==
  ASSUME TypeOK, NEW r \in Runs, Request(r)
  PROVE  TypeOK'
<1>0. /\ run[r] \in RunStates \cup {"absent"}
      /\ MarkCancelled(run[r]) \in RunStates
      /\ MarkFailed(run[r]) \in RunStates
      /\ MarkRunning(run[r]) \in RunStates
      /\ MarkFailed(MarkRunning(run[r])) \in RunStates
      /\ RequestCancel(run[r]) \in RunStates
  BY RunTable DEF TypeOK
<1>1. CASE Enqueue(r)
  BY <1>1 DEF Enqueue, TypeOK, drive, RunStates, ActiveRun
<1>2. CASE Cancel(r)
  BY <1>0, <1>2 DEF Cancel, TypeOK, drive
<1>3. ASSUME NEW o \in Ops, ExpirePause(r, o)
      PROVE  TypeOK'
  <2>1. rows' \in [Runs -> Seq(Row)]
    BY <1>3, SetRowFrame, OpTable DEF ExpirePause, TypeOK
  <2> QED BY <1>0, <1>3, <2>1 DEF ExpirePause, TypeOK, drive
<1>4. ASSUME NEW o \in Ops, ResumeRejected(r, o)
      PROVE  TypeOK'
  <2>1. rows' \in [Runs -> Seq(Row)]
    BY <1>4, SetRowFrame, OpTable DEF ResumeRejected, TypeOK
  <2> QED BY <1>0, <1>4, <2>1 DEF ResumeRejected, TypeOK, drive
<1>5. ASSUME NEW e \in Resumers, NEW o \in Ops, Resume(e, r, o)
      PROVE  TypeOK'
  <2>1. rows' \in [Runs -> Seq(Row)]
    BY <1>5, SetRowFrame, OpTable DEF Resume, TypeOK
  <2>2. e \in Executors
    BY Constants
  <2>3. rowOf' \in [Executors -> [Ops -> Nat]]
    <3>1. PICK i \in DOMAIN rows[r] : rowOf' = [rowOf EXCEPT ![e][o] = i]
      BY <1>5 DEF Resume
    <3>2. i \in Nat
      BY DEF TypeOK
    <3> QED BY <2>2, <3>1, <3>2 DEF TypeOK
  <2>4. task' \in [Executors -> [Ops -> TaskStates]]
    BY <1>5, <2>2 DEF Resume, TypeOK, TaskStates, InFlight
  <2> QED BY <1>0, <1>5, <2>1, <2>2, <2>3, <2>4 DEF Resume, TypeOK, Commit
<1> QED BY <1>1, <1>2, <1>3, <1>4, <1>5 DEF Request

\* recover_orphaned_runs keeps the types.
LEMMA RestartType ==
  ASSUME TypeOK, NEW S \in SUBSET Runs, Restart(S)
  PROVE  TypeOK'
<1>1. \A s : Recovered(s) \in {"cancelled", "failed"}
  BY DEF Recovered
<1>2. run' \in [Runs -> RunStates \cup {"absent"}]
  BY <1>1 DEF Restart, TypeOK, RunStates, TerminalRun
<1>3. rows' \in [Runs -> Seq(Row)]
  <2>1. ASSUME NEW r \in Runs
        PROVE  rows'[r] \in Seq(Row)
    <3> DEFINE st(i) == IF rows[r][i].status \in TerminalOp THEN rows[r][i].status ELSE Recovered(run[r])
               seq == [i \in DOMAIN rows[r] |-> [rows[r][i] EXCEPT !.status = st(i)]]
    <3>1. rows[r] \in Seq(Row) /\ DOMAIN rows[r] = 1 .. Len(rows[r]) /\ Len(rows[r]) \in Nat
      BY DEF TypeOK
    <3>2. ASSUME NEW i \in DOMAIN rows[r]
          PROVE  [rows[r][i] EXCEPT !.status = st(i)] \in Row
      <4>1. rows[r][i] \in Row
        BY <3>1
      <4>2. st(i) \in OpStates
        BY <1>1 DEF OpStates, TerminalOp
      <4> HIDE DEF st
      <4> QED BY <4>1, <4>2 DEF Row
    <3>3. seq \in Seq(Row)
      BY <3>1, <3>2
    <3>4. rows'[r] = IF r \in S THEN seq ELSE rows[r]
      BY DEF Restart
    <3> QED BY <3>1, <3>3, <3>4
  <2> QED BY <2>1 DEF Restart
<1> QED BY <1>2, <1>3 DEF Restart, TypeOK, Unknown, NoTask, NoRow, TaskStates

---------------------------------------------------------------------------
(* What a step does to the coroutines: it leaves one as it is, releases    *)
(* it, schedules its next round or moves one of its tasks.                 *)

Moves(e) ==
  \/ UNCHANGED drive
  \/ Release(e)
  \/ \E r \in Runs, s \in RunStates \cup {"absent"}, k \in [Ops -> {"unknown", "success", "failed"}] :
       Schedule(e, r, s, k)
  \/ /\ UNCHANGED <<cur, known>> /\ cur[e] \in Runs
     /\ \E o \in Ops, t \in TaskStates : task' = [task EXCEPT ![e][o] = t]
  \/ /\ UNCHANGED known
     /\ \E r \in Runs, o \in Ops : cur' = [cur EXCEPT ![e] = r] /\ task' = [task EXCEPT ![e][o] = "resumed"]

\* None of these changes gives a task to a coroutine without a run.
LEMMA MovesIdle ==
  ASSUME TypeOK, Idle, NEW e \in Executors, Moves(e)
  PROVE  Idle'
<1>1. CASE UNCHANGED drive
  BY <1>1 DEF Idle, drive
<1>2. CASE Release(e)
  BY <1>2 DEF Idle, Release, NoTask, TypeOK
<1>3. ASSUME NEW r \in Runs, NEW s, NEW k, Schedule(e, r, s, k)
      PROVE  Idle'
  BY <1>3, Constants DEF Idle, Schedule, TypeOK
<1>4. ASSUME UNCHANGED <<cur, known>>, cur[e] \in Runs, NEW o \in Ops, NEW t, task' = [task EXCEPT ![e][o] = t]
      PROVE  Idle'
  BY <1>4, Constants DEF Idle, TypeOK
<1>5. ASSUME NEW r \in Runs, NEW o \in Ops, cur' = [cur EXCEPT ![e] = r],
             task' = [task EXCEPT ![e][o] = "resumed"]
      PROVE  Idle'
  BY <1>5, Constants DEF Idle, TypeOK
<1> QED BY <1>1, <1>2, <1>3, <1>4, <1>5 DEF Moves

\* A pass of the loop is such a change,
LEMMA LoopMoves ==
  ASSUME NEW e \in Executors, NEW r \in Runs, NEW s \in RunStates \cup {"absent"},
         NEW k \in [Ops -> {"unknown", "success", "failed"}], Loop(e, r, s, k)
  PROVE  Moves(e)
  BY DEF Loop, Conclude, Moves

\* ... and so is a step of an operation,
LEMMA OpStepMoves ==
  ASSUME TypeOK, Idle, NEW e \in Executors, NEW o \in Ops, OpStep(e, o)
  PROVE  Moves(e)
<1> USE DEF Moves, TaskStates, InFlight
<1>1. CASE OpStart(e, o)
  <2>1. cur[e] \in Runs
    BY <1>1, TaskHasRun DEF OpStart
  <2> QED BY <1>1, <2>1 DEF OpStart
<1>2. CASE OpReturn(e, o) \/ OpFailed(e, o) \/ OpRetry(e, o) \/ OpPause(e, o) \/ OpPoll(e, o)
  <2>1. cur[e] \in Runs
    BY <1>2, TaskHasRun DEF OpReturn, OpFailed, OpRetry, OpPause, OpPoll, InBody
  <2> QED BY <1>2, <2>1 DEF OpReturn, OpFailed, OpRetry, OpPause, OpPoll, EndTask, drive
<1>3. CASE OpProgress(e, o)
  BY <1>3 DEF OpProgress
<1>4. CASE ResumedReturn(e, o)
  <2>1. cur[e] \in Runs
    BY <1>4, TaskHasRun DEF ResumedReturn
  <2>2. run[cur[e]] \in RunStates \cup {"absent"}
    BY <2>1 DEF TypeOK
  <2> QED BY <1>4, <2>1, <2>2, ContextType, LoopMoves DEF ResumedReturn, Conclude
<1>5. CASE ResumedStop(e, o) \/ ResumedRaise(e, o)
  BY <1>5 DEF ResumedStop, ResumedRaise
<1> QED BY <1>1, <1>2, <1>3, <1>4, <1>5 DEF OpStep

\* ... the end of a gather,
LEMMA RoundEndMoves ==
  ASSUME TypeOK, Idle, NEW e \in Executors, RoundEnd(e)
  PROVE  Moves(e)
<1> DEFINE k == [o \in Ops |-> IF task[e][o] = "ok" THEN "success" ELSE known[e][o]]
<1>1. cur[e] \in Runs
  BY DEF RoundEnd, TypeOK
<1>2. Read(e) \in RunStates \cup {"absent"} /\ k \in [Ops -> {"unknown", "success", "failed"}]
  BY <1>1, ReadType DEF TypeOK
<1>3. Release(e) \/ Loop(e, cur[e], Read(e), k)
  BY DEF RoundEnd, Conclude
<1> QED BY <1>1, <1>2, <1>3, LoopMoves DEF Moves

\* ... the start of a run by the worker,
LEMMA ExecuteRunMoves ==
  ASSUME TypeOK, NEW r \in Runs, ExecuteRun(r)
  PROVE  Moves(Worker)
<1>1. MarkRunning(run[r]) \in RunStates \cup {"absent"} /\ Unknown \in [Ops -> {"unknown", "success", "failed"}]
  BY RunTable DEF TypeOK, Unknown
<1> QED BY <1>1 DEF ExecuteRun, Moves

\* ... and a request.
LEMMA RequestMoves ==
  ASSUME TypeOK, NEW r \in Runs, Request(r)
  PROVE  \E e \in Executors : Moves(e)
<1>1. CASE UNCHANGED drive
  BY <1>1, Constants DEF Moves
<1>2. ASSUME NEW e \in Resumers, NEW o \in Ops, Resume(e, r, o)
      PROVE  Moves(e) /\ e \in Executors
  BY <1>2, Constants DEF Resume, Moves
<1> QED BY <1>1, <1>2 DEF Request, Enqueue, Cancel, ExpirePause, ResumeRejected, drive

\* The types are kept by every step.
LEMMA TypeStep ==
  ASSUME TypeOK, Idle, [Next]_vars
  PROVE  TypeOK' /\ Idle'
<1>1. CASE WorkerTick
  <2>1. PICK r \in Runs : batch' = Listed \ {r} /\ ExecuteRun(r)
    BY <1>1 DEF WorkerTick
  <2>2. batch' \in SUBSET Runs
    BY <2>1 DEF Listed, Queued
  <2> QED BY <1>1, <2>1, <2>2, ExecuteRunType, ExecuteRunMoves, MovesIdle, Constants DEF WorkerTick
<1>2. CASE WorkerNext
  <2>1. PICK r \in Runs : batch' = batch \ {r} /\ ExecuteRun(r)
    BY <1>2 DEF WorkerNext
  <2>2. batch' \in SUBSET Runs
    BY <2>1 DEF TypeOK
  <2> QED BY <1>2, <2>1, <2>2, ExecuteRunType, ExecuteRunMoves, MovesIdle, Constants DEF WorkerNext
<1>3. ASSUME NEW e \in Executors, RoundEnd(e)
      PROVE  TypeOK' /\ Idle'
  BY <1>3, RoundEndType, RoundEndMoves, MovesIdle
<1>4. ASSUME NEW e \in Executors, NEW o \in Ops, OpStep(e, o)
      PROVE  TypeOK' /\ Idle'
  BY <1>4, OpStepType, OpStepMoves, MovesIdle
<1>5. ASSUME NEW r \in Runs, Request(r)
      PROVE  TypeOK' /\ Idle'
  BY <1>5, RequestType, RequestMoves, MovesIdle
<1>6. ASSUME NEW S \in SUBSET Runs, Restart(S)
      PROVE  TypeOK' /\ Idle'
  BY <1>6, RestartType DEF Restart, Idle, NoTask
<1>7. CASE UNCHANGED vars
  BY <1>7 DEF vars, TypeOK, Idle
<1> QED BY <1>1, <1>2, <1>3, <1>4, <1>5, <1>6, <1>7 DEF Next, Serve

\* Every variable has its type, and a coroutine without a run has no task,
\* whatever the workflow and however many runs and resumes there are.
THEOREM TypeCorrect == Spec => [](TypeOK /\ Idle)
<1>1. Init => TypeOK /\ Idle
  BY Constants DEF Init, TypeOK, Idle, NoTask, NoRow, Unknown, TaskStates
<1>2. TypeOK /\ Idle /\ [Next]_vars => (TypeOK /\ Idle)'
  BY TypeStep
<1> QED BY <1>1, <1>2, PTL DEF Spec

---------------------------------------------------------------------------
(* Operation runs are only appended, and end once.                         *)

Keeps ==
  \A r \in Runs : \A i \in DOMAIN rows[r] :
    /\ i \in DOMAIN rows'[r]
    /\ rows'[r][i].op = rows[r][i].op
    /\ rows[r][i].status \in TerminalOp => rows'[r][i] = rows[r][i]

\* An operation run is its operation and its status.
LEMMA RowShape ==
  ASSUME TypeOK, NEW q \in Runs, NEW j \in DOMAIN rows[q]
  PROVE  /\ rows[q][j].op \in Ops /\ rows[q][j].status \in OpStates
         /\ \A s : rows[q][j].status = s => [op |-> rows[q][j].op, status |-> s] = rows[q][j]
<1>1. rows[q][j] \in Row
  BY DEF TypeOK
<1> QED BY <1>1 DEF Row

\* SetRow with a transition that respects the end of a row.
LEMMA SetRowKeeps ==
  ASSUME TypeOK, NEW r \in Runs, NEW i, NEW s \in OpStates, SetRow(r, i, s),
         i \in DOMAIN rows[r] /\ rows[r][i].status \in TerminalOp => s = rows[r][i].status
  PROVE  Keeps
<1>1. /\ \A q \in Runs : DOMAIN rows'[q] = DOMAIN rows[q]
      /\ \A q \in Runs : \A j \in DOMAIN rows[q] :
           rows'[q][j] = IF q = r /\ j = i THEN [op |-> rows[q][j].op, status |-> s] ELSE rows[q][j]
  BY SetRowFrame DEF TypeOK
<1>2. ASSUME NEW q \in Runs, NEW j \in DOMAIN rows[q]
      PROVE  /\ j \in DOMAIN rows'[q]
             /\ rows'[q][j].op = rows[q][j].op
             /\ rows[q][j].status \in TerminalOp => rows'[q][j] = rows[q][j]
  <2>1. CASE q = r /\ j = i
    <3>1. j \in DOMAIN rows'[q] /\ rows'[q][j] = [op |-> rows[q][j].op, status |-> s]
      BY <1>1, <2>1
    <3>2. rows[q][j].status \in TerminalOp => s = rows[q][j].status
      BY <2>1
    <3>3. rows[q][j].status = s => rows'[q][j] = rows[q][j]
      BY <3>1, RowShape
    <3> QED BY <3>1, <3>2, <3>3
  <2>2. CASE ~(q = r /\ j = i)
    BY <1>1, <2>2
  <2> QED BY <2>1, <2>2
<1> QED BY <1>2 DEF Keeps

\* Every repository call made at the end of a body respects the end of a row.
LEMMA EndTaskKeeps ==
  ASSUME TypeOK, NEW e \in Executors, NEW o \in Ops, cur[e] \in Runs, NEW s,
         SetRow(cur[e], rowOf[e][o], s),
         \/ s = OpFinish(OpRow(e, o)) \/ s = OpFail(OpRow(e, o)) \/ s = OpCancel(OpRow(e, o))
         \/ \E w \in WaitingOp : s = OpWaiting(OpRow(e, o), w)
  PROVE  Keeps
<1>1. s \in OpStates /\ (OpRow(e, o) \in TerminalOp => s = OpRow(e, o))
  BY OpTable
<1> QED BY <1>1, SetRowKeeps DEF OpRow

\* create_operation_run appends one row and changes none.
LEMMA AppendFacts ==
  ASSUME TypeOK, NEW r \in Runs, NEW x \in Row, rows' = [rows EXCEPT ![r] = Append(@, x)]
  PROVE  /\ \A q \in Runs : DOMAIN rows'[q] = IF q = r THEN 1 .. Len(rows[r]) + 1 ELSE DOMAIN rows[q]
         /\ \A q \in Runs : \A j \in DOMAIN rows[q] : rows'[q][j] = rows[q][j]
         /\ rows'[r][Len(rows[r]) + 1] = x
         /\ \A q \in Runs : DOMAIN rows[q] = 1 .. Len(rows[q]) /\ Len(rows[q]) \in Nat
<1>1. rows[r] \in Seq(Row) /\ rows'[r] = Append(rows[r], x)
  BY DEF TypeOK
<1> QED BY <1>1 DEF TypeOK

\* No step loses an operation run or reopens one that has ended.
LEMMA StepKeeps ==
  ASSUME TypeOK, Idle, [Next]_vars
  PROVE  Keeps
<1>0. ASSUME UNCHANGED rows PROVE Keeps
  BY <1>0 DEF Keeps
<1>1. ASSUME NEW e \in Executors, NEW o \in Ops, OpStep(e, o)
      PROVE  Keeps
  <2>1. CASE UNCHANGED rows
    BY <1>0, <2>1
  <2>2. ASSUME NEW s \in {"running", "failed"}, cur[e] \in Runs,
               rows' = [rows EXCEPT ![cur[e]] = Append(@, [op |-> o, status |-> s])]
        PROVE  Keeps
    <3>1. [op |-> o, status |-> s] \in Row
      BY DEF Row, OpStates, TerminalOp
    <3> QED BY <2>2, <3>1, AppendFacts DEF Keeps
  <2>3. ASSUME cur[e] \in Runs, NEW s, SetRow(cur[e], rowOf[e][o], s),
               \/ s = OpFinish(OpRow(e, o)) \/ s = OpFail(OpRow(e, o)) \/ s = OpCancel(OpRow(e, o))
               \/ \E w \in WaitingOp : s = OpWaiting(OpRow(e, o), w)
        PROVE  Keeps
    BY <2>3, EndTaskKeeps
  <2>4. task[e][o] # "none" \/ UNCHANGED rows
    BY <1>1 DEF OpStep, OpStart, OpReturn, OpFailed, OpRetry, OpPause, OpPoll, OpProgress, InBody,
                ResumedReturn, ResumedStop, ResumedRaise
  <2>5. cur[e] \in Runs \/ UNCHANGED rows
    BY <2>4, TaskHasRun
  <2>6. CASE cur[e] \in Runs /\ OpStart(e, o)
    BY <2>1, <2>2, <2>6 DEF OpStart
  <2>7. CASE cur[e] \in Runs /\ (OpReturn(e, o) \/ OpFailed(e, o) \/ OpPause(e, o) \/ OpPoll(e, o))
    BY <2>1, <2>3, <2>7 DEF OpReturn, OpFailed, OpPause, OpPoll, EndTask
  <2>8. CASE cur[e] \in Runs /\ (ResumedReturn(e, o) \/ ResumedStop(e, o) \/ ResumedRaise(e, o))
    BY <2>1, <2>3, <2>8 DEF ResumedReturn, ResumedStop, ResumedRaise
  <2>9. CASE OpRetry(e, o) \/ OpProgress(e, o)
    BY <2>1, <2>9 DEF OpRetry, OpProgress
  <2> QED BY <1>1, <2>1, <2>5, <2>6, <2>7, <2>8, <2>9 DEF OpStep
<1>2. ASSUME NEW r \in Runs, Request(r)
      PROVE  Keeps
  <2>1. CASE Enqueue(r) \/ Cancel(r)
    BY <1>0, <2>1 DEF Enqueue, Cancel
  <2>2. ASSUME NEW i \in DOMAIN rows[r], NEW s \in OpStates, SetRow(r, i, s),
               rows[r][i].status \in WaitingOp
        PROVE  Keeps
    <3>1. rows[r][i].status \notin TerminalOp
      BY <2>2 DEF WaitingOp, TerminalOp
    <3> QED BY <2>2, <3>1, SetRowKeeps
  <2>3. ASSUME NEW o \in Ops, ExpirePause(r, o)
        PROVE  Keeps
    BY <2>2, <2>3, OpTable DEF ExpirePause, IsPause, Paused
  <2>4. ASSUME NEW o \in Ops, ResumeRejected(r, o)
        PROVE  Keeps
    BY <2>2, <2>4, OpTable DEF ResumeRejected, IsPause, Paused
  <2>5. ASSUME NEW e \in Resumers, NEW o \in Ops, Resume(e, r, o)
        PROVE  Keeps
    BY <2>2, <2>5, OpTable DEF Resume, IsPause, Paused
  <2> QED BY <1>2, <2>1, <2>3, <2>4, <2>5 DEF Request
<1>3. ASSUME NEW S \in SUBSET Runs, Restart(S)
      PROVE  Keeps
  <2>1. ASSUME NEW r \in Runs, NEW i \in DOMAIN rows[r]
        PROVE  /\ i \in DOMAIN rows'[r]
               /\ rows'[r][i].op = rows[r][i].op
               /\ rows[r][i].status \in TerminalOp => rows'[r][i] = rows[r][i]
    <3>1. rows[r][i] \in Row
      BY DEF TypeOK
    <3>2. rows'[r] = IF r \in S
                     THEN [j \in DOMAIN rows[r] |->
                            [rows[r][j] EXCEPT !.status =
                               IF @ \in TerminalOp THEN @ ELSE Recovered(run[r])]]
                     ELSE rows[r]
      BY <1>3 DEF Restart
    <3> QED BY <3>1, <3>2 DEF Row
  <2> QED BY <2>1 DEF Keeps
<1>4. CASE WorkerTick \/ WorkerNext \/ UNCHANGED vars \/ \E e \in Executors : RoundEnd(e)
  BY <1>0, <1>4 DEF WorkerTick, WorkerNext, RoundEnd, vars
<1> QED BY <1>1, <1>2, <1>3, <1>4 DEF Next, Serve

\* An operation run that has ended stays as it ended, whoever still works on
\* it: a body that returns late, a resume, an expiry or the recovery.
THEOREM EndedOpRunsStay == Spec => TerminalOpRunsFinal
<1>1. TypeOK /\ Idle /\ [Next]_vars =>
        [\A r \in Runs : \A i \in DOMAIN rows[r] :
           rows[r][i].status \in TerminalOp => i \in DOMAIN rows'[r] /\ rows'[r][i] = rows[r][i]]_vars
  BY StepKeeps DEF Keeps
<1> QED BY <1>1, TypeCorrect, PTL DEF Spec, TerminalOpRunsFinal

---------------------------------------------------------------------------
(* The status a coroutine has cached when its round is complete is either  *)
(* read after the last operation of the round or no longer decides whether *)
(* the run succeeds or waits.                                              *)

\* A step of one coroutine concerns the view of no other.
LEMMA ViewFrame ==
  ASSUME FreshView, NEW e,
         \A f \in Executors : f # e => task'[f] = task[f] /\ view'[f] = view[f] /\ cur'[f] = cur[f],
         e \in Executors => ViewOf(e)'
  PROVE  FreshView'
  BY DEF FreshView, ViewOf, Flying

\* A coroutine that lets its run go has nothing cached that matters.
LEMMA ReleaseView ==
  ASSUME TypeOK, FreshView, NEW e \in Executors, Release(e)
  PROVE  FreshView'
<1>1. ViewOf(e)'
  BY DEF Release, ViewOf, NoTask, TypeOK
<1> QED BY <1>1, ViewFrame DEF Release, TypeOK

\* A workflow without a cycle always has an operation to begin with.
LEMMA FirstReady == Ready(Unknown) # {}
<1>1. PICK o \in Ops : Deps[o] \cap Ops = {}
  BY AcyclicAssumption, ConstantsAssumption
<1>2. Deps[o] = {}
  BY <1>1, Constants
<1> QED BY <1>2 DEF Ready, Pending, Unknown

\* A round that has begun has tasks in flight.
LEMMA ScheduleView ==
  ASSUME TypeOK, FreshView, NEW e \in Executors, NEW r, NEW s, NEW k, Ready(k) # {}, Schedule(e, r, s, k)
  PROVE  FreshView'
<1>1. task'[e] = [o \in Ops |-> IF o \in Ready(k) THEN "scheduled" ELSE "none"]
  BY DEF Schedule, TypeOK
<1>2. PICK o \in Ops : o \in Ready(k)
  BY DEF Ready, Pending
<1>3. Flying(e)'
  BY <1>1, <1>2 DEF Flying, InFlight
<1>4. ViewOf(e)'
  BY <1>1, <1>3 DEF ViewOf
<1> QED BY <1>4, ViewFrame DEF Schedule, TypeOK

\* So a pass of the loop keeps FreshView,
LEMMA LoopView ==
  ASSUME TypeOK, FreshView, NEW e \in Executors, NEW r, NEW s, NEW k, Loop(e, r, s, k)
  PROVE  FreshView'
  BY ReleaseView, ScheduleView DEF Loop, Conclude

\* ... as does the start of a run.
LEMMA ExecuteRunView ==
  ASSUME TypeOK, FreshView, NEW r \in Runs, ExecuteRun(r)
  PROVE  FreshView'
<1>1. CASE UNCHANGED <<drive, view>>
  BY <1>1 DEF drive, FreshView, ViewOf, Flying
<1>2. CASE Schedule(Worker, r, MarkRunning(run[r]), Unknown)
  BY <1>2, ScheduleView, FirstReady, Constants
<1> QED BY <1>1, <1>2 DEF ExecuteRun

\* One task of a round moves on.
LEMMA TaskView ==
  ASSUME TypeOK, FreshView, NEW e \in Executors, NEW o \in Ops, NEW t \in TaskStates, NEW s,
         cur' = cur, task' = [task EXCEPT ![e][o] = t], view' = [view EXCEPT ![e] = s],
         t \notin {"none", "scheduled"},
         t \in {"ok", "waiting"} => Started(e),
         t = "ok" => s = Expired,
         t = "waiting" => s \notin {"absent", "queued", "running"},
         \/ s \notin {"absent", "queued", "running"}
         \/ task[e][o] = "scheduled"
         \/ t \in InFlight
  PROVE  FreshView'
<1>0. ViewOf(e)
  BY DEF FreshView
<1>1. task'[e][o] = t /\ view'[e] = s /\ \A p \in Ops : p # o => task'[e][p] = task[e][p]
  BY DEF TypeOK
<1>2. (Flying(e) \/ cur[e] = None \/ view[e] = Expired
        \/ \E p \in Ops : task[e][p] \in {"error", "cancelled", "waiting"})'
  <2>1. CASE t \in InFlight
    BY <1>1, <2>1 DEF Flying
  <2>2. CASE t \in {"error", "cancelled", "waiting"}
    BY <1>1, <2>2
  <2>3. CASE t = "ok"
    BY <1>1, <2>3
  <2> QED BY <2>1, <2>2, <2>3 DEF TaskStates
<1>3. (Flying(e) \/ view[e] \notin {"absent", "queued", "running"}
        \/ \A p \in Ops : task[e][p] # "waiting")'
  <2>1. CASE t \in InFlight
    BY <1>1, <2>1 DEF Flying
  <2>2. CASE s \notin {"absent", "queued", "running"}
    BY <1>1, <2>2
  <2>3. CASE task[e][o] = "scheduled" /\ s \in {"absent", "queued", "running"}
    BY <1>0, <1>1, <2>3 DEF ViewOf
  <2> QED BY <2>1, <2>2, <2>3
<1>4. ((\E p \in Ops : task[e][p] = "scheduled") => \A p \in Ops : task[e][p] \notin {"ok", "waiting"})'
  BY <1>0, <1>1 DEF ViewOf, Started
<1>5. ViewOf(e)'
  BY <1>2, <1>3, <1>4 DEF ViewOf
<1> QED BY <1>5, ViewFrame DEF TypeOK

\* A task that fails, is cancelled or retried leaves a view that decides
\* nothing.
LEMMA StoppedTaskView ==
  ASSUME TypeOK, FreshView, NEW e \in Executors, NEW o \in Ops, NEW t, NEW s, cur' = cur,
         task' = [task EXCEPT ![e][o] = t], view' = [view EXCEPT ![e] = s],
         \/ t \in {"error", "cancelled"} /\ s \in {"expired", "cancel_requested"}
         \/ t = "retrying"
  PROVE  FreshView'
<1>1. t \in TaskStates /\ t \notin {"none", "scheduled"} /\ t \notin {"ok", "waiting"} /\ t # "ok" /\ t # "waiting"
  BY DEF TaskStates, InFlight
<1>2. s \notin {"absent", "queued", "running"} \/ t \in InFlight
  BY DEF InFlight
<1> QED BY <1>1, <1>2, TaskView, Zenon

\* Every step of an operation keeps FreshView.
LEMMA OpStepView ==
  ASSUME TypeOK, Idle, FreshView, NEW e \in Executors, NEW o \in Ops, OpStep(e, o)
  PROVE  FreshView'
<1> USE DEF TaskStates, InFlight
<1>1. CASE OpStart(e, o)
  <2>1. ASSUME NEW t \in {"watched", "error", "cancelled"}, task' = [task EXCEPT ![e][o] = t],
               NEW s, view' = [view EXCEPT ![e] = s]
        PROVE  FreshView'
    BY <1>1, <2>1, TaskView DEF OpStart
  <2> QED BY <1>1, <2>1 DEF OpStart, Load, Commit
<1>2. CASE OpReturn(e, o)
  <2>1. CASE task' = [task EXCEPT ![e][o] = "cancelled"] /\ view' = [view EXCEPT ![e] = "cancel_requested"]
    <3>1. cur' = cur
      BY <1>2 DEF OpReturn
    <3> QED BY <2>1, <3>1, StoppedTaskView
  <2>2. CASE task' = [task EXCEPT ![e][o] = "ok"] /\ view' = [view EXCEPT ![e] = Expired]
    BY <1>2, <2>2, TaskView, ZenonT(60) DEF OpReturn, InBody, Expired
  <2> QED BY <1>2, <2>1, <2>2 DEF OpReturn, EndTask, Load, Commit
<1>3. CASE OpFailed(e, o)
  <2>1. cur' = cur /\ task' = [task EXCEPT ![e][o] = "error"] /\ view' = [view EXCEPT ![e] = "expired"]
    BY <1>3 DEF OpFailed, EndTask, Commit, Expired
  <2> QED BY <2>1, StoppedTaskView
<1>4. CASE OpRetry(e, o)
  <2>1. cur' = cur /\ task' = [task EXCEPT ![e][o] = "retrying"] /\ view' = [view EXCEPT ![e] = view[e]]
    BY <1>4 DEF OpRetry, TypeOK
  <2> QED BY <2>1, StoppedTaskView
<1>5. CASE OpPause(e, o)
  <2>1. cur[e] \in Runs
    BY <1>5, TaskHasRun DEF OpPause, InBody
  <2>2. MarkWaiting(run[cur[e]]) \notin {"absent", "queued", "running"}
    BY <2>1 DEF MarkWaiting, Unless, TerminalRun
  <2> QED BY <1>5, <2>2, TaskView DEF OpPause, EndTask, InBody
<1>6. CASE OpPoll(e, o)
  <2>1. CASE task' = [task EXCEPT ![e][o] = "cancelled"] /\ Commit(e)
    <3>1. cur' = cur /\ view' = [view EXCEPT ![e] = "expired"]
      BY <1>6, <2>1 DEF OpPoll, Commit, Expired
    <3> QED BY <2>1, <3>1, StoppedTaskView
  <2>2. CASE task' = task /\ Load(e)
    <3>1. task' = [task EXCEPT ![e][o] = "watched"]
      BY <1>6, <2>2 DEF OpPoll, TypeOK
    <3> QED BY <1>6, <2>2, <3>1, TaskView DEF OpPoll, Load
  <2> QED BY <1>6, <2>1, <2>2 DEF OpPoll, EndTask
<1>7. CASE OpProgress(e, o)
  <2>1. ViewOf(e)'
    BY <1>7 DEF OpProgress, Commit, FreshView, ViewOf, Flying, TypeOK, drive, Expired
  <2> QED BY <1>7, <2>1, ViewFrame DEF OpProgress, Commit, drive, TypeOK
<1>8. CASE ResumedReturn(e, o)
  BY <1>8, ReleaseView, LoopView DEF ResumedReturn, Conclude
<1>9. CASE ResumedStop(e, o) \/ ResumedRaise(e, o)
  BY <1>9, ReleaseView DEF ResumedStop, ResumedRaise
<1> QED BY <1>1, <1>2, <1>3, <1>4, <1>5, <1>6, <1>7, <1>8, <1>9 DEF OpStep

\* Every step keeps FreshView.
LEMMA ViewStep ==
  ASSUME TypeOK, Idle, FreshView, [Next]_vars
  PROVE  FreshView'
<1>0. ASSUME UNCHANGED <<drive, view>>
      PROVE  FreshView'
  BY <1>0 DEF FreshView, ViewOf, Flying, drive
<1>1. CASE WorkerTick \/ WorkerNext
  BY <1>1, ExecuteRunView DEF WorkerTick, WorkerNext
<1>2. ASSUME NEW e \in Executors, RoundEnd(e)
      PROVE  FreshView'
  BY <1>2, ReleaseView, LoopView DEF RoundEnd, Conclude
<1>3. ASSUME NEW e \in Executors, NEW o \in Ops, OpStep(e, o)
      PROVE  FreshView'
  BY <1>3, OpStepView
<1>4. ASSUME NEW r \in Runs, Request(r)
      PROVE  FreshView'
  <2>1. CASE UNCHANGED <<drive, view>>
    BY <1>0, <2>1
  <2>2. ASSUME NEW e \in Resumers, NEW o \in Ops, Resume(e, r, o)
        PROVE  FreshView'
    <3>1. e \in Executors /\ \A p \in Ops : task[e][p] = "none"
      BY <2>2, Constants DEF Resume, Idle
    <3>2. task'[e][o] = "resumed" /\ \A p \in Ops : p # o => task'[e][p] = "none"
      BY <2>2, <3>1 DEF Resume, TypeOK
    <3>3. ViewOf(e)'
      BY <3>2 DEF ViewOf, Flying, InFlight
    <3> QED BY <2>2, <3>3, ViewFrame DEF Resume, Commit, TypeOK
  <2> QED BY <1>4, <2>1, <2>2 DEF Request, Enqueue, Cancel, ExpirePause, ResumeRejected
<1>5. ASSUME NEW S \in SUBSET Runs, Restart(S)
      PROVE  FreshView'
  BY <1>5 DEF Restart, FreshView, ViewOf, NoTask, Expired
<1>6. CASE UNCHANGED vars
  BY <1>0, <1>6 DEF vars, drive
<1> QED BY <1>1, <1>2, <1>3, <1>4, <1>5, <1>6 DEF Next, Serve

---------------------------------------------------------------------------
(* A requested cancel is not overruled.                                    *)

Stopping == {"cancel_requested", "cancelled", "failed"}

\* The tables keep a cancel, and so does what they make of it.
LEMMA CancelTable ==
  /\ MarkRunning("cancel_requested") = "cancel_requested"
  /\ MarkWaiting("cancel_requested") = "cancel_requested"
  /\ MarkFinished("cancel_requested") = "cancel_requested"
  /\ RequestCancel("cancel_requested") = "cancel_requested"
  /\ MarkCancelled("cancel_requested") = "cancelled"
  /\ MarkFailed("cancel_requested") = "failed"
  BY DEF MarkRunning, MarkWaiting, MarkFinished, RequestCancel, MarkCancelled, MarkFailed, Unless, TerminalRun

\* Writing over a cancel: with the cancel in view, or nothing but a failure,
\* or a status that already is what the session believes.
LEMMA WriteOverCancel ==
  ASSUME TypeOK, NEW r \in Runs, NEW q \in Runs, run[r] = "cancel_requested", NEW loaded, NEW new,
         Write(q, loaded, new), q = r => new \in Stopping \/ new = loaded
  PROVE  run'[r] \in Stopping
  BY DEF Write, TypeOK, Stopping

\* The end of an execution writes over a cancel only a cancellation or a
\* failure.
LEMMA ConcludeOverCancel ==
  ASSUME TypeOK, NEW r \in Runs, NEW e \in Executors, NEW q \in Runs, run[r] = "cancel_requested",
         NEW s, NEW outcome, Conclude(e, q, s, outcome),
         \/ outcome \in {"cancelled", "error"}
         \/ outcome = "success" /\ (q = r => s = "cancel_requested")
         \/ outcome = "waiting" /\ (q = r => MarkWaiting(s) = s)
  PROVE  run'[r] \in Stopping
<1>1. CASE outcome = "cancelled"
  <2>1. Ended(e, "cancelled", "cancel_requested") \in Stopping
    BY CancelTable DEF Ended, Stopping
  <2>2. Write(q, run[q], Ended(e, outcome, run[q]))
    BY <1>1 DEF Conclude
  <2> QED BY <1>1, <2>1, <2>2, WriteOverCancel
<1>2. CASE outcome = "error"
  <2>1. Write(q, s, Ended(e, "error", s))
    BY <1>2 DEF Conclude
  <2>2. Ended(e, "error", s) \in {MarkFailed(s), s}
    BY DEF Ended
  <2>3. MarkFailed(s) \in {"failed", s}
    BY DEF MarkFailed, Unless
  <2> QED BY <2>1, <2>2, <2>3, WriteOverCancel DEF Stopping
<1>3. CASE outcome = "success"
  <2>1. Write(q, s, Ended(e, "success", s)) /\ (q = r => s = "cancel_requested")
    BY <1>3 DEF Conclude
  <2>2. Ended(e, "success", "cancel_requested") = "cancel_requested"
    BY CancelTable DEF Ended
  <2> QED BY <2>1, <2>2, WriteOverCancel DEF Stopping
<1>4. CASE outcome = "waiting"
  <2>1. Write(q, s, Ended(e, "waiting", s)) /\ (q = r => MarkWaiting(s) = s)
    BY <1>4 DEF Conclude
  <2>2. Ended(e, "waiting", s) = MarkWaiting(s)
    BY DEF Ended
  <2> QED BY <2>1, <2>2, WriteOverCancel
<1> QED BY <1>1, <1>2, <1>3, <1>4

\* A pass of the loop that has not overlooked the cancel neither.
LEMMA LoopOverCancel ==
  ASSUME TypeOK, NEW r \in Runs, NEW e \in Executors, NEW q \in Runs, run[r] = "cancel_requested",
         NEW s, NEW k, Loop(e, q, s, k), q = r => s = "cancel_requested"
  PROVE  run'[r] \in Stopping
<1>1. CASE UNCHANGED run
  BY <1>1 DEF Stopping
<1>2. CASE Conclude(e, q, s, "success")
  BY <1>2, ConcludeOverCancel
<1>3. CASE Conclude(e, q, s, "error")
  BY <1>3, ConcludeOverCancel
<1> QED BY <1>1, <1>2, <1>3 DEF Loop

\* The end of a round decides on the status its checkpoint read.
LEMMA RoundEndOverCancel ==
  ASSUME TypeOK, Idle, FreshView, NEW r \in Runs, run[r] = "cancel_requested", NEW e \in Executors, RoundEnd(e)
  PROVE  run'[r] \in Stopping
<1> DEFINE stops == {o \in Ops : task[e][o] \in {"error", "cancelled", "waiting"}}
           k == [o \in Ops |-> IF task[e][o] = "ok" THEN "success" ELSE known[e][o]]
<1>1. cur[e] \in Runs /\ ~Flying(e)
  BY DEF RoundEnd, TypeOK, Flying
<1>2. cur[e] = r /\ Read(e) # "cancel_requested" => view[e] # Expired /\ Read(e) = view[e]
  BY DEF Read
<1>3. CASE Read(e) = "cancel_requested" /\ Conclude(e, cur[e], Read(e), "cancelled")
  BY <1>1, <1>3, ConcludeOverCancel
<1>4. CASE /\ Read(e) # "cancel_requested"
           /\ \E o \in stops : Conclude(e, cur[e], Read(e), IF task[e][o] = "waiting" THEN "waiting" ELSE "error")
  <2>1. PICK o \in stops : Conclude(e, cur[e], Read(e), IF task[e][o] = "waiting" THEN "waiting" ELSE "error")
    BY <1>4
  <2>2. CASE task[e][o] = "waiting"
    <3>1. cur[e] = r => view[e] \notin {"absent", "queued", "running"}
      BY <1>1, <2>2 DEF FreshView, ViewOf
    <3>2. cur[e] = r => Read(e) \in TerminalRun \cup {"waiting"}
      BY <1>1, <1>2, <1>4, <3>1 DEF TypeOK, RunStates, TerminalRun, ActiveRun
    <3>3. cur[e] = r => MarkWaiting(Read(e)) = Read(e)
      BY <3>2 DEF MarkWaiting, Unless
    <3> QED BY <1>1, <2>1, <2>2, <3>3, ConcludeOverCancel
  <2>3. CASE task[e][o] # "waiting"
    BY <1>1, <2>1, <2>3, ConcludeOverCancel
  <2> QED BY <2>2, <2>3
<1>5. CASE Read(e) # "cancel_requested" /\ stops = {} /\ Loop(e, cur[e], Read(e), k)
  <2>1. cur[e] # r
    BY <1>1, <1>2, <1>5, Constants DEF FreshView, ViewOf
  <2> HIDE DEF k
  <2> QED BY <1>1, <1>5, <2>1, LoopOverCancel
<1> QED BY <1>3, <1>4, <1>5 DEF RoundEnd

\* No step overrules a cancel.
LEMMA CancelStep ==
  ASSUME TypeOK, Idle, FreshView, [Next]_vars, NEW r \in Runs, run[r] = "cancel_requested"
  PROVE  run'[r] \in Stopping
<1>0. ASSUME UNCHANGED run PROVE run'[r] \in Stopping
  BY <1>0 DEF Stopping
<1>1. ASSUME NEW q \in Runs, NEW new, run' = [run EXCEPT ![q] = new], q = r => new \in Stopping
      PROVE  run'[r] \in Stopping
  BY <1>1 DEF TypeOK, Stopping
<1>2. ASSUME NEW q \in Runs, ExecuteRun(q) PROVE run'[r] \in Stopping
  <2>1. q = r => MarkRunning(run[q]) \in Stopping /\ MarkCancelled(MarkRunning(run[q])) \in Stopping
    BY CancelTable DEF Stopping
  <2> QED BY <1>1, <1>2, <2>1 DEF ExecuteRun
<1>3. ASSUME NEW e \in Executors, RoundEnd(e) PROVE run'[r] \in Stopping
  BY <1>3, RoundEndOverCancel
<1>4. ASSUME NEW e \in Executors, NEW o \in Ops, OpStep(e, o) PROVE run'[r] \in Stopping
  <2>1. CASE OpStart(e, o) \/ OpReturn(e, o) \/ OpFailed(e, o) \/ OpRetry(e, o)
             \/ OpPoll(e, o) \/ OpProgress(e, o) \/ ResumedRaise(e, o)
    BY <1>0, <2>1 DEF OpStart, OpReturn, OpFailed, OpRetry, OpPoll, OpProgress, ResumedRaise
  <2>2. CASE OpPause(e, o) \/ ResumedStop(e, o)
    <3>1. cur[e] \in Runs
      BY <2>2, TaskHasRun DEF OpPause, ResumedStop, InBody
    <3>2. cur[e] = r => MarkWaiting(run[cur[e]]) \in Stopping /\ MarkFailed(run[cur[e]]) \in Stopping
      BY CancelTable DEF Stopping
    <3> QED BY <1>1, <2>2, <3>1, <3>2 DEF OpPause, ResumedStop
  <2>3. CASE ResumedReturn(e, o)
    <3>1. cur[e] \in Runs
      BY <2>3, TaskHasRun DEF ResumedReturn
    <3>2. CASE Conclude(e, cur[e], run[cur[e]], "cancelled")
      BY <3>1, <3>2, ConcludeOverCancel
    <3>3. CASE Loop(e, cur[e], run[cur[e]], Context(rows'[cur[e]], o))
      BY <3>1, <3>3, LoopOverCancel
    <3> QED BY <2>3, <3>2, <3>3 DEF ResumedReturn
  <2> QED BY <1>4, <2>1, <2>2, <2>3 DEF OpStep
<1>5. ASSUME NEW q \in Runs, Request(q) PROVE run'[r] \in Stopping
  <2>1. q = r => /\ run[q] # "absent"
                 /\ RequestCancel(run[q]) \in Stopping
                 /\ MarkCancelled(run[q]) \in Stopping
                 /\ MarkFailed(run[q]) \in Stopping
                 /\ MarkRunning(run[q]) \in Stopping
                 /\ MarkFailed(MarkRunning(run[q])) \in Stopping
    BY CancelTable DEF Stopping
  <2>2. CASE Enqueue(q) \/ Cancel(q)
    BY <1>1, <2>1, <2>2 DEF Enqueue, Cancel
  <2>3. CASE \E o \in Ops : ExpirePause(q, o) \/ ResumeRejected(q, o)
    BY <1>1, <2>1, <2>3 DEF ExpirePause, ResumeRejected
  <2>4. CASE \E e \in Resumers, o \in Ops : Resume(e, q, o)
    BY <1>1, <2>1, <2>4 DEF Resume
  <2> QED BY <1>5, <2>2, <2>3, <2>4 DEF Request
<1>6. ASSUME NEW S \in SUBSET Runs, Restart(S) PROVE run'[r] \in Stopping
  BY <1>6 DEF Restart, Recovered, Stopping
<1>7. CASE WorkerTick \/ WorkerNext
  BY <1>2, <1>7 DEF WorkerTick, WorkerNext
<1>8. CASE UNCHANGED vars
  BY <1>0, <1>8 DEF vars
<1> QED BY <1>3, <1>4, <1>5, <1>6, <1>7, <1>8 DEF Next, Serve

---------------------------------------------------------------------------
(* Every task in its body has a running operation run of its own.          *)

\* Nobody's row but row i of run r changes.
OnlyRow(r, i) ==
  \A q \in Runs : \A j \in DOMAIN rows[q] :
    j \in DOMAIN rows'[q] /\ (~(q = r /\ j = i) => rows'[q][j] = rows[q][j])

\* No task begins a body, and none that stays in one has its row changed.
BusyFrame ==
  \A e \in Executors, o \in Ops : Busy(e, o)' =>
    /\ Busy(e, o) /\ cur'[e] = cur[e] /\ rowOf'[e][o] = rowOf[e][o]
    /\ rowOf[e][o] \in DOMAIN rows'[cur[e]]
    /\ rows'[cur[e]][rowOf[e][o]] = rows[cur[e]][rowOf[e][o]]

\* OwnRow only depends on the bodies and on their rows.
LEMMA BusyFrameOwn ==
  ASSUME OwnRow, BusyFrame
  PROVE  OwnRow'
  BY DEF OwnRow, BusyFrame

\* A body belongs to a run.
LEMMA BusyRun ==
  ASSUME TypeOK, Idle, NEW e \in Executors, NEW o \in Ops, Busy(e, o)
  PROVE  cur[e] \in Runs
  BY TaskHasRun DEF Busy

\* Row x of run r changes hands only if no busy task holds it.
LEMMA OtherRows ==
  ASSUME TypeOK, Idle, OwnRow, NEW r \in Runs, NEW i, OnlyRow(r, i),
         \A e \in Executors, o \in Ops : Busy(e, o)' =>
            /\ Busy(e, o) /\ cur'[e] = cur[e] /\ rowOf'[e][o] = rowOf[e][o]
            /\ ~(cur[e] = r /\ rowOf[e][o] = i)
  PROVE  OwnRow'
<1>1. BusyFrame
  BY BusyRun DEF OnlyRow, OwnRow, BusyFrame
<1> QED BY <1>1, BusyFrameOwn

\* SetRow is a change of one row.
LEMMA SetRowOnly ==
  ASSUME TypeOK, NEW r \in Runs, NEW i, NEW s \in OpStates, SetRow(r, i, s)
  PROVE  OnlyRow(r, i)
<1>1. rows \in [Runs -> Seq(Row)]
  BY DEF TypeOK
<1>2. /\ \A q \in Runs : DOMAIN rows'[q] = DOMAIN rows[q]
      /\ \A q \in Runs : \A j \in DOMAIN rows[q] :
           rows'[q][j] = IF q = r /\ j = i THEN [op |-> rows[q][j].op, status |-> s] ELSE rows[q][j]
  BY <1>1, SetRowFrame
<1> QED BY <1>2 DEF OnlyRow

\* The task of (e, o) leaves its body and its row ends or waits; the other
\* tasks of e stay as they are or are dropped.
LEMMA LeaveBody ==
  ASSUME TypeOK, Idle, OwnRow, NEW e \in Executors, NEW o \in Ops, Busy(e, o),
         OnlyRow(cur[e], rowOf[e][o]), ~Busy(e, o)',
         \A f \in Executors, p \in Ops : Busy(f, p)' =>
            Busy(f, p) /\ cur'[f] = cur[f] /\ rowOf'[f][p] = rowOf[f][p]
  PROVE  OwnRow'
<1>1. ASSUME NEW f \in Executors, NEW p \in Ops, Busy(f, p)', cur[f] = cur[e], rowOf[f][p] = rowOf[e][o]
      PROVE  FALSE
  <2>1. Busy(f, p)
    BY <1>1
  <2>2. p = o
    BY <1>1, <2>1 DEF OwnRow
  <2>3. f = e
    BY <1>1, <2>1, <2>2 DEF OwnRow
  <2> QED BY <1>1, <2>2, <2>3
<1>2. cur[e] \in Runs
  BY BusyRun
<1> QED BY <1>1, <1>2, OtherRows

\* Release and Schedule end the bodies of e and leave the others alone.
Drops(e) ==
  Release(e) \/ \E r \in Runs, s \in RunStates \cup {"absent"}, k \in [Ops -> {"unknown", "success", "failed"}] :
                  Schedule(e, r, s, k)

\* After either, e has no body, and the other coroutines have theirs.
LEMMA DropBodies ==
  ASSUME TypeOK, NEW e \in Executors,
         Drops(e)
  PROVE  /\ \A o \in Ops : ~Busy(e, o)'
         /\ \A f \in Executors, p \in Ops : Busy(f, p)' =>
              Busy(f, p) /\ cur'[f] = cur[f] /\ rowOf'[f][p] = rowOf[f][p]
<1>1. \A o \in Ops : task'[e][o] \in {"none", "scheduled"}
  BY DEF Drops, Release, Schedule, NoTask, TypeOK
<1>2. \A f \in Executors : f # e => task'[f] = task[f] /\ cur'[f] = cur[f] /\ rowOf'[f] = rowOf[f]
  BY DEF Drops, Release, Schedule, TypeOK
<1> QED BY <1>1, <1>2 DEF Busy

\* So both keep OwnRow when no row changes.
LEMMA DropBodiesOwn ==
  ASSUME TypeOK, Idle, OwnRow, UNCHANGED rows, NEW e \in Executors,
         Drops(e)
  PROVE  OwnRow'
<1>1. \A f \in Executors, p \in Ops : Busy(f, p)' =>
        Busy(f, p) /\ cur'[f] = cur[f] /\ rowOf'[f][p] = rowOf[f][p]
  BY DropBodies
<1>2. BusyFrame
  BY <1>1 DEF BusyFrame, OwnRow
<1> QED BY <1>2, BusyFrameOwn

\* A step of an operation changes no row but its own.
LEMMA OpStepOwn ==
  ASSUME TypeOK, Idle, OwnRow, NEW e \in Executors, NEW o \in Ops, OpStep(e, o)
  PROVE  OwnRow'
<1>1. ASSUME NEW t, t \notin {"watched", "retrying", "resumed"}, task' = [task EXCEPT ![e][o] = t],
             UNCHANGED <<cur, rowOf>>
      PROVE  /\ ~Busy(e, o)'
             /\ \A f \in Executors, p \in Ops : Busy(f, p)' =>
                  Busy(f, p) /\ cur'[f] = cur[f] /\ rowOf'[f][p] = rowOf[f][p]
  BY <1>1 DEF TypeOK, Busy
<1>2. ASSUME UNCHANGED rows,
             \A f \in Executors, p \in Ops : Busy(f, p)' =>
               Busy(f, p) /\ cur'[f] = cur[f] /\ rowOf'[f][p] = rowOf[f][p]
      PROVE  OwnRow'
  <2>1. BusyFrame
    BY <1>2 DEF BusyFrame, OwnRow
  <2> QED BY <2>1, BusyFrameOwn
<1>3. ASSUME NEW t, t \in {"ok", "error", "cancelled", "waiting"}, NEW s \in OpStates, EndTask(e, o, t, s),
             UNCHANGED <<cur, rowOf>>, Busy(e, o)
      PROVE  OwnRow'
  <2>1. OnlyRow(cur[e], rowOf[e][o])
    BY <1>3, BusyRun, SetRowOnly DEF EndTask
  <2> QED BY <1>1, <1>3, <2>1, LeaveBody DEF EndTask
<1>4. CASE OpStart(e, o)
  <2>0. cur[e] \in Runs
    BY <1>4, TaskHasRun DEF OpStart
  <2>1. CASE (task' = [task EXCEPT ![e][o] = "cancelled"] \/ task' = [task EXCEPT ![e][o] = "error"])
             /\ UNCHANGED <<rows, rowOf>>
    BY <1>1, <1>2, <1>4, <2>1 DEF OpStart
  <2>2. ASSUME NEW s \in {"running", "failed"},
               rows' = [rows EXCEPT ![cur[e]] = Append(@, [op |-> o, status |-> s])],
               task' = [task EXCEPT ![e][o] = IF s = "running" THEN "watched" ELSE "error"],
               rowOf' = [rowOf EXCEPT ![e][o] = Len(rows[cur[e]]) + 1]
        PROVE  OwnRow'
    <3>1. [op |-> o, status |-> s] \in Row
      BY DEF Row, OpStates, TerminalOp
    <3>2. /\ \A q \in Runs : DOMAIN rows'[q] = IF q = cur[e] THEN 1 .. Len(rows[cur[e]]) + 1 ELSE DOMAIN rows[q]
          /\ \A q \in Runs : \A j \in DOMAIN rows[q] : rows'[q][j] = rows[q][j]
          /\ rows'[cur[e]][Len(rows[cur[e]]) + 1] = [op |-> o, status |-> s]
          /\ \A q \in Runs : DOMAIN rows[q] = 1 .. Len(rows[q]) /\ Len(rows[q]) \in Nat
      BY <2>0, <2>2, <3>1, AppendFacts
    <3>3. cur' = cur /\ rowOf'[e][o] = Len(rows[cur[e]]) + 1
      BY <1>4, <2>2 DEF OpStart, TypeOK
    <3>4. ASSUME NEW f \in Executors, NEW p \in Ops, ~(f = e /\ p = o), Busy(f, p)'
          PROVE  /\ Busy(f, p) /\ rowOf'[f][p] = rowOf[f][p] /\ cur[f] \in Runs
                 /\ rowOf[f][p] \in DOMAIN rows[cur[f]]
                 /\ rows[cur[f]][rowOf[f][p]].op = p
                 /\ rows[cur[f]][rowOf[f][p]].status = "running"
                 /\ rowOf[f][p] \in DOMAIN rows'[cur[f]]
                 /\ rows'[cur[f]][rowOf[f][p]] = rows[cur[f]][rowOf[f][p]]
      <4>1. task'[f][p] = task[f][p] /\ rowOf'[f][p] = rowOf[f][p]
        BY <2>2, <3>4 DEF TypeOK
      <4>2. Busy(f, p)
        BY <3>4, <4>1 DEF Busy
      <4>3. cur[f] \in Runs
        BY <4>2, BusyRun
      <4>4. rowOf[f][p] \in DOMAIN rows[cur[f]] /\ rows[cur[f]][rowOf[f][p]].op = p
            /\ rows[cur[f]][rowOf[f][p]].status = "running"
        BY <4>2 DEF OwnRow
      <4> QED BY <3>2, <4>1, <4>2, <4>3, <4>4
    <3>5. Busy(e, o)' => s = "running"
      BY <2>2 DEF Busy, TypeOK
    <3>6. ASSUME NEW f \in Executors, NEW p \in Ops, Busy(f, p)'
          PROVE  /\ rowOf'[f][p] \in DOMAIN rows'[cur'[f]]
                 /\ rows'[cur'[f]][rowOf'[f][p]].op = p
                 /\ rows'[cur'[f]][rowOf'[f][p]].status = "running"
      <4>1. CASE f = e /\ p = o
        BY <2>0, <3>2, <3>3, <3>5, <3>6, <4>1
      <4>2. CASE ~(f = e /\ p = o)
        BY <3>3, <3>4, <3>6, <4>2
      <4> QED BY <4>1, <4>2
    <3>7. ASSUME NEW f \in Executors, NEW g \in Executors, NEW p \in Ops, Busy(f, p)', Busy(g, p)',
                 cur'[f] = cur'[g], rowOf'[f][p] = rowOf'[g][p]
          PROVE  f = g
      <4>1. CASE p # o \/ (f # e /\ g # e)
        BY <3>3, <3>4, <3>7, <4>1 DEF OwnRow
      <4>2. CASE p = o /\ f = e /\ g # e
        BY <2>0, <3>2, <3>3, <3>4, <3>7, <4>2
      <4>3. CASE p = o /\ g = e /\ f # e
        BY <2>0, <3>2, <3>3, <3>4, <3>7, <4>3
      <4> QED BY <4>1, <4>2, <4>3
    <3> QED BY <3>6, <3>7 DEF OwnRow
  <2> QED BY <1>4, <2>1, <2>2 DEF OpStart
<1>5. CASE OpReturn(e, o)
  <2>1. CASE task' = [task EXCEPT ![e][o] = "cancelled"] /\ UNCHANGED rows
    <3>1. "cancelled" \notin {"watched", "retrying", "resumed"} /\ UNCHANGED <<cur, rowOf>>
      BY <1>5 DEF OpReturn
    <3>2. \A f \in Executors, p \in Ops : Busy(f, p)' =>
            Busy(f, p) /\ cur'[f] = cur[f] /\ rowOf'[f][p] = rowOf[f][p]
      BY <1>1, <2>1, <3>1
    <3> QED BY <1>2, <2>1, <3>2
  <2>2. CASE EndTask(e, o, "ok", OpFinish(OpRow(e, o)))
    BY <1>3, <1>5, <2>2, OpTable DEF OpReturn, InBody, Busy
  <2> QED BY <1>5, <2>1, <2>2 DEF OpReturn
<1>6. CASE OpFailed(e, o)
  BY <1>3, <1>6, OpTable DEF OpFailed, InBody, Busy
<1>7. CASE OpRetry(e, o)
  <2>1. \A f \in Executors, p \in Ops : Busy(f, p)' =>
          Busy(f, p) /\ cur'[f] = cur[f] /\ rowOf'[f][p] = rowOf[f][p]
    BY <1>7 DEF OpRetry, TypeOK, Busy
  <2> QED BY <1>2, <1>7, <2>1 DEF OpRetry
<1>8. CASE OpPause(e, o)
  BY <1>3, <1>8, OpTable DEF OpPause, InBody, Busy
<1>9. CASE OpPoll(e, o)
  <2>1. CASE EndTask(e, o, "cancelled", OpCancel(OpRow(e, o)))
    BY <1>3, <1>9, <2>1, OpTable DEF OpPoll, InBody, Busy
  <2>2. CASE UNCHANGED <<rows, task>>
    BY <1>2, <1>9, <2>2 DEF OpPoll, Busy
  <2> QED BY <1>9, <2>1, <2>2 DEF OpPoll
<1>10. CASE OpProgress(e, o)
  BY <1>2, <1>10 DEF OpProgress, drive, Busy
<1>11. CASE ResumedReturn(e, o) \/ ResumedStop(e, o) \/ ResumedRaise(e, o)
  <2>1. Busy(e, o) /\ cur[e] \in Runs /\ run[cur[e]] \in RunStates \cup {"absent"}
    BY <1>11, TaskHasRun DEF ResumedReturn, ResumedStop, ResumedRaise, Busy, TypeOK
  <2>2. Drops(e)
    BY <1>11, <2>1, ContextType DEF Drops, ResumedReturn, ResumedStop, ResumedRaise, Conclude, Loop
  <2>3. CASE UNCHANGED rows
    BY <2>2, <2>3, DropBodiesOwn
  <2>4. ASSUME NEW s \in OpStates, SetRow(cur[e], rowOf[e][o], s) PROVE OwnRow'
    <3>1. OnlyRow(cur[e], rowOf[e][o])
      BY <2>1, <2>4, SetRowOnly
    <3>2. ~Busy(e, o)' /\ \A f \in Executors, p \in Ops : Busy(f, p)' =>
                             Busy(f, p) /\ cur'[f] = cur[f] /\ rowOf'[f][p] = rowOf[f][p]
      BY <2>2, DropBodies
    <3> QED BY <2>1, <3>1, <3>2, LeaveBody
  <2> QED BY <1>11, <2>3, <2>4, OpTable DEF ResumedReturn, ResumedStop, ResumedRaise
<1> QED BY <1>4, <1>5, <1>6, <1>7, <1>8, <1>9, <1>10, <1>11 DEF OpStep

\* No step gives a row in use to another body: a resume takes a paused one.
LEMMA OwnStep ==
  ASSUME TypeOK, Idle, OwnRow, [Next]_vars
  PROVE  OwnRow'
<1>0. ASSUME UNCHANGED <<rows, cur, task, rowOf>> PROVE OwnRow'
  BY <1>0 DEF OwnRow, Busy
<1>1. ASSUME NEW e \in Executors, NEW o \in Ops, OpStep(e, o) PROVE OwnRow'
  BY <1>1, OpStepOwn
<1>2. ASSUME NEW e \in Executors, RoundEnd(e) PROVE OwnRow'
  <2> DEFINE k == [o \in Ops |-> IF task[e][o] = "ok" THEN "success" ELSE known[e][o]]
  <2>1. cur[e] \in Runs
    BY <1>2 DEF RoundEnd, TypeOK
  <2>2. Read(e) \in RunStates \cup {"absent"} /\ k \in [Ops -> {"unknown", "success", "failed"}]
    BY <2>1, ReadType DEF TypeOK
  <2>3. Release(e) \/ Schedule(e, cur[e], Read(e), k)
    BY <1>2 DEF RoundEnd, Conclude, Loop
  <2>4. Drops(e)
    <3> HIDE DEF k
    <3> QED BY <2>1, <2>2, <2>3 DEF Drops
  <2> QED BY <1>2, <2>4, DropBodiesOwn DEF RoundEnd
<1>3. ASSUME NEW r \in Runs, ExecuteRun(r), UNCHANGED rows PROVE OwnRow'
  <2>1. MarkRunning(run[r]) \in RunStates \cup {"absent"} /\ Unknown \in [Ops -> {"unknown", "success", "failed"}]
    BY RunTable DEF TypeOK, Unknown
  <2>2. UNCHANGED drive \/ Drops(Worker)
    BY <1>3, <2>1 DEF ExecuteRun, Drops
  <2> QED BY <1>0, <1>3, <2>2, DropBodiesOwn, Constants DEF drive
<1>4. ASSUME NEW r \in Runs, NEW i \in DOMAIN rows[r], NEW s \in OpStates, SetRow(r, i, s),
             rows[r][i].status \in WaitingOp
      PROVE  /\ OnlyRow(r, i)
             /\ \A e \in Executors, o \in Ops : Busy(e, o) => ~(cur[e] = r /\ rowOf[e][o] = i)
  <2>1. rows[r][i].status # "running"
    BY <1>4 DEF WaitingOp
  <2> QED BY <1>4, <2>1, SetRowOnly DEF OwnRow
<1>5. ASSUME NEW r \in Runs, NEW i \in DOMAIN rows[r], NEW s \in OpStates, SetRow(r, i, s),
             rows[r][i].status \in WaitingOp, UNCHANGED drive
      PROVE  OwnRow'
  <2>1. \A e \in Executors, o \in Ops : Busy(e, o)' =>
          Busy(e, o) /\ cur'[e] = cur[e] /\ rowOf'[e][o] = rowOf[e][o]
    BY <1>5 DEF drive, Busy
  <2> QED BY <1>4, <1>5, <2>1, OtherRows
<1>6. ASSUME NEW r \in Runs, NEW o \in Ops, NEW e \in Resumers, Resume(e, r, o) PROVE OwnRow'
  <2>0. e \in Executors /\ \A p \in Ops : task[e][p] = "none"
    BY <1>6, Constants DEF Resume, Idle
  <2>1. PICK i \in DOMAIN rows[r] : /\ rows[r][i].op = o /\ rows[r][i].status \in WaitingOp
                                   /\ SetRow(r, i, OpRunning(rows[r][i].status))
                                   /\ rowOf' = [rowOf EXCEPT ![e][o] = i]
    BY <1>6 DEF Resume, IsPause, Paused
  <2>2. OpRunning(rows[r][i].status) = "running"
    BY <2>1 DEF OpRunning, Unless, WaitingOp, TerminalOp
  <2>3. rows \in [Runs -> Seq(Row)] /\ "running" \in OpStates
    BY DEF TypeOK, OpStates
  <2>4. /\ OnlyRow(r, i)
        /\ \A f \in Executors, p \in Ops : Busy(f, p) => ~(cur[f] = r /\ rowOf[f][p] = i)
    BY <1>4, <2>1, <2>2, <2>3
  <2>5. i \in DOMAIN rows'[r] /\ rows'[r][i].op = o /\ rows'[r][i].status = "running"
    <3>1. SetRow(r, i, "running")
      BY <2>1, <2>2
    <3>2. /\ DOMAIN rows'[r] = DOMAIN rows[r]
          /\ rows'[r][i] = [op |-> rows[r][i].op, status |-> "running"]
      BY <2>3, <3>1, SetRowFrame
    <3> QED BY <2>1, <3>2
  <2>6. cur'[e] = r /\ task'[e][o] = "resumed" /\ rowOf'[e][o] = i
    BY <1>6, <2>0, <2>1 DEF Resume, TypeOK
  <2>7. ASSUME NEW f \in Executors, NEW p \in Ops, Busy(f, p)', ~(f = e /\ p = o)
        PROVE  /\ Busy(f, p) /\ f # e /\ cur'[f] = cur[f] /\ rowOf'[f][p] = rowOf[f][p] /\ cur[f] \in Runs
               /\ rowOf[f][p] \in DOMAIN rows[cur[f]]
               /\ rows[cur[f]][rowOf[f][p]].op = p
               /\ rows[cur[f]][rowOf[f][p]].status = "running"
               /\ rowOf[f][p] \in DOMAIN rows'[cur[f]]
               /\ rows'[cur[f]][rowOf[f][p]] = rows[cur[f]][rowOf[f][p]]
    <3>1. task'[f][p] = task[f][p] /\ rowOf'[f][p] = rowOf[f][p]
      BY <1>6, <2>1, <2>7 DEF Resume, TypeOK
    <3>2. Busy(f, p)
      BY <2>7, <3>1 DEF Busy
    <3>3. f # e
      BY <2>0, <3>2 DEF Busy
    <3>4. cur'[f] = cur[f] /\ cur[f] \in Runs
      BY <1>6, <3>2, <3>3, BusyRun DEF Resume, TypeOK
    <3>5. rowOf[f][p] \in DOMAIN rows[cur[f]] /\ rows[cur[f]][rowOf[f][p]].op = p
          /\ rows[cur[f]][rowOf[f][p]].status = "running"
      BY <3>2 DEF OwnRow
    <3>6. ~(cur[f] = r /\ rowOf[f][p] = i)
      BY <2>4, <3>2
    <3> QED BY <2>4, <3>1, <3>2, <3>3, <3>4, <3>5, <3>6 DEF OnlyRow
  <2>8. ASSUME NEW f \in Executors, NEW p \in Ops, Busy(f, p)'
        PROVE  /\ rowOf'[f][p] \in DOMAIN rows'[cur'[f]]
               /\ rows'[cur'[f]][rowOf'[f][p]].op = p
               /\ rows'[cur'[f]][rowOf'[f][p]].status = "running"
    <3>1. CASE f = e /\ p = o
      BY <2>5, <2>6, <3>1
    <3>2. CASE ~(f = e /\ p = o)
      BY <2>7, <2>8, <3>2
    <3> QED BY <3>1, <3>2
  <2>9. ASSUME NEW f \in Executors, NEW g \in Executors, NEW p \in Ops, Busy(f, p)', Busy(g, p)',
               cur'[f] = cur'[g], rowOf'[f][p] = rowOf'[g][p]
        PROVE  f = g
    <3>1. CASE p # o \/ (f # e /\ g # e)
      BY <2>7, <2>9, <3>1 DEF OwnRow
    <3>2. CASE p = o /\ f = e /\ g # e
      BY <2>4, <2>6, <2>7, <2>9, <3>2
    <3>3. CASE p = o /\ g = e /\ f # e
      BY <2>4, <2>6, <2>7, <2>9, <3>3
    <3> QED BY <3>1, <3>2, <3>3
  <2> QED BY <2>8, <2>9 DEF OwnRow
<1>7. ASSUME NEW r \in Runs, Request(r) PROVE OwnRow'
  <2>1. CASE Enqueue(r) \/ Cancel(r)
    BY <1>0, <2>1 DEF Enqueue, Cancel, drive
  <2>2. ASSUME NEW o \in Ops, ExpirePause(r, o) PROVE OwnRow'
    BY <1>5, <2>2, OpTable DEF ExpirePause, IsPause, Paused
  <2>3. ASSUME NEW o \in Ops, ResumeRejected(r, o) PROVE OwnRow'
    BY <1>5, <2>3, OpTable DEF ResumeRejected, IsPause, Paused
  <2> QED BY <1>6, <1>7, <2>1, <2>2, <2>3 DEF Request
<1>8. ASSUME NEW S \in SUBSET Runs, Restart(S) PROVE OwnRow'
  BY <1>8 DEF Restart, NoTask, OwnRow, Busy
<1>9. CASE WorkerTick \/ WorkerNext
  BY <1>3, <1>9 DEF WorkerTick, WorkerNext
<1>10. CASE UNCHANGED vars
  BY <1>0, <1>10 DEF vars
<1> QED BY <1>1, <1>2, <1>7, <1>8, <1>9, <1>10 DEF Next, Serve

---------------------------------------------------------------------------
(* What a context calls successful did succeed.                            *)

\* What has succeeded stays so.
LEMMA SucceededStays ==
  ASSUME TypeOK, Keeps, NEW r \in Runs, NEW o, Succeeded(r, o)
  PROVE  Succeeded(r, o)'
<1>1. "success" \in TerminalOp
  BY DEF TerminalOp
<1> QED BY <1>1 DEF Keeps, Succeeded

\* A step of one coroutine leaves the contexts of the others true.
LEMMA KnownFrame ==
  ASSUME TypeOK, Keeps, KnownIsTrue, NEW e,
         \A f \in Executors : f # e => task'[f] = task[f] /\ known'[f] = known[f] /\ cur'[f] = cur[f],
         e \in Executors => KnownOf(e)'
  PROVE  KnownIsTrue'
<1>1. ASSUME NEW f \in Executors, f # e PROVE KnownOf(f)'
  <2>1. KnownOf(f) /\ task'[f] = task[f] /\ known'[f] = known[f] /\ cur'[f] = cur[f]
    BY <1>1 DEF KnownIsTrue
  <2> QED BY <2>1, SucceededStays DEF KnownOf
<1> QED BY <1>1 DEF KnownIsTrue

\* A coroutine without a run claims nothing.
LEMMA ReleaseKnown ==
  ASSUME TypeOK, Keeps, KnownIsTrue, NEW e \in Executors, Release(e)
  PROVE  KnownIsTrue'
<1>1. KnownOf(e)'
  BY DEF Release, KnownOf, NoTask, Unknown, TypeOK
<1> QED BY <1>1, KnownFrame DEF Release, TypeOK

\* A round scheduled from a true context leaves a true context.
LEMMA ScheduleKnown ==
  ASSUME TypeOK, Keeps, KnownIsTrue, NEW e \in Executors, NEW r \in Runs, NEW s,
         NEW k \in [Ops -> {"unknown", "success", "failed"}], Schedule(e, r, s, k),
         \A o \in Ops : k[o] = "success" => Succeeded(r, o)'
  PROVE  KnownIsTrue'
<1>1. /\ cur'[e] = r /\ known'[e] = k
      /\ task'[e] = [o \in Ops |-> IF o \in Ready(k) THEN "scheduled" ELSE "none"]
  BY DEF Schedule, TypeOK
<1>2. KnownOf(e)'
  BY <1>1 DEF KnownOf, Ready
<1> QED BY <1>2, KnownFrame DEF Schedule, TypeOK

\* So does a pass of the loop.
LEMMA LoopKnown ==
  ASSUME TypeOK, Keeps, KnownIsTrue, NEW e \in Executors, NEW r \in Runs, NEW s,
         NEW k \in [Ops -> {"unknown", "success", "failed"}], Loop(e, r, s, k),
         \A o \in Ops : k[o] = "success" => Succeeded(r, o)'
  PROVE  KnownIsTrue'
  BY ReleaseKnown, ScheduleKnown DEF Loop, Conclude

\* The context of a resume is read off the operation runs.
LEMMA ContextKnown ==
  ASSUME NEW seq, NEW x, NEW o \in Ops, Context(seq, x)[o] = "success", o # x
  PROVE  \E i \in DOMAIN seq : seq[i].op = o /\ seq[i].status = "success"
<1>1. LastIs(seq, o, "success")
  <2>1. CASE ~LastIs(seq, o, "success") /\ LastIs(seq, o, "failed")
    BY <2>1 DEF Context
  <2>2. CASE ~LastIs(seq, o, "success") /\ ~LastIs(seq, o, "failed")
    BY <2>2 DEF Context
  <2> QED BY <2>1, <2>2
<1> QED BY <1>1 DEF LastIs, Settled

\* A task that moves on leaves the context true, if it is not called ok
\* without success.
LEMMA TaskKnown ==
  ASSUME TypeOK, Keeps, KnownIsTrue, NEW e \in Executors, NEW o \in Ops, NEW t, t # "scheduled",
         task' = [task EXCEPT ![e][o] = t], UNCHANGED <<cur, known>>, cur[e] \in Runs,
         t = "ok" => Succeeded(cur[e], o)'
  PROVE  KnownIsTrue'
<1>1. task'[e][o] = t /\ \A p \in Ops : p # o => task'[e][p] = task[e][p]
  BY DEF TypeOK
<1>2. KnownOf(e)
  BY DEF KnownIsTrue
<1>3. KnownOf(e)'
  BY <1>1, <1>2, SucceededStays DEF KnownOf
<1> QED BY <1>3, KnownFrame DEF TypeOK

\* Every step of an operation leaves the contexts true.
LEMMA OpStepKnown ==
  ASSUME TypeOK, Idle, OwnRow, Keeps, KnownIsTrue, NEW e \in Executors, NEW o \in Ops, OpStep(e, o)
  PROVE  KnownIsTrue'
<1>0. ASSUME UNCHANGED <<cur, known, task>> PROVE KnownIsTrue'
  <2>1. KnownOf(e)
    BY DEF KnownIsTrue
  <2>2. KnownOf(e)'
    BY <1>0, <2>1, SucceededStays DEF KnownOf
  <2> QED BY <1>0, <2>2, KnownFrame
<1>1. CASE OpStart(e, o)
  <2>1. PICK t \in {"watched", "error", "cancelled"} : task' = [task EXCEPT ![e][o] = t]
    BY <1>1 DEF OpStart
  <2>2. t # "ok" /\ t # "scheduled" /\ cur[e] \in Runs /\ UNCHANGED <<cur, known>>
    BY <1>1, TaskHasRun DEF OpStart
  <2> QED BY <2>1, <2>2, TaskKnown
<1>2. CASE OpFailed(e, o) \/ OpRetry(e, o) \/ OpPause(e, o)
  <2>1. PICK t \in {"error", "retrying", "waiting"} : task' = [task EXCEPT ![e][o] = t]
    BY <1>2 DEF OpFailed, OpRetry, OpPause, EndTask
  <2>2. t # "ok" /\ t # "scheduled" /\ cur[e] \in Runs /\ UNCHANGED <<cur, known>>
    BY <1>2, TaskHasRun DEF OpFailed, OpRetry, OpPause, InBody
  <2> QED BY <2>1, <2>2, TaskKnown
<1>3. CASE OpReturn(e, o)
  <2>1. cur[e] \in Runs /\ UNCHANGED <<cur, known>>
    BY <1>3, TaskHasRun DEF OpReturn, InBody
  <2>2. CASE task' = [task EXCEPT ![e][o] = "cancelled"]
    <3>1. PICK t \in {"cancelled"} : task' = [task EXCEPT ![e][o] = t]
      BY <2>2
    <3>2. t # "ok" /\ t # "scheduled"
      BY <3>1
    <3> QED BY <2>1, <3>1, <3>2, TaskKnown
  <2>3. CASE EndTask(e, o, "ok", OpFinish(OpRow(e, o)))
    <3> DEFINE i == rowOf[e][o]
    <3>1. i \in DOMAIN rows[cur[e]] /\ rows[cur[e]][i].op = o /\ rows[cur[e]][i].status = "running"
      BY <1>3 DEF OpReturn, InBody, OwnRow, Busy
    <3>2. OpFinish(OpRow(e, o)) = "success"
      BY <3>1 DEF OpFinish, OpRow, Unless, TerminalOp
    <3>3. SetRow(cur[e], i, "success") /\ task' = [task EXCEPT ![e][o] = "ok"]
      BY <2>3, <3>2 DEF EndTask
    <3>4. rows \in [Runs -> Seq(Row)] /\ "success" \in OpStates
      BY DEF TypeOK, OpStates, TerminalOp
    <3>5. /\ DOMAIN rows'[cur[e]] = DOMAIN rows[cur[e]]
          /\ rows'[cur[e]][i] = [op |-> rows[cur[e]][i].op, status |-> "success"]
      BY <2>1, <3>1, <3>3, <3>4, SetRowFrame
    <3>6. Succeeded(cur[e], o)'
      BY <2>1, <3>1, <3>5 DEF Succeeded
    <3> QED BY <2>1, <3>3, <3>6, TaskKnown
  <2> QED BY <1>3, <2>2, <2>3 DEF OpReturn
<1>4. CASE OpPoll(e, o)
  <2>1. CASE task' = [task EXCEPT ![e][o] = "cancelled"]
    <3>1. PICK t \in {"cancelled"} : task' = [task EXCEPT ![e][o] = t]
      BY <2>1
    <3>2. t # "ok" /\ t # "scheduled" /\ cur[e] \in Runs /\ UNCHANGED <<cur, known>>
      BY <1>4, <3>1, TaskHasRun DEF OpPoll, InBody
    <3> QED BY <3>1, <3>2, TaskKnown
  <2>2. CASE UNCHANGED task
    BY <1>0, <1>4, <2>2 DEF OpPoll
  <2> QED BY <1>4, <2>1, <2>2 DEF OpPoll, EndTask
<1>5. CASE OpProgress(e, o)
  BY <1>0, <1>5 DEF OpProgress, drive
<1>6. CASE ResumedReturn(e, o)
  <2>1. cur[e] \in Runs
    BY <1>6, TaskHasRun DEF ResumedReturn
  <2>2. CASE Release(e)
    BY <2>2, ReleaseKnown
  <2>3. CASE Loop(e, cur[e], run[cur[e]], Context(rows'[cur[e]], o))
    <3>1. PICK r \in Runs : r = cur[e]
      BY <2>1
    <3>2. Loop(e, r, run[r], Context(rows'[r], o))
      BY <2>3, <3>1
    <3>3. Succeeded(r, o)'
      <4> DEFINE i == rowOf[e][o]
      <4>1. i \in DOMAIN rows[r] /\ rows[r][i].op = o /\ rows[r][i].status = "running"
        BY <1>6, <3>1 DEF ResumedReturn, OwnRow, Busy
      <4>2. OpFinish(OpRow(e, o)) = "success" /\ "success" \in OpStates
        BY <3>1, <4>1 DEF OpFinish, OpRow, Unless, TerminalOp, OpStates
      <4>3. SetRow(r, i, "success") /\ rows \in [Runs -> Seq(Row)]
        BY <1>6, <3>1, <4>2 DEF ResumedReturn, TypeOK
      <4>4. /\ DOMAIN rows'[r] = DOMAIN rows[r]
            /\ rows'[r][i] = [op |-> rows[r][i].op, status |-> "success"]
        BY <4>1, <4>2, <4>3, SetRowFrame
      <4> QED BY <4>1, <4>4 DEF Succeeded
    <3>4. \A p \in Ops : Context(rows'[r], o)[p] = "success" => Succeeded(r, p)'
      BY <3>3, ContextKnown DEF Succeeded
    <3> QED BY <3>2, <3>4, ContextType, LoopKnown
  <2> QED BY <1>6, <2>2, <2>3 DEF ResumedReturn, Conclude
<1>7. CASE ResumedStop(e, o) \/ ResumedRaise(e, o)
  BY <1>7, ReleaseKnown DEF ResumedStop, ResumedRaise
<1> QED BY <1>1, <1>2, <1>3, <1>4, <1>5, <1>6, <1>7 DEF OpStep

\* Every step leaves the contexts true.
LEMMA KnownStep ==
  ASSUME TypeOK, Idle, OwnRow, KnownIsTrue, [Next]_vars
  PROVE  KnownIsTrue'
<1> USE StepKeeps
<1>0. ASSUME UNCHANGED drive PROVE KnownIsTrue'
  <2>1. \A e \in Executors : KnownOf(e)'
    BY <1>0, SucceededStays DEF drive, KnownOf, KnownIsTrue
  <2> QED BY <2>1 DEF KnownIsTrue
<1>1. ASSUME NEW e \in Executors, NEW o \in Ops, OpStep(e, o) PROVE KnownIsTrue'
  BY <1>1, OpStepKnown
<1>2. ASSUME NEW e \in Executors, RoundEnd(e) PROVE KnownIsTrue'
  <2> DEFINE k == [o \in Ops |-> IF task[e][o] = "ok" THEN "success" ELSE known[e][o]]
  <2>1. PICK r \in Runs : r = cur[e]
    BY <1>2 DEF RoundEnd, TypeOK
  <2>2. k \in [Ops -> {"unknown", "success", "failed"}]
    BY DEF TypeOK
  <2>3. \A o \in Ops : k[o] = "success" => Succeeded(r, o)
    BY <2>1 DEF KnownIsTrue, KnownOf
  <2>4. \A o \in Ops : k[o] = "success" => Succeeded(r, o)'
    BY <2>3, SucceededStays
  <2>5. Release(e) \/ Loop(e, r, Read(e), k)
    BY <1>2, <2>1 DEF RoundEnd, Conclude
  <2> HIDE DEF k
  <2> QED BY <2>2, <2>4, <2>5, ReleaseKnown, LoopKnown
<1>3. ASSUME NEW r \in Runs, ExecuteRun(r) PROVE KnownIsTrue'
  <2>1. Unknown \in [Ops -> {"unknown", "success", "failed"}] /\ \A o \in Ops : Unknown[o] # "success"
    BY DEF Unknown
  <2>2. CASE Schedule(Worker, r, MarkRunning(run[r]), Unknown)
    BY <2>1, <2>2, ScheduleKnown, Constants
  <2> QED BY <1>0, <1>3, <2>2 DEF ExecuteRun
<1>4. ASSUME NEW r \in Runs, Request(r) PROVE KnownIsTrue'
  <2>1. CASE UNCHANGED drive
    BY <1>0, <2>1
  <2>2. ASSUME NEW e \in Resumers, NEW o \in Ops, Resume(e, r, o) PROVE KnownIsTrue'
    <3>1. e \in Executors /\ cur[e] = None /\ \A p \in Ops : task[e][p] = "none"
      BY <2>2, Constants DEF Resume, Idle
    <3>2. \A p \in Ops : task'[e][p] \in {"none", "resumed"} /\ known'[e] = known[e]
      BY <2>2, <3>1 DEF Resume, TypeOK
    <3>3. \A p \in Ops : known[e][p] # "success"
      BY <3>1, Constants DEF KnownIsTrue, KnownOf
    <3>4. KnownOf(e)'
      BY <3>2, <3>3 DEF KnownOf
    <3> QED BY <2>2, <3>4, KnownFrame DEF Resume, TypeOK
  <2> QED BY <1>4, <2>1, <2>2 DEF Request, Enqueue, Cancel, ExpirePause, ResumeRejected, drive
<1>5. ASSUME NEW S \in SUBSET Runs, Restart(S) PROVE KnownIsTrue'
  BY <1>5 DEF Restart, NoTask, Unknown, KnownIsTrue, KnownOf
<1>6. CASE WorkerTick \/ WorkerNext
  BY <1>3, <1>6 DEF WorkerTick, WorkerNext
<1>7. CASE UNCHANGED vars
  BY <1>0, <1>7 DEF vars, drive
<1> QED BY <1>1, <1>2, <1>4, <1>5, <1>6, <1>7 DEF Next, Serve

---------------------------------------------------------------------------
(* Dependencies come first.                                                *)

\* Only the start of an operation appends an operation run.
LEMMA StepRows ==
  ASSUME TypeOK, Idle, [Next]_vars
  PROVE  \/ \A r \in Runs : DOMAIN rows'[r] = DOMAIN rows[r]
         \/ \E e \in Executors, o \in Ops, s \in {"running", "failed"} :
              /\ task[e][o] = "scheduled" /\ cur[e] \in Runs
              /\ rows' = [rows EXCEPT ![cur[e]] = Append(@, [op |-> o, status |-> s])]
<1> DEFINE Same == \A r \in Runs : DOMAIN rows'[r] = DOMAIN rows[r]
<1>0. ASSUME NEW r \in Runs, NEW i, NEW s \in OpStates, SetRow(r, i, s) PROVE Same
  BY <1>0, SetRowFrame DEF TypeOK
<1>1. ASSUME NEW e \in Executors, NEW o \in Ops, OpStep(e, o), ~OpStart(e, o) PROVE Same
  <2>1. CASE UNCHANGED rows
    BY <2>1
  <2>2. CASE task[e][o] # "none"
    <3>1. cur[e] \in Runs
      BY <2>2, TaskHasRun
    <3> HIDE DEF Same
    <3> QED BY <1>0, <1>1, <2>1, <3>1, OpTable
        DEF OpStep, OpReturn, OpFailed, OpRetry, OpPause, OpPoll, OpProgress, EndTask,
            ResumedReturn, ResumedStop, ResumedRaise
  <2>3. task[e][o] # "none" \/ UNCHANGED rows
    BY <1>1 DEF OpStep, OpReturn, OpFailed, OpRetry, OpPause, OpPoll, OpProgress, InBody,
                ResumedReturn, ResumedStop, ResumedRaise
  <2> QED BY <2>1, <2>2, <2>3
<1>2. ASSUME NEW e \in Executors, NEW o \in Ops, OpStart(e, o)
      PROVE  Same \/ \E s \in {"running", "failed"} :
                       /\ task[e][o] = "scheduled" /\ cur[e] \in Runs
                       /\ rows' = [rows EXCEPT ![cur[e]] = Append(@, [op |-> o, status |-> s])]
  BY <1>2, TaskHasRun DEF OpStart
<1>3. ASSUME NEW r \in Runs, Request(r) PROVE Same
  <2>1. CASE UNCHANGED rows
    BY <2>1
  <2>2. ASSUME NEW o \in Ops, ExpirePause(r, o) \/ ResumeRejected(r, o) PROVE Same
    <3> HIDE DEF Same
    <3> QED BY <1>0, <2>2, OpTable DEF ExpirePause, ResumeRejected
  <2>3. ASSUME NEW e \in Resumers, NEW o \in Ops, Resume(e, r, o) PROVE Same
    <3> HIDE DEF Same
    <3> QED BY <1>0, <2>3, OpTable DEF Resume
  <2> QED BY <1>3, <2>1, <2>2, <2>3 DEF Request, Enqueue, Cancel
<1>4. ASSUME NEW S \in SUBSET Runs, Restart(S) PROVE Same
  BY <1>4 DEF Restart
<1>5. ASSUME WorkerTick \/ WorkerNext \/ UNCHANGED vars \/ \E e \in Executors : RoundEnd(e)
      PROVE  Same
  BY <1>5 DEF WorkerTick, WorkerNext, RoundEnd, vars
<1> HIDE DEF Same
<1>6. Same \/ \E e \in Executors, o \in Ops : OpStart(e, o)
  <2>1. \/ \E e \in Executors, o \in Ops : OpStep(e, o)
        \/ \E r \in Runs : Request(r)
        \/ \E S \in SUBSET Runs : Restart(S)
        \/ WorkerTick \/ WorkerNext \/ UNCHANGED vars \/ \E e \in Executors : RoundEnd(e)
    BY DEF Next, Serve
  <2>2. CASE \E e \in Executors, o \in Ops : OpStep(e, o)
    BY <1>1, <2>2
  <2>3. CASE \E r \in Runs : Request(r)
    BY <1>3, <2>3
  <2>4. CASE \E S \in SUBSET Runs : Restart(S)
    BY <1>4, <2>4
  <2> QED BY <1>5, <2>1, <2>2, <2>3, <2>4
<1>7. Same \/ \E e \in Executors, o \in Ops, s \in {"running", "failed"} :
        /\ task[e][o] = "scheduled" /\ cur[e] \in Runs
        /\ rows' = [rows EXCEPT ![cur[e]] = Append(@, [op |-> o, status |-> s])]
  BY <1>2, <1>6
<1> QED BY <1>7 DEF Same

\* Every step keeps DependenciesFirst.
LEMMA DependencyStep ==
  ASSUME TypeOK, Idle, KnownIsTrue, DependenciesFirst, [Next]_vars
  PROVE  DependenciesFirst'
<1>1. Keeps
  BY StepKeeps
<1>2. ASSUME NEW r \in Runs, NEW i \in DOMAIN rows[r], NEW d \in Deps[rows'[r][i].op]
      PROVE  \E j \in 1 .. i - 1 : rows'[r][j].op = d /\ rows'[r][j].status = "success"
  <2>1. rows'[r][i].op = rows[r][i].op
    BY <1>1 DEF Keeps
  <2>2. PICK j \in 1 .. i - 1 : rows[r][j].op = d /\ rows[r][j].status = "success"
    BY <2>1 DEF DependenciesFirst
  <2>3. j \in DOMAIN rows[r]
    BY DEF TypeOK
  <2>4. rows'[r][j] = rows[r][j]
    BY <1>1, <2>2, <2>3 DEF Keeps, TerminalOp
  <2> QED BY <2>2, <2>4
<1>3. CASE \A r \in Runs : DOMAIN rows'[r] = DOMAIN rows[r]
  BY <1>2, <1>3 DEF DependenciesFirst
<1>4. ASSUME NEW e \in Executors, NEW o \in Ops, NEW s \in {"running", "failed"},
             task[e][o] = "scheduled", cur[e] \in Runs,
             rows' = [rows EXCEPT ![cur[e]] = Append(@, [op |-> o, status |-> s])]
      PROVE  DependenciesFirst'
  <2>0. [op |-> o, status |-> s] \in Row
    BY DEF Row, OpStates, TerminalOp
  <2>1. /\ \A q \in Runs : DOMAIN rows'[q] = IF q = cur[e] THEN 1 .. Len(rows[cur[e]]) + 1 ELSE DOMAIN rows[q]
        /\ \A q \in Runs : \A j \in DOMAIN rows[q] : rows'[q][j] = rows[q][j]
        /\ rows'[cur[e]][Len(rows[cur[e]]) + 1] = [op |-> o, status |-> s]
        /\ \A q \in Runs : DOMAIN rows[q] = 1 .. Len(rows[q]) /\ Len(rows[q]) \in Nat
    BY <1>4, <2>0, AppendFacts
  <2>2. ASSUME NEW r \in Runs, NEW i \in DOMAIN rows'[r], NEW d \in Deps[rows'[r][i].op]
        PROVE  \E j \in 1 .. i - 1 : rows'[r][j].op = d /\ rows'[r][j].status = "success"
    <3>1. CASE i \in DOMAIN rows[r]
      BY <1>2, <3>1
    <3>2. CASE i \notin DOMAIN rows[r]
      <4>1. r = cur[e] /\ i = Len(rows[r]) + 1 /\ rows'[r][i].op = o
        BY <2>1, <3>2
      <4>2. d \in Deps[o] /\ d \in Ops
        BY <4>1, Constants
      <4>3. Succeeded(r, d)
        BY <1>4, <4>1, <4>2 DEF KnownIsTrue, KnownOf
      <4>4. PICK j \in DOMAIN rows[r] : rows[r][j].op = d /\ rows[r][j].status = "success"
        BY <4>3 DEF Succeeded
      <4>5. j \in 1 .. i - 1 /\ rows'[r][j] = rows[r][j]
        BY <2>1, <4>1
      <4> QED BY <4>4, <4>5
    <3> QED BY <3>1, <3>2
  <2> QED BY <2>2 DEF DependenciesFirst
<1> QED BY <1>3, <1>4, StepRows

\* The inductive invariant.
THEOREM Invariant == Spec => []IInv
<1>1. Init => OwnRow /\ KnownIsTrue /\ FreshView /\ DependenciesFirst
  BY DEF Init, OwnRow, KnownIsTrue, KnownOf, FreshView, ViewOf, DependenciesFirst, Busy, NoTask, Unknown
<1>2. TypeOK /\ Idle /\ OwnRow /\ [Next]_vars => OwnRow'
  BY OwnStep
<1>3. TypeOK /\ Idle /\ OwnRow /\ KnownIsTrue /\ [Next]_vars => KnownIsTrue'
  BY KnownStep
<1>4. TypeOK /\ Idle /\ FreshView /\ [Next]_vars => FreshView'
  BY ViewStep
<1>5. TypeOK /\ Idle /\ KnownIsTrue /\ DependenciesFirst /\ [Next]_vars => DependenciesFirst'
  BY DependencyStep
<1> QED BY <1>1, <1>2, <1>3, <1>4, <1>5, TypeCorrect, PTL DEF Spec, IInv

\* An operation gets an operation run only after each of its dependencies
\* has succeeded in that run: whatever the graph, through any number of
\* rounds, pauses, concurrent resumes, expiries and restarts.
THEOREM DependenciesComeFirst == Spec => []DependenciesFirst
<1>1. IInv => DependenciesFirst
  BY DEF IInv
<1> QED BY <1>1, Invariant, PTL

\* A cancel, once accepted, ends in a cancelled or failed run or is never
\* answered: no executor, of the many that may hold an older view of the
\* run, completes it, resumes it or marks it waiting.
THEOREM CancelStands == Spec => CancelNotOverruled
<1>1. IInv /\ [Next]_vars =>
        [\A r \in Runs : run[r] = "cancel_requested" => run'[r] \in {"cancel_requested", "cancelled", "failed"}]_vars
  BY CancelStep DEF Stopping, IInv
<1> QED BY <1>1, Invariant, PTL DEF Spec, CancelNotOverruled

---------------------------------------------------------------------------
(* Workflows in which a pause is alone in its round.                       *)

\* Every other operation is before the one that may pause or after it.
DependencyClosed(S) == \A o \in S : Deps[o] \subseteq S
Before(a, b) == \A S \in SUBSET Ops : b \in S /\ DependencyClosed(S) => a \in S
PausesAlone == \A w \in WaitOps, o \in Ops : Before(w, o) \/ Before(o, w)

\* A coroutine whose operation has paused has only its round to end.
Lame(e) == \E o \in Ops : task[e][o] = "waiting"
Live(e) == cur[e] \in Runs /\ ~Lame(e)
Pauses(r) == {i \in DOMAIN rows[r] : rows[r][i].status \in WaitingOp}
Resuming(e) == \E o \in Ops : task[e][o] = "resumed"

\* In a round with an operation that may pause there is no other.
RoundOf(e) ==
  /\ \A w \in WaitOps : task[e][w] # "none" => \A o \in Ops \ {w} : task[e][o] = "none"
  /\ \A o \in Ops : task[e][o] \in {"waiting", "resumed"} => o \in WaitOps

\* A context holds success of nothing without that of its dependencies, and knows
\* every operation that has an operation run.
ContextOf(e) ==
  /\ \A o \in Ops :
       /\ known[e][o] # "failed"
       /\ known[e][o] = "success" => \A d \in Deps[o] : known[e][d] = "success"
       /\ task[e][o] \notin {"none", "resumed"} =>
            known[e][o] = "unknown" /\ \A d \in Deps[o] : known[e][d] = "success"
  /\ Live(e) /\ ~Resuming(e) => \A i \in DOMAIN rows[cur[e]] :
       LET o == rows[cur[e]][i].op IN known[e][o] = "success" \/ task[e][o] \notin {"none", "scheduled"}

\* A run is driven by one coroutine, beside those that have paused.
DriverOf(e) ==
  /\ Live(e) =>
       /\ run[cur[e]] \in {"running", "cancel_requested"}
       /\ Pauses(cur[e]) = {}
       /\ \A f \in Executors : f # e /\ cur[f] = cur[e] => Lame(f)
  /\ Lame(e) =>
       \/ view[e] = "waiting"
       \/ /\ view[e] = "cancel_requested"
          /\ run[cur[e]] \in TerminalRun \cup {"cancel_requested"}
          /\ \A f \in Executors : cur[f] = cur[e] => Lame(f)

ExecOK(e) == RoundOf(e) /\ ContextOf(e) /\ DriverOf(e)

RunOK(r) ==
  /\ \A i, j \in DOMAIN rows[r] : rows[r][i].op = rows[r][j].op => i = j
  /\ run[r] = "success" =>
       /\ \A o \in Ops : \E i \in DOMAIN rows[r] : rows[r][i].op = o
       /\ \A i \in DOMAIN rows[r] : rows[r][i].status = "success"
  /\ run[r] = "waiting" => Pauses(r) # {}
  /\ \A i \in Pauses(r) : rows[r][i].op \in WaitOps
  /\ run[r] \in {"absent", "queued"} \/ r \in batch => DOMAIN rows[r] = {} /\ \A e \in Executors : cur[e] # r
  /\ r \in batch => run[r] \in {"queued", "cancel_requested"}

AInv == (\A e \in Executors : ExecOK(e)) /\ (\A r \in Runs : RunOK(r))

---------------------------------------------------------------------------
\* In a round with an operation that may pause there is no other: what is ready
\* beside it would be before or after it.
LEMMA ReadyAlone ==
  ASSUME PausesAlone, NEW k \in [Ops -> {"unknown", "success", "failed"}],
         \A o \in Ops : k[o] = "success" => \A d \in Deps[o] : k[d] = "success",
         NEW w \in WaitOps, w \in Ready(k), NEW o \in Ready(k)
  PROVE  o = w
<1>1. w \in Ops /\ o \in Ops /\ k[w] = "unknown" /\ k[o] = "unknown"
  BY DEF Ready, Pending
<1>2. ASSUME NEW a \in Ready(k), NEW b \in Ready(k), Before(a, b)
      PROVE  a = b
  <2> DEFINE S == {x \in Ops : k[x] = "success"} \cup {b}
  <2>1. S \in SUBSET Ops /\ b \in S
    BY DEF Ready, Pending
  <2>2. DependencyClosed(S)
    <3>1. ASSUME NEW x \in S PROVE Deps[x] \subseteq S
      <4>1. Deps[x] \subseteq Ops
        BY <2>1, Constants
      <4>2. \A d \in Deps[x] : k[d] = "success"
        BY DEF Ready, Pending
      <4> QED BY <4>1, <4>2
    <3> QED BY <3>1 DEF DependencyClosed
  <2>3. a \in S
    BY <1>2, <2>1, <2>2 DEF Before
  <2>4. k[a] = "unknown"
    BY DEF Ready, Pending
  <2> QED BY <2>3, <2>4
<1> QED BY <1>1, <1>2 DEF PausesAlone

\* While an operation that may pause has not succeeded, all else that has been
\* executed has: it is before it.
LEMMA OthersSucceeded ==
  ASSUME PausesAlone, TypeOK, DependenciesFirst, NEW r \in Runs, RunOK(r),
         NEW i \in DOMAIN rows[r], rows[r][i].op \in WaitOps, rows[r][i].status # "success",
         NEW j \in DOMAIN rows[r], j # i
  PROVE  rows[r][j].status = "success"
<1> DEFINE w == rows[r][i].op
           o == rows[r][j].op
           S(x) == {y \in Ops : Succeeded(r, y)} \cup {x}
<1>1. w \in Ops /\ o \in Ops /\ w # o
  BY RowShape DEF RunOK
<1>2. \A n \in DOMAIN rows[r] : \A d \in Deps[rows[r][n].op] : Succeeded(r, d)
  <2>1. rows[r] \in Seq(Row)
    BY DEF TypeOK
  <2> QED BY <2>1 DEF DependenciesFirst, Succeeded
<1>3. ASSUME NEW n \in DOMAIN rows[r]
      PROVE  DependencyClosed(S(rows[r][n].op)) /\ S(rows[r][n].op) \in SUBSET Ops /\ rows[r][n].op \in S(rows[r][n].op)
  <2>1. ASSUME NEW x \in S(rows[r][n].op) PROVE Deps[x] \subseteq S(rows[r][n].op)
    <3>1. PICK m \in DOMAIN rows[r] : rows[r][m].op = x
      BY DEF Succeeded
    <3>2. Deps[x] \subseteq Ops
      BY <3>1, RowShape, Constants
    <3> QED BY <1>2, <3>1, <3>2
  <2> QED BY <2>1, RowShape DEF DependencyClosed
<1>4. CASE Before(o, w)
  <2>1. o \in S(w)
    BY <1>3, <1>4 DEF Before
  <2>2. PICK m \in DOMAIN rows[r] : rows[r][m].op = o /\ rows[r][m].status = "success"
    BY <1>1, <2>1 DEF Succeeded
  <2> QED BY <2>2 DEF RunOK
<1>5. CASE Before(w, o)
  <2>1. w \in S(o)
    BY <1>3, <1>5 DEF Before
  <2>2. PICK m \in DOMAIN rows[r] : rows[r][m].op = w /\ rows[r][m].status = "success"
    BY <1>1, <2>1 DEF Succeeded
  <2> QED BY <2>2 DEF RunOK
<1> QED BY <1>1, <1>4, <1>5 DEF PausesAlone

---------------------------------------------------------------------------
\* A step of the coroutine that drives a run.
LEMMA DriverStep ==
  ASSUME TypeOK, Idle, Idle', AInv, NEW e \in Executors, Live(e), NEW r \in Runs, cur[e] = r,
         \A f \in Executors : f # e =>
           cur'[f] = cur[f] /\ known'[f] = known[f] /\ task'[f] = task[f] /\ view'[f] = view[f],
         \A q \in Runs : q # r => run'[q] = run[q] /\ rows'[q] = rows[q],
         batch' = batch, cur'[e] \in {r, None}, ExecOK(e)', RunOK(r)'
  PROVE  AInv'
<1>1. ASSUME NEW f \in Executors, f # e
      PROVE  ExecOK(f)'
  <2>1. ExecOK(f) /\ ExecOK(e)
    BY DEF AInv
  <2>2. RoundOf(f)'
    BY <1>1, <2>1 DEF ExecOK, RoundOf
  <2>3. Lame(f)' <=> Lame(f)
    BY <1>1 DEF Lame
  <2>4. CASE cur[f] = cur[e]
    <3>1. Lame(f) /\ Lame(f)'
      BY <1>1, <2>1, <2>3, <2>4 DEF ExecOK, DriverOf
    <3>2. view[f] = "waiting"
      BY <2>1, <2>4, <3>1 DEF ExecOK, DriverOf, Live
    <3> QED BY <1>1, <2>1, <2>2, <3>1, <3>2 DEF ExecOK, ContextOf, DriverOf, Live
  <2>5. CASE cur[f] # cur[e] /\ cur[f] \in Runs
    <3>1. run'[cur[f]] = run[cur[f]] /\ rows'[cur[f]] = rows[cur[f]] /\ cur'[f] = cur[f] /\ cur'[e] # cur[f]
      BY <1>1, <2>5, Constants
    <3>2. ContextOf(f)'
      BY <1>1, <2>1, <2>3, <2>5, <3>1 DEF ExecOK, ContextOf, Live, Resuming
    <3>3. \A g \in Executors : cur'[g] = cur'[f] => cur[g] = cur[f] /\ (Lame(g) => Lame(g)')
      BY <1>1, <2>5, <3>1 DEF Lame
    <3>4. Pauses(cur[f])' = Pauses(cur[f])
      BY <3>1 DEF Pauses
    <3>5. DriverOf(f)'
      BY <1>1, <2>1, <2>3, <2>5, <3>1, <3>3, <3>4 DEF ExecOK, DriverOf, Live
    <3> QED BY <2>2, <3>2, <3>5 DEF ExecOK
  <2>6. CASE cur[f] \notin Runs
    <3>1. cur[f] = None /\ cur'[f] = None
      BY <1>1, <2>6 DEF TypeOK
    <3>2. ~Live(f)' /\ ~Lame(f)'
      BY <3>1, Constants DEF Live, Lame, Idle
    <3>3. ContextOf(f)
      BY <2>1 DEF ExecOK
    <3>4. ContextOf(f)'
      BY <1>1, <3>2, <3>3 DEF ContextOf
    <3>5. DriverOf(f)'
      BY <3>2 DEF DriverOf
    <3> QED BY <2>2, <3>4, <3>5 DEF ExecOK
  <2> QED BY <2>4, <2>5, <2>6
<1>2. ASSUME NEW q \in Runs, q # r
      PROVE  RunOK(q)'
  <2>1. RunOK(q) /\ run'[q] = run[q] /\ rows'[q] = rows[q]
    BY <1>2 DEF AInv
  <2>2. \A f \in Executors : cur'[f] = q => cur[f] = q
    BY <1>2, Constants
  <2> QED BY <2>1, <2>2 DEF RunOK, Pauses
<1> QED BY <1>1, <1>2 DEF AInv

\* What RunOK asks of a run that a coroutine drives.
LEMMA DrivenRun ==
  ASSUME AInv, NEW e \in Executors, NEW r \in Runs, cur[e] = r, batch' = batch,
         run'[r] \notin {"absent", "queued"},
         \A i, j \in DOMAIN rows'[r] : rows'[r][i].op = rows'[r][j].op => i = j,
         run'[r] = "success" =>
           /\ \A o \in Ops : \E i \in DOMAIN rows'[r] : rows'[r][i].op = o
           /\ \A i \in DOMAIN rows'[r] : rows'[r][i].status = "success",
         run'[r] = "waiting" => \E i \in DOMAIN rows'[r] : rows'[r][i].status \in WaitingOp,
         \A i \in DOMAIN rows'[r] : rows'[r][i].status \in WaitingOp => rows'[r][i].op \in WaitOps
  PROVE  RunOK(r)'
<1>1. r \notin batch
  BY DEF AInv, RunOK
<1> QED BY <1>1 DEF RunOK, Pauses

\* A coroutine that has let its run go.
LEMMA ReleasedExec ==
  ASSUME TypeOK, NEW e \in Executors, Release(e)
  PROVE  ExecOK(e)'
<1>1. cur'[e] = None /\ task'[e] = NoTask /\ known'[e] = Unknown
  BY DEF Release, TypeOK
<1>2. ~Live(e)' /\ ~Lame(e)'
  BY <1>1, Constants DEF Live, Lame, NoTask
<1>3. RoundOf(e)'
  BY <1>1, ConstantsAssumption DEF RoundOf, NoTask
<1>4. ContextOf(e)'
  BY <1>1, <1>2 DEF ContextOf, NoTask, Unknown
<1> QED BY <1>2, <1>3, <1>4 DEF ExecOK, DriverOf

\* A round scheduled from a context that knows all that was executed.
LEMMA ScheduledExec ==
  ASSUME PausesAlone, TypeOK, NEW e \in Executors, NEW r \in Runs, NEW s,
         NEW k \in [Ops -> {"unknown", "success", "failed"}], Schedule(e, r, s, k),
         \A o \in Ops : k[o] # "failed" /\ (k[o] = "success" => \A d \in Deps[o] : k[d] = "success"),
         \A i \in DOMAIN rows'[r] : k[rows'[r][i].op] = "success" /\ rows'[r][i].status \notin WaitingOp,
         run'[r] \in {"running", "cancel_requested"},
         \A f \in Executors : f # e /\ cur[f] = r => Lame(f)
  PROVE  ExecOK(e)'
<1>1. /\ cur'[e] = r /\ known'[e] = k
      /\ task'[e] = [o \in Ops |-> IF o \in Ready(k) THEN "scheduled" ELSE "none"]
      /\ \A f \in Executors : f # e => cur'[f] = cur[f] /\ task'[f] = task[f]
  BY DEF Schedule, TypeOK
<1>2. RoundOf(e)'
  <2>1. ASSUME NEW w \in WaitOps, task'[e][w] # "none", NEW o \in Ops \ {w}
        PROVE  task'[e][o] = "none"
    <3>1. w \in Ready(k)
      BY <1>1, <2>1, ConstantsAssumption
    <3>2. o \notin Ready(k)
      BY <2>1, <3>1, ReadyAlone
    <3> QED BY <1>1, <3>2
  <2> QED BY <1>1, <2>1 DEF RoundOf
<1>3. ContextOf(e)'
  <2>1. \A o \in Ops : task'[e][o] # "none" => k[o] = "unknown" /\ \A d \in Deps[o] : k[d] = "success"
    BY <1>1 DEF Ready, Pending
  <2> QED BY <1>1, <2>1 DEF ContextOf
<1>4. ~Lame(e)'
  BY <1>1 DEF Lame
<1>5. \A f \in Executors : f # e /\ cur'[f] = r => Lame(f)'
  BY <1>1 DEF Lame
<1>6. DriverOf(e)'
  BY <1>1, <1>4, <1>5 DEF DriverOf, Pauses
<1> QED BY <1>2, <1>3, <1>6 DEF ExecOK

\* An operation of the round moves on, other than by a pause.
LEMMA TaskExec ==
  ASSUME TypeOK, AInv, NEW e \in Executors, Live(e), NEW r \in Runs, cur[e] = r,
         NEW o \in Ops, task[e][o] \notin {"none", "resumed"}, NEW t,
         t \notin {"none", "scheduled", "waiting", "resumed"},
         task' = [task EXCEPT ![e][o] = t], UNCHANGED <<cur, known>>,
         run'[r] \in {"running", "cancel_requested"},
         \A i \in DOMAIN rows'[r] :
           /\ rows'[r][i].status \notin WaitingOp
           /\ rows'[r][i].op = o \/ \E j \in DOMAIN rows[r] : rows[r][j].op = rows'[r][i].op
  PROVE  ExecOK(e)'
<1>0. ExecOK(e)
  BY DEF AInv
<1>1. task'[e] = [task[e] EXCEPT ![o] = t] /\ \A f \in Executors : f # e => task'[f] = task[f]
  BY DEF TypeOK
<1>2. task'[e][o] = t /\ \A p \in Ops : p # o => task'[e][p] = task[e][p]
  BY <1>1 DEF TypeOK
<1>3. RoundOf(e)'
  BY <1>0, <1>2 DEF ExecOK, RoundOf
<1>4. ~Lame(e)' /\ Live(e)'
  BY <1>2 DEF Lame, Live
<1>5. Resuming(e)' <=> Resuming(e)
  BY <1>2 DEF Resuming
<1>6. ContextOf(e)'
  <2>1. \A p \in Ops :
       /\ known'[e][p] # "failed"
       /\ known'[e][p] = "success" => \A d \in Deps[p] : known'[e][d] = "success"
       /\ task'[e][p] \notin {"none", "resumed"} =>
            known'[e][p] = "unknown" /\ \A d \in Deps[p] : known'[e][d] = "success"
    BY <1>0, <1>2 DEF ExecOK, ContextOf
  <2>2. ASSUME ~Resuming(e)', NEW i \in DOMAIN rows'[r], rows'[r][i].op # o
        PROVE  known'[e][rows'[r][i].op] = "success" \/ task'[e][rows'[r][i].op] \notin {"none", "scheduled"}
    <3>1. PICK j \in DOMAIN rows[r] : rows[r][j].op = rows'[r][i].op
      BY <2>2
    <3>2. rows[r][j].op \in Ops
      BY RowShape
    <3> QED BY <1>0, <1>2, <1>5, <2>2, <3>1, <3>2 DEF ExecOK, ContextOf
  <2> QED BY <1>2, <1>4, <2>1, <2>2 DEF ContextOf
<1>7. \A f \in Executors : f # e /\ cur'[f] = cur'[e] => Lame(f)'
  BY <1>0, <1>1 DEF ExecOK, DriverOf, Lame
<1>8. DriverOf(e)'
  BY <1>4, <1>7 DEF DriverOf, Pauses
<1> QED BY <1>3, <1>6, <1>8 DEF ExecOK

---------------------------------------------------------------------------
(* The steps of the driver's operations.                                   *)

\* What moves in a round is driven: a coroutine whose operation has paused has
\* nothing else in its round.
LEMMA FlyingLive ==
  ASSUME TypeOK, Idle, AInv, NEW e \in Executors, NEW o \in Ops, task[e][o] \notin {"none", "waiting"}
  PROVE  Live(e)
<1>1. cur[e] \in Runs
  BY DEF TypeOK, Idle
<1>2. RoundOf(e)
  BY DEF AInv, ExecOK
<1>3. ASSUME NEW w \in Ops, task[e][w] = "waiting" PROVE FALSE
  BY <1>2, <1>3 DEF RoundOf
<1> QED BY <1>1, <1>3 DEF Live, Lame

\* The operation of a pause, or of a resume, is alone in its round.
LEMMA AloneInRound ==
  ASSUME AInv, NEW e \in Executors, NEW w \in WaitOps, task[e][w] # "none", NEW o \in Ops, o # w
  PROVE  task[e][o] = "none"
  BY DEF AInv, ExecOK, RoundOf

\* The driven run keeps what RunOK asks when one of its rows is closed.
LEMMA ClosedRow ==
  ASSUME TypeOK, AInv, NEW e \in Executors, NEW r \in Runs, cur[e] = r, Live(e), UNCHANGED <<run, batch>>,
         NEW i, NEW s \in OpStates \ WaitingOp, SetRow(r, i, s)
  PROVE  /\ RunOK(r)'
         /\ \A q \in Runs : q # r => rows'[q] = rows[q]
         /\ \A j \in DOMAIN rows'[r] :
              /\ rows'[r][j].status \notin WaitingOp
              /\ \E n \in DOMAIN rows[r] : rows[r][n].op = rows'[r][j].op
<1>0. ExecOK(e) /\ RunOK(r)
  BY DEF AInv
<1>1. run[r] \in {"running", "cancel_requested"} /\ Pauses(r) = {}
  BY <1>0 DEF ExecOK, DriverOf
<1>2. /\ DOMAIN rows'[r] = DOMAIN rows[r]
      /\ \A j \in DOMAIN rows[r] :
           rows'[r][j] = IF j = i THEN [op |-> rows[r][j].op, status |-> s] ELSE rows[r][j]
  BY SetRowFrame DEF TypeOK
<1>3. \A j \in DOMAIN rows[r] :
        rows'[r][j].op = rows[r][j].op /\ rows'[r][j].status = IF j = i THEN s ELSE rows[r][j].status
  <2> TAKE j \in DOMAIN rows[r]
  <2>1. CASE j = i
    <3>1. rows'[r][j] = [op |-> rows[r][j].op, status |-> s]
      BY <1>2, <2>1
    <3> QED BY <2>1, <3>1
  <2>2. CASE j # i
    <3>1. rows'[r][j] = rows[r][j]
      BY <1>2, <2>2
    <3> QED BY <2>2, <3>1
  <2> QED BY <2>1, <2>2
<1>4. \A j \in DOMAIN rows[r] : rows'[r][j].status \notin WaitingOp
  BY <1>1, <1>3 DEF Pauses
<1>5. RunOK(r)'
  <2>1. \A a, b \in DOMAIN rows'[r] : rows'[r][a].op = rows'[r][b].op => a = b
    BY <1>0, <1>2, <1>3 DEF RunOK
  <2>2. run'[r] \notin {"absent", "queued", "success", "waiting"}
    BY <1>1
  <2> QED BY <1>2, <1>4, <2>1, <2>2, DrivenRun
<1>6. \A q \in Runs : q # r => rows'[q] = rows[q]
  BY DEF SetRow, TypeOK
<1> QED BY <1>2, <1>3, <1>4, <1>5, <1>6

\* The operation a coroutine starts has no operation run yet.
LEMMA Fresh ==
  ASSUME TypeOK, AInv, NEW e \in Executors, NEW r \in Runs, cur[e] = r, Live(e),
         NEW o \in Ops, task[e][o] = "scheduled", NEW i \in DOMAIN rows[r]
  PROVE  rows[r][i].op # o
<1>1. ExecOK(e)
  BY DEF AInv
<1>2. ~Resuming(e)
  <2>1. ASSUME NEW w \in Ops, task[e][w] = "resumed" PROVE FALSE
    BY <1>1, <2>1 DEF ExecOK, RoundOf
  <2> QED BY <2>1 DEF Resuming
<1>3. known[e][o] = "unknown"
  BY <1>1 DEF ExecOK, ContextOf
<1> QED BY <1>1, <1>2, <1>3 DEF ExecOK, ContextOf

\* A task starts.
LEMMA StartStep ==
  ASSUME TypeOK, Idle, Idle', AInv, NEW e \in Executors, NEW o \in Ops, OpStart(e, o)
  PROVE  AInv'
<1>1. Live(e) /\ task[e][o] = "scheduled" /\ UNCHANGED <<run, batch, cur, known>>
  BY FlyingLive DEF OpStart
<1>2. PICK r \in Runs : cur[e] = r
  BY <1>1 DEF Live
<1>3. ExecOK(e) /\ RunOK(r)
  BY DEF AInv
<1>4. run[r] \in {"running", "cancel_requested"} /\ Pauses(r) = {}
  BY <1>1, <1>2, <1>3 DEF ExecOK, DriverOf
<1>5. \A f \in Executors : f # e => task'[f] = task[f] /\ view'[f] = view[f]
  BY DEF OpStart, TypeOK, Load, Commit
<1>6. CASE UNCHANGED rows
  <2>1. PICK t \in {"cancelled", "error", "watched"} : task' = [task EXCEPT ![e][o] = t]
    BY DEF OpStart
  <2>2. t \notin {"none", "scheduled", "waiting", "resumed"}
    BY <2>1
  <2>3. \A i \in DOMAIN rows'[r] :
           /\ rows'[r][i].status \notin WaitingOp
           /\ rows'[r][i].op = o \/ \E j \in DOMAIN rows[r] : rows[r][j].op = rows'[r][i].op
    BY <1>4, <1>6 DEF Pauses
  <2>4. task[e][o] \notin {"none", "resumed"} /\ UNCHANGED <<cur, known>>
        /\ run'[r] \in {"running", "cancel_requested"}
    BY <1>1, <1>4
  <2>5. ExecOK(e)'
    BY <1>1, <1>2, <2>1, <2>2, <2>3, <2>4, TaskExec, ZenonT(60)
  <2>6. RunOK(r)'
    BY <1>1, <1>2, <1>3, <1>4, <1>6, DrivenRun DEF RunOK, Pauses
  <2> QED BY <1>1, <1>2, <1>5, <1>6, <2>5, <2>6, DriverStep
<1>7. ASSUME NEW s \in {"running", "failed"},
             rows' = [rows EXCEPT ![cur[e]] = Append(@, [op |-> o, status |-> s])],
             task' = [task EXCEPT ![e][o] = IF s = "running" THEN "watched" ELSE "error"]
      PROVE  AInv'
  <2>0. [op |-> o, status |-> s] \in Row /\ s \notin WaitingOp
    BY DEF Row, OpStates, TerminalOp, WaitingOp
  <2>1. rows' = [rows EXCEPT ![r] = Append(@, [op |-> o, status |-> s])]
    BY <1>2, <1>7
  <2> DEFINE n == Len(rows[r]) + 1
  <2>2. /\ \A q \in Runs : q # r => rows'[q] = rows[q]
        /\ DOMAIN rows'[r] = 1 .. n /\ DOMAIN rows[r] = 1 .. (n - 1) /\ n \in Nat
        /\ \A j \in DOMAIN rows[r] : rows'[r][j] = rows[r][j]
        /\ rows'[r][n] = [op |-> o, status |-> s]
    BY <2>0, <2>1, AppendFacts DEF TypeOK
  <2>3. \A j \in DOMAIN rows'[r] : j \in DOMAIN rows[r] \/ j = n
    BY <2>2
  <2>4. \A j \in DOMAIN rows'[r] : rows'[r][j].status \notin WaitingOp
    BY <1>4, <2>0, <2>2, <2>3 DEF Pauses
  <2>5. \A j \in DOMAIN rows'[r] : rows'[r][j].op = o \/ \E m \in DOMAIN rows[r] : rows[r][m].op = rows'[r][j].op
    BY <2>2, <2>3
  <2>6. \A a, b \in DOMAIN rows'[r] : rows'[r][a].op = rows'[r][b].op => a = b
    <3>1. \A a \in DOMAIN rows[r] : rows[r][a].op # o
      BY <1>1, <1>2, Fresh
    <3>3. \A a \in DOMAIN rows[r] : rows'[r][a].op # o
      BY <2>2, <3>1
    <3>2. \A a, b \in DOMAIN rows[r] : rows'[r][a].op = rows'[r][b].op => a = b
      BY <1>3, <2>2 DEF RunOK
    <3> QED BY <2>2, <2>3, <3>2, <3>3
  <2>7. RunOK(r)'
    <3>1. run'[r] \notin {"absent", "queued", "success", "waiting"}
      BY <1>1, <1>4
    <3> QED BY <1>1, <1>2, <2>4, <2>6, <3>1, DrivenRun
  <2>8. PICK t \in {"watched", "error"} : task' = [task EXCEPT ![e][o] = t]
    BY <1>7
  <2>9. t \notin {"none", "scheduled", "waiting", "resumed"}
    BY <2>8
  <2>10. ExecOK(e)'
    <3>1. \A j \in DOMAIN rows'[r] :
            /\ rows'[r][j].status \notin WaitingOp
            /\ rows'[r][j].op = o \/ \E m \in DOMAIN rows[r] : rows[r][m].op = rows'[r][j].op
      BY <2>4, <2>5
    <3>2. task[e][o] \notin {"none", "resumed"} /\ run'[r] \in {"running", "cancel_requested"}
      BY <1>1, <1>4
    <3> QED BY <1>1, <1>2, <2>8, <2>9, <3>1, <3>2, TaskExec, ZenonT(60)
  <2> HIDE DEF n
  <2> QED BY <1>1, <1>2, <1>5, <2>2, <2>7, <2>10, DriverStep
<1> QED BY <1>6, <1>7 DEF OpStart

\* A body moves on: it returns, fails, tries again, is polled or reports.
LEMMA BodyStep ==
  ASSUME TypeOK, Idle, Idle', AInv, NEW e \in Executors, NEW o \in Ops,
         OpReturn(e, o) \/ OpFailed(e, o) \/ OpRetry(e, o) \/ OpPoll(e, o) \/ OpProgress(e, o)
  PROVE  AInv'
<1>1. /\ Live(e) /\ task[e][o] \in {"watched", "retrying"} /\ UNCHANGED <<run, batch, cur, known>>
  BY FlyingLive DEF OpReturn, OpFailed, OpRetry, OpPoll, OpProgress, InBody, drive
<1>2. PICK r \in Runs : cur[e] = r
  BY <1>1 DEF Live
<1>3. ExecOK(e) /\ RunOK(r)
  BY DEF AInv
<1>4. run[r] \in {"running", "cancel_requested"} /\ Pauses(r) = {}
  BY <1>1, <1>2, <1>3 DEF ExecOK, DriverOf
<1>5. \A f \in Executors : f # e => view'[f] = view[f]
  BY DEF OpReturn, OpFailed, OpRetry, OpPoll, OpProgress, TypeOK, Load, Commit
<1>6. PICK t \in {"cancelled", "ok", "error", "watched", "retrying"} : task' = [task EXCEPT ![e][o] = t]
  <2>1. CASE OpProgress(e, o) \/ UNCHANGED task
    <3>1. task' = [task EXCEPT ![e][o] = task[e][o]]
      BY <2>1 DEF OpProgress, drive, TypeOK
    <3> QED BY <1>1, <3>1
  <2> QED BY <2>1 DEF OpReturn, OpFailed, OpRetry, OpPoll, EndTask
<1>7. \A f \in Executors : f # e => task'[f] = task[f]
  BY <1>6 DEF TypeOK
<1>8. t \notin {"none", "scheduled", "waiting", "resumed"}
  BY <1>6
<1>9. task[e][o] \notin {"none", "resumed"} /\ run'[r] \in {"running", "cancel_requested"}
  BY <1>1, <1>4
<1>10. CASE UNCHANGED rows
  <2>1. \A i \in DOMAIN rows'[r] :
           /\ rows'[r][i].status \notin WaitingOp
           /\ rows'[r][i].op = o \/ \E j \in DOMAIN rows[r] : rows[r][j].op = rows'[r][i].op
    BY <1>4, <1>10 DEF Pauses
  <2>2. ExecOK(e)'
    BY <1>1, <1>2, <1>6, <1>8, <1>9, <2>1, TaskExec, ZenonT(60)
  <2>3. RunOK(r)'
    BY <1>1, <1>2, <1>3, <1>4, <1>10, DrivenRun DEF RunOK, Pauses
  <2> QED BY <1>1, <1>2, <1>5, <1>7, <1>10, <2>2, <2>3, DriverStep
<1>11. ASSUME NEW i, NEW s \in OpStates \ WaitingOp, SetRow(r, i, s)
       PROVE  AInv'
  <2>1. /\ RunOK(r)'
        /\ \A q \in Runs : q # r => rows'[q] = rows[q]
        /\ \A j \in DOMAIN rows'[r] :
             /\ rows'[r][j].status \notin WaitingOp
             /\ \E n \in DOMAIN rows[r] : rows[r][n].op = rows'[r][j].op
    BY <1>1, <1>2, <1>11, ClosedRow
  <2>2. ExecOK(e)'
    <3>1. \A j \in DOMAIN rows'[r] :
            /\ rows'[r][j].status \notin WaitingOp
            /\ rows'[r][j].op = o \/ \E n \in DOMAIN rows[r] : rows[r][n].op = rows'[r][j].op
      BY <2>1
    <3> QED BY <1>1, <1>2, <1>6, <1>8, <1>9, <3>1, TaskExec, ZenonT(60)
  <2> QED BY <1>1, <1>2, <1>5, <1>7, <2>1, <2>2, DriverStep
<1>12. UNCHANGED rows \/ \E i : \E s \in OpStates \ WaitingOp : SetRow(r, i, s)
  <2>1. \A s : /\ OpFinish(s) \in OpStates \ WaitingOp
               /\ OpFail(s) \in OpStates \ WaitingOp
               /\ OpCancel(s) \in OpStates \ WaitingOp
    BY DEF OpFinish, OpFail, OpCancel, Unless, OpStates, WaitingOp, TerminalOp
  <2> QED BY <1>2, <2>1 DEF OpReturn, OpFailed, OpRetry, OpPoll, OpProgress, EndTask
<1> QED BY <1>10, <1>11, <1>12

\* An operation pauses: its coroutine has only to end the round.
LEMMA PauseStep ==
  ASSUME TypeOK, Idle, Idle', OwnRow, AInv, NEW e \in Executors, NEW o \in Ops, OpPause(e, o)
  PROVE  AInv'
<1>1. /\ Live(e) /\ task[e][o] \in {"watched", "retrying"} /\ o \in WaitOps
      /\ UNCHANGED <<batch, cur, known, rowOf>>
  BY FlyingLive DEF OpPause, InBody
<1>2. PICK r \in Runs : cur[e] = r
  BY <1>1 DEF Live
<1>3. ExecOK(e) /\ RunOK(r)
  BY DEF AInv
<1>4. run[r] \in {"running", "cancel_requested"} /\ Pauses(r) = {}
  BY <1>1, <1>2, <1>3 DEF ExecOK, DriverOf
<1>5. PICK i : i = rowOf[e][o]
  OBVIOUS
<1>6. i \in DOMAIN rows[r] /\ rows[r][i].op = o /\ rows[r][i].status = "running"
  BY <1>1, <1>2, <1>5 DEF OwnRow, Busy
<1>7. PICK w \in WaitingOp : SetRow(r, i, w) /\ w \in OpStates
  <2>1. OpRow(e, o) = "running"
    BY <1>2, <1>5, <1>6 DEF OpRow
  <2>2. \A w \in WaitingOp : OpWaiting("running", w) = w /\ w \in OpStates
    BY DEF OpWaiting, Unless, TerminalOp, OpStates
  <2> QED BY <1>2, <1>5, <2>1, <2>2 DEF OpPause, EndTask
<1>8. /\ DOMAIN rows'[r] = DOMAIN rows[r]
      /\ \A j \in DOMAIN rows[r] :
           rows'[r][j] = IF j = i THEN [op |-> rows[r][j].op, status |-> w] ELSE rows[r][j]
  BY <1>7, SetRowFrame DEF TypeOK
<1>9. \A j \in DOMAIN rows[r] : rows'[r][j].op = rows[r][j].op /\ (j # i => rows'[r][j] = rows[r][j])
  <2> TAKE j \in DOMAIN rows[r]
  <2>1. CASE j = i
    <3>1. rows'[r][j] = [op |-> rows[r][j].op, status |-> w]
      BY <1>8, <2>1
    <3> QED BY <2>1, <3>1
  <2>2. CASE j # i
    BY <1>8, <2>2
  <2> QED BY <2>1, <2>2
<1>10. rows'[r][i].status = w
  <2>1. rows'[r][i] = [op |-> rows[r][i].op, status |-> w]
    BY <1>6, <1>8
  <2> QED BY <2>1
<1>11. /\ run' = [run EXCEPT ![r] = MarkWaiting(run[r])]
       /\ view' = [view EXCEPT ![e] = MarkWaiting(run[r])]
       /\ task' = [task EXCEPT ![e][o] = "waiting"]
  BY <1>2 DEF OpPause, EndTask
<1>12. run'[r] = view'[e] /\ run'[r] \in {"waiting", "cancel_requested"} /\ task'[e][o] = "waiting"
  BY <1>4, <1>11 DEF MarkWaiting, Unless, TerminalRun, TypeOK
<1>13. \A p \in Ops \ {o} : task'[e][p] = "none"
  BY <1>1, <1>11, AloneInRound DEF TypeOK
<1>14. RunOK(r)'
  <2>1. \A a, b \in DOMAIN rows'[r] : rows'[r][a].op = rows'[r][b].op => a = b
    BY <1>3, <1>8, <1>9 DEF RunOK
  <2>2. \A a \in DOMAIN rows'[r] : rows'[r][a].status \in WaitingOp => rows'[r][a].op \in WaitOps
    BY <1>1, <1>4, <1>6, <1>8, <1>9 DEF Pauses
  <2>3. \E a \in DOMAIN rows'[r] : rows'[r][a].status \in WaitingOp
    BY <1>6, <1>7, <1>8, <1>10
  <2> QED BY <1>1, <1>2, <1>12, <2>1, <2>2, <2>3, DrivenRun
<1>15. ExecOK(e)'
  <2>1. Lame(e)'
    BY <1>12 DEF Lame
  <2>2. RoundOf(e)'
    <3>1. \A p \in Ops : task'[e][p] # "none" => p = o
      BY <1>13
    <3> QED BY <1>1, <1>12, <1>13, <3>1, ConstantsAssumption DEF RoundOf
  <2>3. ContextOf(e)'
    <3>1. \A p \in Ops :
           /\ known'[e][p] # "failed"
           /\ known'[e][p] = "success" => \A d \in Deps[p] : known'[e][d] = "success"
           /\ task'[e][p] \notin {"none", "resumed"} =>
                known'[e][p] = "unknown" /\ \A d \in Deps[p] : known'[e][d] = "success"
      BY <1>1, <1>3, <1>13 DEF ExecOK, ContextOf
    <3> QED BY <2>1, <3>1 DEF ContextOf, Live
  <2>4. \A f \in Executors : f # e /\ cur[f] = r => Lame(f)'
    <3>1. \A f \in Executors : f # e /\ cur[f] = r => Lame(f)
      BY <1>1, <1>2, <1>3 DEF ExecOK, DriverOf
    <3>2. \A f \in Executors : f # e => task'[f] = task[f]
      BY <1>11 DEF TypeOK
    <3> QED BY <3>1, <3>2 DEF Lame
  <2>5. DriverOf(e)'
    BY <1>1, <1>2, <1>12, <2>1, <2>4 DEF DriverOf, Live
  <2> QED BY <2>2, <2>3, <2>5 DEF ExecOK
<1>16. \A q \in Runs : q # r => run'[q] = run[q] /\ rows'[q] = rows[q]
  BY <1>7, <1>11 DEF SetRow, TypeOK
<1>17. \A f \in Executors : f # e => task'[f] = task[f] /\ view'[f] = view[f]
  BY <1>11 DEF TypeOK
<1> QED BY <1>1, <1>2, <1>14, <1>15, <1>16, <1>17, DriverStep

\* What the end of an execution, other than by success or by a pause, makes of a
\* run that has not ended.
LEMMA StoppedRun ==
  ASSUME TypeOK, NEW e \in Executors, NEW r \in Runs, NEW s, NEW outcome \in {"cancelled", "error"},
         Conclude(e, r, s, outcome)
  PROVE  /\ run'[r] \in {run[r], "failed", "cancelled"}
         /\ \A q \in Runs : q # r => run'[q] = run[q]
<1> DEFINE loaded == IF outcome = "cancelled" THEN run[r] ELSE s
<1>1. Write(r, loaded, Ended(e, outcome, loaded))
  BY DEF Conclude
<1>2. Ended(e, outcome, loaded) \in {loaded, "failed", "cancelled"}
  BY DEF Ended, MarkCancelled, MarkFailed, Unless
<1> HIDE DEF loaded
<1> QED BY <1>1, <1>2 DEF Write, TypeOK

\* Letting a run go changes nothing of another coroutine.
LEMMA ReleaseFrame ==
  ASSUME TypeOK, NEW e \in Executors, Release(e)
  PROVE  /\ cur'[e] = None
         /\ \A f \in Executors : f # e =>
              cur'[f] = cur[f] /\ known'[f] = known[f] /\ task'[f] = task[f] /\ view'[f] = view[f]
  BY DEF Release, TypeOK

\* The driver lets its run go, other than by success.
LEMMA LetGoStep ==
  ASSUME TypeOK, Idle, Idle', AInv, NEW e \in Executors, NEW r \in Runs, cur[e] = r, Live(e), Release(e),
         batch' = batch, run'[r] \in {run[r], "failed", "cancelled"},
         \A q \in Runs : q # r => run'[q] = run[q],
         rows' = rows \/ \E i : \E s \in OpStates \ WaitingOp : SetRow(r, i, s)
  PROVE  AInv'
<1>1. ExecOK(e) /\ RunOK(r)
  BY DEF AInv
<1>2. run[r] \in {"running", "cancel_requested"} /\ Pauses(r) = {}
  BY <1>1 DEF ExecOK, DriverOf
<1>3. /\ DOMAIN rows'[r] = DOMAIN rows[r]
      /\ \A j \in DOMAIN rows[r] : rows'[r][j].op = rows[r][j].op /\ rows'[r][j].status \notin WaitingOp
      /\ \A q \in Runs : q # r => rows'[q] = rows[q]
  <2>1. CASE rows' = rows
    BY <1>2, <2>1 DEF Pauses
  <2>2. ASSUME NEW i, NEW s \in OpStates \ WaitingOp, SetRow(r, i, s)
        PROVE  <1>3!:
    <3>1. /\ DOMAIN rows'[r] = DOMAIN rows[r]
          /\ \A j \in DOMAIN rows[r] :
               rows'[r][j] = IF j = i THEN [op |-> rows[r][j].op, status |-> s] ELSE rows[r][j]
      BY <2>2, SetRowFrame DEF TypeOK
    <3>2. \A j \in DOMAIN rows[r] : rows'[r][j].op = rows[r][j].op /\ rows'[r][j].status \notin WaitingOp
      <4> TAKE j \in DOMAIN rows[r]
      <4>1. CASE j = i
        <5>1. rows'[r][j] = [op |-> rows[r][j].op, status |-> s]
          BY <3>1, <4>1
        <5> QED BY <2>2, <5>1
      <4>2. CASE j # i
        <5>1. rows'[r][j] = rows[r][j]
          BY <3>1, <4>2
        <5> QED BY <1>2, <5>1 DEF Pauses
      <4> QED BY <4>1, <4>2
    <3>3. \A q \in Runs : q # r => rows'[q] = rows[q]
      BY <2>2 DEF SetRow, TypeOK
    <3> QED BY <3>1, <3>2, <3>3
  <2> QED BY <2>1, <2>2
<1>4. \A a, b \in DOMAIN rows'[r] : rows'[r][a].op = rows'[r][b].op => a = b
  BY <1>1, <1>3 DEF RunOK
<1>5. RunOK(r)'
  <2>1. run'[r] \notin {"absent", "queued", "success", "waiting"}
    BY <1>2
  <2> QED BY <1>3, <1>4, <2>1, DrivenRun
<1>6. ExecOK(e)'
  BY ReleasedExec
<1> QED BY <1>3, <1>5, <1>6, ReleaseFrame, DriverStep

\* One pass of the while loop, from a context that knows all that was executed.
LEMMA LoopStep ==
  ASSUME PausesAlone, TypeOK, Idle, Idle', AInv, NEW e \in Executors, NEW r \in Runs, cur[e] = r, Live(e),
         batch' = batch, run[r] = "running",
         NEW k \in [Ops -> {"unknown", "success", "failed"}], Loop(e, r, "running", k),
         \A o \in Ops : k[o] # "failed" /\ (k[o] = "success" => \A d \in Deps[o] : k[d] = "success"),
         \A o \in Ops : k[o] = "success" =>
           \E i \in DOMAIN rows'[r] : rows'[r][i].op = o /\ rows'[r][i].status = "success",
         \A i \in DOMAIN rows'[r] :
           rows'[r][i].op \in Ops /\ k[rows'[r][i].op] = "success" /\ rows'[r][i].status \notin WaitingOp,
         \A i, j \in DOMAIN rows'[r] : rows'[r][i].op = rows'[r][j].op => i = j,
         \A q \in Runs : q # r => rows'[q] = rows[q]
  PROVE  AInv'
<1>1. \A f \in Executors : f # e /\ cur[f] = r => Lame(f)
  BY DEF AInv, ExecOK, DriverOf
<1>2. CASE Schedule(e, r, "running", k) /\ UNCHANGED run
  <2>1. run'[r] \in {"running", "cancel_requested"} /\ run'[r] \notin {"absent", "queued", "success", "waiting"}
    BY <1>2
  <2>2. ExecOK(e)'
    BY <1>1, <1>2, <2>1, ScheduledExec
  <2>3. RunOK(r)'
    BY <2>1, DrivenRun
  <2>4. /\ cur'[e] = r
        /\ \A f \in Executors : f # e =>
             cur'[f] = cur[f] /\ known'[f] = known[f] /\ task'[f] = task[f] /\ view'[f] = view[f]
    BY <1>2 DEF Schedule, TypeOK
  <2> QED BY <1>2, <2>2, <2>3, <2>4, DriverStep
<1>3. ASSUME NEW outcome \in {"success", "error"}, Conclude(e, r, "running", outcome),
             outcome = "success" => Pending(k) = {}
      PROVE  AInv'
  <2>1. Release(e) /\ Write(r, "running", Ended(e, outcome, "running"))
    BY <1>3 DEF Conclude
  <2>2. /\ run'[r] \in {"running", "failed", "success"}
        /\ run'[r] = "success" => outcome = "success"
        /\ \A q \in Runs : q # r => run'[q] = run[q]
    BY <2>1 DEF Write, Ended, MarkFinished, MarkFailed, Unless, TypeOK
  <2>3. ASSUME run'[r] = "success"
        PROVE  /\ \A o \in Ops : \E i \in DOMAIN rows'[r] : rows'[r][i].op = o
               /\ \A i \in DOMAIN rows'[r] : rows'[r][i].status = "success"
    <3>1. \A o \in Ops : k[o] = "success"
      BY <1>3, <2>2, <2>3 DEF Pending
    <3>2. \A i \in DOMAIN rows'[r] : rows'[r][i].status = "success"
      <4> TAKE i \in DOMAIN rows'[r]
      <4>1. PICK j \in DOMAIN rows'[r] : rows'[r][j].op = rows'[r][i].op /\ rows'[r][j].status = "success"
        BY <3>1
      <4> QED BY <4>1
    <3> QED BY <3>1, <3>2
  <2>4. RunOK(r)'
    BY <2>2, <2>3, DrivenRun
  <2>5. ExecOK(e)'
    BY <2>1, ReleasedExec
  <2> QED BY <2>1, <2>2, <2>4, <2>5, ReleaseFrame, DriverStep
<1> QED BY <1>2, <1>3 DEF Loop

\* The operation of a resume ends well and the graph goes on.
LEMMA ResumedReturnStep ==
  ASSUME PausesAlone, TypeOK, Idle, Idle', OwnRow, DependenciesFirst, TypeOK', DependenciesFirst', AInv,
         NEW e \in Executors, NEW o \in Ops, ResumedReturn(e, o)
  PROVE  AInv'
<1>1. Live(e) /\ task[e][o] = "resumed" /\ batch' = batch
  BY FlyingLive DEF ResumedReturn
<1>2. PICK r \in Runs : cur[e] = r
  BY <1>1 DEF Live
<1>3. ExecOK(e) /\ RunOK(r)
  BY DEF AInv
<1>4. run[r] \in {"running", "cancel_requested"} /\ o \in WaitOps
  BY <1>1, <1>2, <1>3 DEF ExecOK, DriverOf, RoundOf
<1>5. PICK i : i = rowOf[e][o]
  OBVIOUS
<1>6. i \in DOMAIN rows[r] /\ rows[r][i].op = o /\ rows[r][i].status = "running"
  BY <1>1, <1>2, <1>5 DEF OwnRow, Busy
<1>7. SetRow(r, i, "success") /\ "success" \in OpStates \ WaitingOp
  <2>1. OpRow(e, o) = "running"
    BY <1>2, <1>5, <1>6 DEF OpRow
  <2>2. OpFinish("running") = "success" /\ "success" \in OpStates \ WaitingOp
    BY DEF OpFinish, Unless, TerminalOp, OpStates, WaitingOp
  <2> QED BY <1>2, <1>5, <2>1, <2>2 DEF ResumedReturn
<1>8. CASE Conclude(e, r, run[r], "cancelled")
  <2>1. Release(e)
    BY <1>8 DEF Conclude
  <2>2. run'[r] \in {run[r], "failed", "cancelled"} /\ \A q \in Runs : q # r => run'[q] = run[q]
    BY <1>8, StoppedRun
  <2> QED BY <1>1, <1>2, <1>7, <2>1, <2>2, LetGoStep
<1>9. CASE run[r] = "running" /\ Loop(e, r, run[r], Context(rows'[r], o))
  <2> DEFINE k == Context(rows'[r], o)
  <2>1. /\ DOMAIN rows'[r] = DOMAIN rows[r]
        /\ \A j \in DOMAIN rows[r] :
             rows'[r][j] = IF j = i THEN [op |-> rows[r][j].op, status |-> "success"] ELSE rows[r][j]
    BY <1>7, SetRowFrame DEF TypeOK
  <2>2. \A j \in DOMAIN rows[r] : j # i => rows[r][j].status = "success"
    BY <1>3, <1>4, <1>6, OthersSucceeded
  <2>3. \A j \in DOMAIN rows[r] : rows'[r][j].op = rows[r][j].op /\ rows'[r][j].status = "success"
    <3> TAKE j \in DOMAIN rows[r]
    <3>1. CASE j = i
      <4>1. rows'[r][j] = [op |-> rows[r][j].op, status |-> "success"]
        BY <2>1, <3>1
      <4> QED BY <4>1
    <3>2. CASE j # i
      <4>1. rows'[r][j] = rows[r][j]
        BY <2>1, <3>2
      <4> QED BY <2>2, <3>2, <4>1
    <3> QED BY <3>1, <3>2
  <2>4. \A a, b \in DOMAIN rows'[r] : rows'[r][a].op = rows'[r][b].op => a = b
    BY <1>3, <2>1, <2>3 DEF RunOK
  <2>5. \A j \in DOMAIN rows'[r] :
          rows'[r][j].op \in Ops /\ rows'[r][j].status = "success" /\ rows'[r][j].status \notin WaitingOp
    BY <1>7, <2>1, <2>3, RowShape
  <2>6. \A p \in Ops : ~LastIs(rows'[r], p, "failed")
    BY <2>5 DEF LastIs, Settled
  <2>7. \A j \in DOMAIN rows'[r] : LastIs(rows'[r], rows'[r][j].op, "success")
    <3> TAKE j \in DOMAIN rows'[r]
    <3>1. Settled(rows'[r], rows'[r][j].op) = {j}
      BY <2>4, <2>5 DEF Settled
    <3>2. j \in Nat
      BY <2>1, <1>2 DEF TypeOK
    <3> QED BY <2>5, <3>1, <3>2 DEF LastIs
  <2>8. \A p \in Ops : k[p] = "success" <=> \E j \in DOMAIN rows'[r] : rows'[r][j].op = p
    <3> TAKE p \in Ops
    <3>1. ASSUME NEW j \in DOMAIN rows'[r], rows'[r][j].op = p PROVE k[p] = "success"
      BY <2>6, <2>7, <3>1 DEF Context
    <3>2. ASSUME k[p] = "success" PROVE \E j \in DOMAIN rows'[r] : rows'[r][j].op = p
      <4>1. CASE p = o
        BY <1>6, <2>1, <2>3, <4>1
      <4>2. CASE p # o
        BY <3>2, <4>2, ContextKnown
      <4> QED BY <4>1, <4>2
    <3> QED BY <3>1, <3>2
  <2>9. \A p \in Ops : k[p] # "failed"
    <3> TAKE p \in Ops
    <3>1. CASE p = o \/ LastIs(rows'[r], p, "success")
      <4>1. k[p] = "success"
        BY <2>6, <3>1 DEF Context
      <4> QED BY <4>1
    <3>2. CASE ~(p = o \/ LastIs(rows'[r], p, "success"))
      <4>1. k[p] = "unknown"
        BY <2>6, <3>2 DEF Context
      <4> QED BY <4>1
    <3> QED BY <3>1, <3>2
  <2>10. \A p \in Ops : k[p] = "success" => \A d \in Deps[p] : k[d] = "success"
    <3>1. ASSUME NEW p \in Ops, k[p] = "success", NEW d \in Deps[p] PROVE k[d] = "success"
      <4>1. PICK j \in DOMAIN rows'[r] : rows'[r][j].op = p
        BY <2>8, <3>1
      <4>2. PICK m \in 1 .. j - 1 : rows'[r][m].op = d
        BY <3>1, <4>1 DEF DependenciesFirst
      <4>3. m \in DOMAIN rows'[r] /\ d \in Ops
        BY <3>1, <4>1, <4>2, Constants, SMTT(30) DEF TypeOK
      <4> QED BY <2>8, <4>2, <4>3
    <3> QED BY <3>1
  <2>11. k \in [Ops -> {"unknown", "success", "failed"}]
    BY ContextType
  <2>12. \A q \in Runs : q # r => rows'[q] = rows[q]
    BY <1>7 DEF SetRow, TypeOK
  <2>13. \A p \in Ops : k[p] = "success" =>
           \E j \in DOMAIN rows'[r] : rows'[r][j].op = p /\ rows'[r][j].status = "success"
    BY <2>5, <2>8
  <2>14. \A j \in DOMAIN rows'[r] :
           rows'[r][j].op \in Ops /\ k[rows'[r][j].op] = "success" /\ rows'[r][j].status \notin WaitingOp
    BY <2>5, <2>8
  <2>15. Loop(e, r, "running", k)
    BY <1>9
  <2> HIDE DEF k
  <2> QED BY <1>1, <1>2, <1>9, <2>4, <2>9, <2>10, <2>11, <2>12, <2>13, <2>14, <2>15, LoopStep
<1> QED BY <1>2, <1>4, <1>8, <1>9 DEF ResumedReturn

\* The operation of a resume pauses once more, stops or raises.
LEMMA ResumedStopStep ==
  ASSUME TypeOK, Idle, Idle', OwnRow, AInv,
         NEW e \in Executors, NEW o \in Ops, ResumedStop(e, o) \/ ResumedRaise(e, o)
  PROVE  AInv'
<1>1. Live(e) /\ task[e][o] = "resumed" /\ batch' = batch /\ Release(e)
  BY FlyingLive DEF ResumedStop, ResumedRaise
<1>2. PICK r \in Runs : cur[e] = r
  BY <1>1 DEF Live
<1>3. ExecOK(e) /\ RunOK(r)
  BY DEF AInv
<1>4. run[r] \in {"running", "cancel_requested"} /\ o \in WaitOps /\ Pauses(r) = {}
  BY <1>1, <1>2, <1>3 DEF ExecOK, DriverOf, RoundOf
<1>5. PICK i : i = rowOf[e][o]
  OBVIOUS
<1>6. i \in DOMAIN rows[r] /\ rows[r][i].op = o /\ rows[r][i].status = "running"
  BY <1>1, <1>2, <1>5 DEF OwnRow, Busy
<1>7. OpRow(e, o) = "running"
  BY <1>2, <1>5, <1>6 DEF OpRow
<1>8. CASE ResumedRaise(e, o)
  BY <1>1, <1>2, <1>8, LetGoStep DEF ResumedRaise
<1>9. CASE SetRow(r, i, OpFail(OpRow(e, o))) /\ run' = [run EXCEPT ![r] = MarkFailed(@)]
  <2>1. OpFail(OpRow(e, o)) \in OpStates \ WaitingOp
    BY <1>7 DEF OpFail, Unless, TerminalOp, OpStates, WaitingOp
  <2>2. run'[r] \in {run[r], "failed", "cancelled"} /\ \A q \in Runs : q # r => run'[q] = run[q]
    BY <1>9 DEF MarkFailed, Unless, TypeOK
  <2> QED BY <1>1, <1>2, <1>9, <2>1, <2>2, LetGoStep
<1>10. ASSUME NEW w \in WaitingOp, SetRow(r, i, OpWaiting(OpRow(e, o), w)), run' = [run EXCEPT ![r] = MarkWaiting(@)]
       PROVE  AInv'
  <2>1. SetRow(r, i, w) /\ w \in OpStates
    BY <1>7, <1>10 DEF OpWaiting, Unless, TerminalOp, OpStates
  <2>2. /\ DOMAIN rows'[r] = DOMAIN rows[r]
        /\ \A j \in DOMAIN rows[r] :
             rows'[r][j] = IF j = i THEN [op |-> rows[r][j].op, status |-> w] ELSE rows[r][j]
    BY <2>1, SetRowFrame DEF TypeOK
  <2>3. \A j \in DOMAIN rows[r] : rows'[r][j].op = rows[r][j].op /\ (j # i => rows'[r][j] = rows[r][j])
    <3> TAKE j \in DOMAIN rows[r]
    <3>1. CASE j = i
      <4>1. rows'[r][j] = [op |-> rows[r][j].op, status |-> w]
        BY <2>2, <3>1
      <4> QED BY <3>1, <4>1
    <3>2. CASE j # i
      BY <2>2, <3>2
    <3> QED BY <3>1, <3>2
  <2>4. rows'[r][i].status = w
    <3>1. rows'[r][i] = [op |-> rows[r][i].op, status |-> w]
      BY <1>6, <2>2
    <3> QED BY <3>1
  <2>5. \A a, b \in DOMAIN rows'[r] : rows'[r][a].op = rows'[r][b].op => a = b
    BY <1>3, <2>2, <2>3 DEF RunOK
  <2>6. \A a \in DOMAIN rows'[r] : rows'[r][a].status \in WaitingOp => rows'[r][a].op \in WaitOps
    BY <1>4, <1>6, <2>2, <2>3 DEF Pauses
  <2>7. \E a \in DOMAIN rows'[r] : rows'[r][a].status \in WaitingOp
    BY <1>6, <2>2, <2>4
  <2>8. run'[r] \in {"waiting", "cancel_requested"} /\ \A q \in Runs : q # r => run'[q] = run[q]
    BY <1>4, <1>10 DEF MarkWaiting, Unless, TerminalRun, TypeOK
  <2>9. RunOK(r)'
    BY <1>1, <1>2, <2>5, <2>6, <2>7, <2>8, DrivenRun
  <2>10. ExecOK(e)'
    BY <1>1, ReleasedExec
  <2>11. \A q \in Runs : q # r => rows'[q] = rows[q]
    BY <2>1 DEF SetRow, TypeOK
  <2> QED BY <1>1, <1>2, <2>8, <2>9, <2>10, <2>11, ReleaseFrame, DriverStep
<1> QED BY <1>2, <1>5, <1>8, <1>9, <1>10 DEF ResumedStop

---------------------------------------------------------------------------
(* The end of a round.                                                     *)

\* A driver's round is complete.
LEMMA DriverRoundEnd ==
  ASSUME PausesAlone, TypeOK, Idle, Idle', KnownIsTrue, FreshView, AInv,
         NEW e \in Executors, Live(e), RoundEnd(e)
  PROVE  AInv'
<1>1. PICK r \in Runs : cur[e] = r
  BY DEF Live
<1>2. ExecOK(e) /\ RunOK(r) /\ UNCHANGED <<rows, batch>>
  BY DEF AInv, RoundEnd
<1>3. run[r] \in {"running", "cancel_requested"} /\ Pauses(r) = {}
  BY <1>1, <1>2 DEF ExecOK, DriverOf
<1>4. \A o \in Ops : task[e][o] \in {"none", "ok", "error", "cancelled"}
  BY DEF RoundEnd, Live, Lame, TypeOK, TaskStates
<1>5. ASSUME NEW outcome \in {"cancelled", "error"}, Conclude(e, r, Read(e), outcome)
      PROVE  AInv'
  <2>1. Release(e)
    BY <1>5 DEF Conclude
  <2>2. run'[r] \in {run[r], "failed", "cancelled"} /\ \A q \in Runs : q # r => run'[q] = run[q]
    BY <1>5, StoppedRun
  <2> QED BY <1>1, <1>2, <2>1, <2>2, LetGoStep
<1>6. ASSUME \A o \in Ops : task[e][o] \in {"none", "ok"}, Read(e) # "cancel_requested",
             Loop(e, r, Read(e), [o \in Ops |-> IF task[e][o] = "ok" THEN "success" ELSE known[e][o]])
      PROVE  AInv'
  <2> DEFINE k == [o \in Ops |-> IF task[e][o] = "ok" THEN "success" ELSE known[e][o]]
  <2>1. Read(e) = "running" /\ run[r] = "running"
    <3>1. ViewOf(e)
      BY DEF FreshView
    <3>2. ~Flying(e)
      BY <1>4 DEF Flying, InFlight
    <3>3. view[e] = Expired
      BY <1>1, <1>6, <3>1, <3>2, Constants DEF ViewOf
    <3> QED BY <1>1, <1>3, <1>6, <3>3 DEF Read
  <2>2. k \in [Ops -> {"unknown", "success", "failed"}]
    BY DEF TypeOK
  <2>3. \A o \in Ops : k[o] # "failed" /\ (k[o] = "success" => \A d \in Deps[o] : k[d] = "success")
    <3>1. \A o \in Ops : Deps[o] \subseteq Ops
      BY Constants
    <3>2. \A o \in Ops : known[e][o] # "failed"
      BY <1>2 DEF ExecOK, ContextOf
    <3>3. \A o \in Ops : known[e][o] = "success" \/ task[e][o] = "ok" => \A d \in Deps[o] : known[e][d] = "success"
      BY <1>2 DEF ExecOK, ContextOf
    <3> QED BY <3>1, <3>2, <3>3
  <2>4. \A o \in Ops : k[o] = "success" =>
          \E i \in DOMAIN rows'[r] : rows'[r][i].op = o /\ rows'[r][i].status = "success"
    BY <1>1, <1>2 DEF KnownIsTrue, KnownOf, Succeeded
  <2>5. ASSUME NEW i \in DOMAIN rows'[r]
        PROVE  rows'[r][i].op \in Ops /\ k[rows'[r][i].op] = "success" /\ rows'[r][i].status \notin WaitingOp
    <3>1. i \in DOMAIN rows[r] /\ rows'[r][i] = rows[r][i] /\ rows[r][i].op \in Ops
      BY <1>2, RowShape
    <3>2. ~Resuming(e)
      BY <1>4 DEF Resuming
    <3>3. known[e][rows[r][i].op] = "success" \/ task[e][rows[r][i].op] \notin {"none", "scheduled"}
      BY <1>1, <1>2, <3>1, <3>2 DEF ExecOK, ContextOf
    <3>4. k[rows[r][i].op] = "success"
      BY <1>6, <3>1, <3>3
    <3> QED BY <1>3, <3>1, <3>4 DEF Pauses
  <2>6. \A i, j \in DOMAIN rows'[r] : rows'[r][i].op = rows'[r][j].op => i = j
    BY <1>2 DEF RunOK
  <2>7. Loop(e, r, "running", k)
    BY <1>6, <2>1
  <2> HIDE DEF k
  <2> QED BY <1>1, <1>2, <2>1, <2>2, <2>3, <2>4, <2>5, <2>6, <2>7, LoopStep, SMTT(30)
<1>7. CASE \E o \in Ops : task[e][o] \in {"error", "cancelled"}
  <2>1. \E outcome \in {"cancelled", "error"} : Conclude(e, r, Read(e), outcome)
    BY <1>1, <1>4, <1>7 DEF RoundEnd
  <2> QED BY <1>5, <2>1
<1>8. CASE \A o \in Ops : task[e][o] \in {"none", "ok"}
  <2>1. \/ Conclude(e, r, Read(e), "cancelled")
        \/ /\ Read(e) # "cancel_requested"
           /\ Loop(e, r, Read(e), [o \in Ops |-> IF task[e][o] = "ok" THEN "success" ELSE known[e][o]])
    BY <1>1, <1>8 DEF RoundEnd
  <2> QED BY <1>5, <1>6, <1>8, <2>1
<1> QED BY <1>4, <1>7, <1>8

\* The round of a pause is complete: nothing is written to a run that someone
\* may have resumed since, and one that was to be cancelled is.
LEMMA LameWrite ==
  ASSUME TypeOK, AInv, NEW e \in Executors, Lame(e), RoundEnd(e), NEW r \in Runs, cur[e] = r
  PROVE  /\ Release(e) /\ UNCHANGED <<rows, batch>>
         /\ \A q \in Runs : q # r => run'[q] = run[q]
         /\ \/ run'[r] = run[r]
            \/ /\ run[r] = "cancel_requested" /\ run'[r] = "cancelled"
               /\ \A f \in Executors : cur[f] = r => Lame(f)
<1>1. ExecOK(e)
  BY DEF AInv
<1>2. PICK w \in Ops : task[e][w] = "waiting"
  BY DEF Lame
<1>3. \A p \in Ops \ {w} : task[e][p] = "none"
  BY <1>1, <1>2 DEF ExecOK, RoundOf
<1>4. {o \in Ops : task[e][o] \in {"error", "cancelled", "waiting"}} = {w}
  BY <1>2, <1>3
<1>5. view[e] \in {"waiting", "cancel_requested"}
  BY <1>1 DEF ExecOK, DriverOf
<1>6. Read(e) = view[e]
  BY <1>5 DEF Read, Expired
<1>7. CASE view[e] = "cancel_requested"
  <2>1. Conclude(e, r, "cancel_requested", "cancelled") /\ UNCHANGED <<rows, batch>>
    BY <1>4, <1>6, <1>7 DEF RoundEnd
  <2>2. run[r] \in TerminalRun \cup {"cancel_requested"} /\ \A f \in Executors : cur[f] = r => Lame(f)
    BY <1>1, <1>7 DEF ExecOK, DriverOf
  <2>3. Ended(e, "cancelled", run[r]) \in {run[r], MarkCancelled(run[r])}
    BY DEF Ended
  <2>4. MarkCancelled(run[r]) = IF run[r] = "cancel_requested" THEN "cancelled" ELSE run[r]
    BY <2>2 DEF MarkCancelled, Unless, TerminalRun
  <2>5. Release(e) /\ Write(r, run[r], Ended(e, "cancelled", run[r]))
    BY <2>1 DEF Conclude
  <2> QED BY <2>1, <2>2, <2>3, <2>4, <2>5 DEF Write, TypeOK
<1>8. CASE view[e] = "waiting"
  <2>1. Conclude(e, r, "waiting", "waiting") /\ UNCHANGED <<rows, batch>>
    <3>1. ~(Read(e) = "cancel_requested")
      BY <1>6, <1>8
    <3>2. \E o \in {w} : Conclude(e, r, Read(e), IF task[e][o] = "waiting" THEN "waiting" ELSE "error")
      BY <1>4, <3>1 DEF RoundEnd
    <3> QED BY <1>2, <1>6, <1>8, <3>2 DEF RoundEnd
  <2>2. Ended(e, "waiting", "waiting") = "waiting"
    BY DEF Ended, MarkWaiting, Unless, TerminalRun
  <2>3. Release(e) /\ Write(r, "waiting", Ended(e, "waiting", "waiting"))
    BY <2>1 DEF Conclude
  <2> QED BY <2>1, <2>2, <2>3 DEF Write, TypeOK
<1> QED BY <1>5, <1>7, <1>8

\* Other coroutines and runs, when the run of a driver does not change under it.
LEMMA UndrivenExec ==
  ASSUME TypeOK, Idle, AInv, NEW f \in Executors, NEW r \in Runs,
         cur'[f] = cur[f], known'[f] = known[f], task'[f] = task[f], view'[f] = view[f],
         \A g \in Executors : cur'[g] = cur[f] /\ cur[f] \in Runs => cur[g] = cur[f] /\ task'[g] = task[g],
         \A q \in Runs : q # r => run'[q] = run[q] /\ rows'[q] = rows[q],
         run[r] \in TerminalRun \cup {"cancel_requested"} => run'[r] \in TerminalRun \cup {"cancel_requested"},
         Live(f) /\ cur[f] = r => rows'[r] = rows[r] /\ run'[r] \in {"running", "cancel_requested"}
  PROVE  ExecOK(f)'
<1>0. ExecOK(f)
  BY DEF AInv
<1>1. RoundOf(f)'
  BY <1>0 DEF ExecOK, RoundOf
<1>2. (Lame(f)' <=> Lame(f)) /\ (Live(f)' <=> Live(f)) /\ (Resuming(f)' <=> Resuming(f))
  BY DEF Lame, Live, Resuming
<1>3. \A g \in Executors : cur'[g] = cur[f] /\ cur[f] \in Runs => cur[g] = cur[f] /\ (Lame(g) => Lame(g)')
  BY DEF Lame
<1>4. CASE cur[f] \in Runs
  <2>1. PICK q \in Runs : q = cur[f] /\ cur'[f] = q
    BY <1>4
  <2>2. Live(f) => rows'[q] = rows[q] /\ run'[q] \in {run[q], "running", "cancel_requested"}
    BY <2>1
  <2>3. run[q] \in TerminalRun \cup {"cancel_requested"} => run'[q] \in TerminalRun \cup {"cancel_requested"}
    BY <2>1
  <2>4. ContextOf(f)'
    BY <1>0, <1>2, <2>1, <2>2 DEF ExecOK, ContextOf
  <2>5. DriverOf(f)'
    BY <1>0, <1>2, <1>3, <2>1, <2>2, <2>3 DEF ExecOK, DriverOf, Pauses
  <2> QED BY <1>1, <2>4, <2>5 DEF ExecOK
<1>5. CASE cur[f] \notin Runs
  <2>1. ~Live(f) /\ ~Lame(f)
    <3>1. cur[f] = None
      BY <1>5 DEF TypeOK
    <3> QED BY <1>5, <3>1 DEF Live, Lame, Idle
  <2>2. ContextOf(f)'
    BY <1>0, <1>2, <2>1 DEF ExecOK, ContextOf
  <2> QED BY <1>1, <1>2, <2>1, <2>2 DEF ExecOK, DriverOf
<1> QED BY <1>4, <1>5

\* The coroutine of a pause ends its round.
LEMMA LameRoundEnd ==
  ASSUME TypeOK, Idle, AInv, NEW e \in Executors, Lame(e), RoundEnd(e)
  PROVE  AInv'
<1>1. PICK r \in Runs : cur[e] = r
  BY DEF TypeOK, RoundEnd
<1>2. /\ Release(e) /\ UNCHANGED <<rows, batch>>
      /\ \A q \in Runs : q # r => run'[q] = run[q]
      /\ \/ run'[r] = run[r]
         \/ /\ run[r] = "cancel_requested" /\ run'[r] = "cancelled"
            /\ \A f \in Executors : cur[f] = r => Lame(f)
  BY <1>1, LameWrite
<1>3. ASSUME NEW f \in Executors, f # e PROVE ExecOK(f)'
  <2>1. cur'[f] = cur[f] /\ known'[f] = known[f] /\ task'[f] = task[f] /\ view'[f] = view[f]
    BY <1>2, <1>3, ReleaseFrame
  <2>2. \A g \in Executors : cur'[g] = cur[f] /\ cur[f] \in Runs => cur[g] = cur[f] /\ task'[g] = task[g]
    BY <1>2, ReleaseFrame, Constants
  <2>3. \A q \in Runs : q # r => run'[q] = run[q] /\ rows'[q] = rows[q]
    BY <1>2
  <2>4. run[r] \in TerminalRun \cup {"cancel_requested"} => run'[r] \in TerminalRun \cup {"cancel_requested"}
    BY <1>2 DEF TerminalRun
  <2>5. Live(f) /\ cur[f] = r => rows'[r] = rows[r] /\ run'[r] \in {"running", "cancel_requested"}
    <3>1. Live(f) /\ cur[f] = r => run'[r] = run[r] /\ run[r] \in {"running", "cancel_requested"}
      BY <1>2 DEF Live, AInv, ExecOK, DriverOf
    <3> QED BY <1>2, <3>1
  <2> QED BY <2>1, <2>2, <2>3, <2>4, <2>5, UndrivenExec
<1>4. ExecOK(e)'
  BY <1>2, ReleasedExec
<1>5. ASSUME NEW q \in Runs PROVE RunOK(q)'
  <2>1. RunOK(q) /\ r \notin batch /\ run[r] \notin {"absent", "queued"}
    BY <1>1 DEF AInv, RunOK
  <2>2. \A f \in Executors : cur'[f] = q => cur[f] = q
    BY <1>2, ReleaseFrame, Constants
  <2>3. CASE run'[q] = run[q]
    BY <1>2, <2>1, <2>2, <2>3 DEF RunOK, Pauses
  <2>4. CASE q = r /\ run'[r] = "cancelled"
    BY <1>2, <2>1, <2>4 DEF RunOK, Pauses
  <2> QED BY <1>2, <2>3, <2>4
<1> QED BY <1>3, <1>4, <1>5 DEF AInv

---------------------------------------------------------------------------
(* The worker, the requests and the recovery.                              *)

\* A run that is paused, or that has not begun, has no driver.
LEMMA NoDriver ==
  ASSUME AInv, NEW r \in Runs, Pauses(r) # {} \/ run[r] \notin {"running", "cancel_requested"},
         NEW e \in Executors, cur[e] = r
  PROVE  Lame(e)
<1>1. ~Live(e)
  BY DEF AInv, ExecOK, DriverOf
<1> QED BY <1>1 DEF Live

\* A request that wakes no coroutine.
LEMMA QuietStep ==
  ASSUME TypeOK, Idle, AInv, NEW r \in Runs, UNCHANGED <<drive, view>>, batch' \in SUBSET batch,
         \A q \in Runs : q # r => run'[q] = run[q] /\ rows'[q] = rows[q],
         run[r] \in TerminalRun \cup {"cancel_requested"} => run'[r] \in TerminalRun \cup {"cancel_requested"},
         (\E e \in Executors : Live(e) /\ cur[e] = r) =>
           rows'[r] = rows[r] /\ run'[r] \in {"running", "cancel_requested"},
         RunOK(r)'
  PROVE  AInv'
<1>1. ASSUME NEW f \in Executors PROVE ExecOK(f)'
  <2>1. cur'[f] = cur[f] /\ known'[f] = known[f] /\ task'[f] = task[f] /\ view'[f] = view[f]
    BY DEF drive
  <2>2. \A g \in Executors : cur'[g] = cur[f] /\ cur[f] \in Runs => cur[g] = cur[f] /\ task'[g] = task[g]
    BY DEF drive
  <2> QED BY <2>1, <2>2, UndrivenExec
<1>2. ASSUME NEW q \in Runs, q # r PROVE RunOK(q)'
  <2>1. RunOK(q) /\ run'[q] = run[q] /\ rows'[q] = rows[q] /\ cur' = cur
    BY <1>2 DEF AInv, drive
  <2> QED BY <2>1 DEF RunOK, Pauses
<1> QED BY <1>1, <1>2 DEF AInv

\* A run is created.
LEMMA EnqueueStep ==
  ASSUME TypeOK, Idle, AInv, NEW r \in Runs, Enqueue(r)
  PROVE  AInv'
<1>1. run[r] = "absent" /\ run'[r] = "queued" /\ \A q \in Runs : q # r => run'[q] = run[q]
  BY DEF Enqueue, TypeOK
<1>2. RunOK(r) /\ UNCHANGED <<rows, batch, drive, view>>
  BY DEF AInv, Enqueue
<1>3. RunOK(r)'
  BY <1>1, <1>2 DEF RunOK, Pauses, drive
<1>4. \A e \in Executors : cur[e] # r
  BY <1>1, <1>2 DEF RunOK
<1> QED BY <1>1, <1>2, <1>3, <1>4, QuietStep DEF TerminalRun

\* A cancel is accepted.
LEMMA CancelRequestStep ==
  ASSUME TypeOK, Idle, AInv, NEW r \in Runs, Cancel(r)
  PROVE  AInv'
<1>1. run[r] \in ActiveRun /\ run'[r] = "cancel_requested" /\ \A q \in Runs : q # r => run'[q] = run[q]
  BY DEF Cancel, TypeOK, RequestCancel, Unless, ActiveRun, TerminalRun
<1>2. RunOK(r) /\ UNCHANGED <<rows, batch, drive, view>>
  BY DEF AInv, Cancel
<1>3. RunOK(r)'
  BY <1>1, <1>2 DEF RunOK, Pauses, drive
<1> QED BY <1>1, <1>2, <1>3, QuietStep

\* A pause ends, and the run with it.
LEMMA PauseEndStep ==
  ASSUME TypeOK, Idle, AInv, NEW r \in Runs, NEW o \in Ops, ExpirePause(r, o) \/ ResumeRejected(r, o)
  PROVE  AInv'
<1>1. PICK i \in DOMAIN rows[r], s \in OpStates \ WaitingOp :
        IsPause(r, o, i) /\ SetRow(r, i, s)
  <2>1. \A t : OpCancel(t) \in OpStates \ WaitingOp /\ OpFail(t) \in OpStates \ WaitingOp
    BY DEF OpCancel, OpFail, Unless, OpStates, TerminalOp, WaitingOp
  <2> QED BY <2>1 DEF ExpirePause, ResumeRejected
<1>2. i \in Pauses(r) /\ RunOK(r) /\ UNCHANGED <<batch, drive, view>>
  BY <1>1 DEF IsPause, Paused, Pauses, AInv, ExpirePause, ResumeRejected
<1>3. run[r] # "success" /\ run[r] \notin {"absent", "queued"} /\ r \notin batch
  BY <1>2 DEF RunOK, Pauses, WaitingOp
<1>4. run'[r] \in TerminalRun \ {"success"} /\ \A q \in Runs : q # r => run'[q] = run[q]
  BY <1>3 DEF ExpirePause, ResumeRejected, MarkCancelled, MarkFailed, MarkRunning, Unless, TerminalRun, TypeOK
<1>5. /\ DOMAIN rows'[r] = DOMAIN rows[r]
      /\ \A j \in DOMAIN rows[r] :
           rows'[r][j] = IF j = i THEN [op |-> rows[r][j].op, status |-> s] ELSE rows[r][j]
  BY <1>1, SetRowFrame DEF TypeOK
<1>6. \A j \in DOMAIN rows[r] : rows'[r][j].op = rows[r][j].op /\ rows'[r][j].status \in {s, rows[r][j].status}
  <2> TAKE j \in DOMAIN rows[r]
  <2>1. CASE j = i
    <3>1. rows'[r][j] = [op |-> rows[r][j].op, status |-> s]
      BY <1>5, <2>1
    <3> QED BY <3>1
  <2>2. CASE j # i
    <3>1. rows'[r][j] = rows[r][j]
      BY <1>5, <2>2
    <3> QED BY <3>1
  <2> QED BY <2>1, <2>2
<1>7. RunOK(r)'
  <2>1. \A a, b \in DOMAIN rows'[r] : rows'[r][a].op = rows'[r][b].op => a = b
    BY <1>2, <1>5, <1>6 DEF RunOK
  <2>2. \A a \in Pauses(r)' : rows'[r][a].op \in WaitOps
    <3>1. \A a \in Pauses(r)' : a \in Pauses(r) /\ rows'[r][a].op = rows[r][a].op
      BY <1>5, <1>6 DEF Pauses
    <3> QED BY <1>2, <3>1 DEF RunOK
  <2>3. run'[r] \notin {"absent", "queued", "success", "waiting"} /\ r \notin batch'
    BY <1>2, <1>3, <1>4 DEF TerminalRun
  <2> QED BY <2>1, <2>2, <2>3 DEF RunOK
<1>8. \A e \in Executors : cur[e] = r => ~Live(e)
  BY <1>2, NoDriver DEF Live
<1>9. \A q \in Runs : q # r => rows'[q] = rows[q]
  BY <1>1 DEF SetRow, TypeOK
<1> QED BY <1>2, <1>4, <1>7, <1>8, <1>9, QuietStep

\* A pause is resumed: the request that does so is the run's driver from now on.
LEMMA ResumeStep ==
  ASSUME PausesAlone, TypeOK, Idle, KnownIsTrue, DependenciesFirst, AInv, NEW r \in Runs,
         NEW e \in Resumers, NEW o \in Ops, Resume(e, r, o)
  PROVE  AInv'
<1>0. e \in Executors /\ cur[e] = None /\ \A p \in Ops : task[e][p] = "none"
  BY Constants DEF Resume, Idle
<1>1. PICK i \in DOMAIN rows[r] : IsPause(r, o, i) /\ SetRow(r, i, "running")
  <2>1. \A s \in WaitingOp : OpRunning(s) = "running"
    BY DEF OpRunning, Unless, WaitingOp, TerminalOp
  <2> QED BY <2>1 DEF Resume, IsPause, Paused
<1>2. i \in Pauses(r) /\ rows[r][i].op = o /\ RunOK(r) /\ UNCHANGED <<batch, known>>
  BY <1>1 DEF IsPause, Paused, Pauses, AInv, Resume
<1>3. o \in WaitOps /\ run[r] \notin {"absent", "queued"} /\ r \notin batch
  BY <1>2 DEF RunOK, Pauses
<1>4. run'[r] = "running" /\ run[r] \notin TerminalRun \cup {"cancel_requested"}
      /\ \A q \in Runs : q # r => run'[q] = run[q]
  BY DEF Resume, ResumeAllowed, MarkRunning, Unless, TypeOK
<1>5. /\ cur'[e] = r /\ task'[e][o] = "resumed" /\ known'[e] = known[e]
      /\ \A p \in Ops : p # o => task'[e][p] = "none"
      /\ \A f \in Executors : f # e =>
           cur'[f] = cur[f] /\ known'[f] = known[f] /\ task'[f] = task[f] /\ view'[f] = view[f]
  BY <1>0, <1>2 DEF Resume, TypeOK, Commit
<1>6. /\ DOMAIN rows'[r] = DOMAIN rows[r]
      /\ \A j \in DOMAIN rows[r] :
           rows'[r][j] = IF j = i THEN [op |-> rows[r][j].op, status |-> "running"] ELSE rows[r][j]
      /\ \A q \in Runs : q # r => rows'[q] = rows[q]
  <2>1. "running" \in OpStates
    BY DEF OpStates
  <2>2. \A q \in Runs : q # r => rows'[q] = rows[q]
    BY <1>1 DEF SetRow, TypeOK
  <2> QED BY <1>1, <2>1, <2>2, SetRowFrame DEF TypeOK
<1>7. \A j \in DOMAIN rows[r] : j # i => rows[r][j].status = "success"
  <2>1. rows[r][i].op \in WaitOps /\ rows[r][i].status # "success"
    BY <1>2, <1>3 DEF Pauses, WaitingOp
  <2> QED BY <1>2, <2>1, OthersSucceeded
<1>8. \A j \in DOMAIN rows[r] : rows'[r][j].op = rows[r][j].op /\ rows'[r][j].status \notin WaitingOp
  <2> TAKE j \in DOMAIN rows[r]
  <2>1. CASE j = i
    <3>1. rows'[r][j] = [op |-> rows[r][j].op, status |-> "running"]
      BY <1>6, <2>1
    <3> QED BY <3>1 DEF WaitingOp
  <2>2. CASE j # i
    <3>1. rows'[r][j] = rows[r][j] /\ rows[r][j].status = "success"
      BY <1>6, <1>7, <2>2
    <3> QED BY <3>1 DEF WaitingOp
  <2> QED BY <2>1, <2>2
<1>9. RunOK(r)'
  <2>1. \A a, b \in DOMAIN rows'[r] : rows'[r][a].op = rows'[r][b].op => a = b
    BY <1>2, <1>6, <1>8 DEF RunOK
  <2> QED BY <1>2, <1>3, <1>4, <1>6, <1>8, <2>1 DEF RunOK, Pauses
<1>10. \A f \in Executors : f # e /\ cur'[f] = r => Lame(f) /\ Lame(f)' /\ cur[f] = r
  BY <1>2, <1>5, NoDriver DEF Lame
<1>11. ExecOK(e)'
  <2>1. ~Lame(e)' /\ Resuming(e)'
    BY <1>5 DEF Lame, Resuming
  <2>2. RoundOf(e)'
    <3>1. \A w \in WaitOps : task'[e][w] # "none" => w = o
      BY <1>5, ConstantsAssumption
    <3>2. \A p \in Ops : task'[e][p] \in {"waiting", "resumed"} => p = o
      BY <1>5
    <3>3. \A p \in Ops \ {o} : task'[e][p] = "none"
      BY <1>5
    <3> QED BY <1>3, <3>1, <3>2, <3>3 DEF RoundOf
  <2>3. ContextOf(e)'
    <3>1. \A p \in Ops : known[e][p] \notin {"success", "failed"}
      <4>1. ExecOK(e) /\ KnownOf(e)
        BY <1>0 DEF AInv, KnownIsTrue
      <4> QED BY <1>0, <4>1, Constants DEF ExecOK, ContextOf, KnownOf
    <3>2. \A p \in Ops : task'[e][p] \in {"none", "resumed"}
      BY <1>5
    <3> QED BY <1>5, <2>1, <3>1, <3>2 DEF ContextOf
  <2>4. DriverOf(e)'
    <3>1. run'[cur'[e]] \in {"running", "cancel_requested"} /\ Pauses(r)' = {}
      BY <1>4, <1>5, <1>6, <1>8 DEF Pauses
    <3> QED BY <1>5, <1>10, <2>1, <3>1 DEF DriverOf
  <2> QED BY <2>2, <2>3, <2>4 DEF ExecOK
<1>12. ASSUME NEW f \in Executors, f # e PROVE ExecOK(f)'
  <2>1. CASE cur[f] = r
    <3>1. Lame(f) /\ Lame(f)' /\ cur'[f] = r
      BY <1>5, <1>10, <1>12, <2>1
    <3>2. view[f] = "waiting" /\ ExecOK(f)
      BY <1>4, <2>1, <3>1 DEF AInv, ExecOK, DriverOf
    <3> QED BY <1>5, <1>12, <3>1, <3>2 DEF ExecOK, RoundOf, ContextOf, DriverOf, Live
  <2>2. CASE cur[f] # r
    <3>1. cur'[f] = cur[f] /\ known'[f] = known[f] /\ task'[f] = task[f] /\ view'[f] = view[f]
      BY <1>5, <1>12
    <3>2. \A g \in Executors : cur'[g] = cur[f] /\ cur[f] \in Runs => cur[g] = cur[f] /\ task'[g] = task[g]
      BY <1>5, <2>2
    <3> QED BY <1>4, <1>6, <2>2, <3>1, <3>2, UndrivenExec
  <2> QED BY <2>1, <2>2
<1>13. ASSUME NEW q \in Runs, q # r PROVE RunOK(q)'
  <2>1. RunOK(q) /\ run'[q] = run[q] /\ rows'[q] = rows[q] /\ \A f \in Executors : cur'[f] = q => cur[f] = q
    BY <1>4, <1>5, <1>6, <1>13 DEF AInv
  <2> QED BY <1>2, <2>1 DEF RunOK, Pauses
<1> QED BY <1>9, <1>11, <1>12, <1>13 DEF AInv

\* The worker starts a queued run.
LEMMA WorkerStep ==
  ASSUME PausesAlone, TypeOK, Idle, Idle', AInv, NEW r \in Runs, cur[Worker] = None, ExecuteRun(r),
         UNCHANGED rows, batch' \in SUBSET Runs, r \notin batch',
         \A q \in batch' : q \in batch \/ run[q] = "queued",
         run[r] \in {"queued", "cancel_requested"}, r \in batch \/ run[r] = "queued"
  PROVE  AInv'
<1>1. RunOK(r) /\ DOMAIN rows[r] = {} /\ \A e \in Executors : cur[e] # r
  BY DEF AInv, RunOK
<1>2. \A q \in Runs : q # r => run'[q] = run[q]
  BY DEF ExecuteRun, TypeOK
<1>3. ASSUME NEW q \in Runs, q # r, \A e \in Executors : cur'[e] = q => cur[e] = q
      PROVE  RunOK(q)'
  <2>1. RunOK(q) /\ run'[q] = run[q] /\ rows' = rows
    BY <1>2, <1>3 DEF AInv
  <2> QED BY <1>3, <2>1 DEF RunOK, Pauses
<1>4. CASE run'[r] \in {"cancelled", "cancel_requested"} /\ UNCHANGED <<drive, view>>
  <2>1. RunOK(r)'
    BY <1>1, <1>4 DEF RunOK, Pauses
  <2>2. ASSUME NEW q \in Runs, q # r PROVE RunOK(q)'
    BY <1>3, <1>4, <2>2 DEF drive
  <2>3. ASSUME NEW f \in Executors PROVE ExecOK(f)'
    <3>1. cur'[f] = cur[f] /\ known'[f] = known[f] /\ task'[f] = task[f] /\ view'[f] = view[f]
      BY <1>4 DEF drive
    <3>2. \A g \in Executors : cur'[g] = cur[f] /\ cur[f] \in Runs => cur[g] = cur[f] /\ task'[g] = task[g]
      BY <1>4 DEF drive
    <3> QED BY <1>1, <1>2, <1>4, <3>1, <3>2, UndrivenExec DEF TerminalRun
  <2> QED BY <2>1, <2>2, <2>3 DEF AInv
<1>5. CASE run'[r] = "running" /\ Schedule(Worker, r, "running", Unknown)
  <2>1. /\ cur'[Worker] = r
        /\ \A f \in Executors : f # Worker =>
             cur'[f] = cur[f] /\ known'[f] = known[f] /\ task'[f] = task[f] /\ view'[f] = view[f]
    BY <1>5, Constants DEF Schedule, TypeOK
  <2>2. RunOK(r)'
    BY <1>1, <1>5 DEF RunOK, Pauses
  <2>3. ASSUME NEW q \in Runs, q # r PROVE RunOK(q)'
    BY <1>3, <2>1, <2>3
  <2>4. ExecOK(Worker)'
    <3>1. Unknown \in [Ops -> {"unknown", "success", "failed"}] /\ \A o \in Ops : Unknown[o] = "unknown"
      BY DEF Unknown
    <3> QED BY <1>1, <1>5, <3>1, ScheduledExec, Constants
  <2>5. ASSUME NEW f \in Executors, f # Worker PROVE ExecOK(f)'
    <3>1. cur'[f] = cur[f] /\ known'[f] = known[f] /\ task'[f] = task[f] /\ view'[f] = view[f] /\ cur[f] # r
      BY <1>1, <2>1, <2>5
    <3>2. \A g \in Executors : cur'[g] = cur[f] /\ cur[f] \in Runs => cur[g] = cur[f] /\ task'[g] = task[g]
      BY <2>1, <3>1
    <3>3. run[r] \in TerminalRun \cup {"cancel_requested"} => run[r] = "cancel_requested"
      BY DEF TerminalRun
    <3>4. run[r] # "cancel_requested"
      BY <1>5 DEF ExecuteRun, MarkRunning, MarkCancelled, Unless, TerminalRun, TypeOK
    <3> QED BY <1>2, <3>1, <3>2, <3>3, <3>4, UndrivenExec
  <2> QED BY <2>2, <2>3, <2>4, <2>5 DEF AInv
<1>6. \/ run'[r] \in {"cancelled", "cancel_requested"} /\ UNCHANGED <<drive, view>>
      \/ run'[r] = "running" /\ Schedule(Worker, r, "running", Unknown)
  BY DEF ExecuteRun, MarkRunning, MarkCancelled, Unless, TerminalRun, TypeOK
<1> QED BY <1>4, <1>5, <1>6

\* A restart leaves no coroutine, and no run half done among those it recovers.
LEMMA RestartStep ==
  ASSUME TypeOK, AInv, NEW S \in SUBSET Runs, Restart(S)
  PROVE  AInv'
<1>1. /\ \A e \in Executors : cur'[e] = None /\ task'[e] = NoTask /\ known'[e] = Unknown
      /\ batch' = {}
  BY DEF Restart
<1>2. ASSUME NEW e \in Executors PROVE ExecOK(e)'
  <2>1. ~Live(e)' /\ ~Lame(e)'
    BY <1>1, Constants DEF Live, Lame, NoTask
  <2>2. RoundOf(e)'
    BY <1>1, ConstantsAssumption DEF RoundOf, NoTask
  <2>3. ContextOf(e)'
    BY <1>1, <2>1 DEF ContextOf, NoTask, Unknown
  <2> QED BY <2>1, <2>2, <2>3 DEF ExecOK, DriverOf
<1>3. ASSUME NEW r \in Runs PROVE RunOK(r)'
  <2>0. RunOK(r) /\ \A e \in Executors : cur'[e] # r
    BY <1>1, Constants DEF AInv
  <2>1. CASE r \in S
    <3>1. run'[r] \in {"failed", "cancelled"}
      BY <2>1 DEF Restart, Recovered
    <3>2. /\ DOMAIN rows'[r] = DOMAIN rows[r]
          /\ \A j \in DOMAIN rows[r] :
               /\ rows'[r][j].op = rows[r][j].op
               /\ rows'[r][j].status \notin WaitingOp
      <4>1. rows'[r] = [i \in DOMAIN rows[r] |-> [rows[r][i] EXCEPT !.status =
                           IF @ \in TerminalOp THEN @ ELSE Recovered(run[r])]]
        BY <2>1 DEF Restart
      <4>2. \A j \in DOMAIN rows[r] : rows[r][j] \in Row
        BY DEF TypeOK
      <4>3. ASSUME NEW j \in DOMAIN rows[r]
            PROVE  /\ rows'[r][j].op = rows[r][j].op
                   /\ rows'[r][j].status \notin WaitingOp
        <5>1. rows[r][j] = [op |-> rows[r][j].op, status |-> rows[r][j].status]
          BY <4>2 DEF Row
        <5>2. rows'[r][j] = [op |-> rows[r][j].op,
                             status |-> IF rows[r][j].status \in TerminalOp
                                        THEN rows[r][j].status ELSE Recovered(run[r])]
          BY <4>1, <5>1
        <5> QED BY <5>2 DEF Recovered, TerminalOp, WaitingOp
      <4> QED BY <4>1, <4>3
    <3> QED BY <1>1, <2>0, <3>1, <3>2 DEF RunOK, Pauses
  <2>2. CASE r \notin S
    <3>1. run'[r] = run[r] /\ rows'[r] = rows[r]
      BY <2>2 DEF Restart
    <3> QED BY <1>1, <2>0, <3>1 DEF RunOK, Pauses
  <2> QED BY <2>1, <2>2
<1> QED BY <1>2, <1>3 DEF AInv

---------------------------------------------------------------------------
\* Every step.
LEMMA AloneStep ==
  ASSUME PausesAlone, IInv, IInv', AInv, [Next]_vars
  PROVE  AInv'
<1> USE DEF IInv
<1>1. ASSUME NEW e \in Executors, NEW o \in Ops, OpStep(e, o) PROVE AInv'
  BY <1>1, StartStep, BodyStep, PauseStep, ResumedReturnStep, ResumedStopStep DEF OpStep
<1>2. ASSUME NEW e \in Executors, RoundEnd(e) PROVE AInv'
  <2>1. Live(e) \/ Lame(e)
    BY <1>2 DEF RoundEnd, TypeOK, Live
  <2> QED BY <1>2, <2>1, DriverRoundEnd, LameRoundEnd
<1>3. ASSUME NEW r \in Runs, Request(r) PROVE AInv'
  BY <1>3, EnqueueStep, CancelRequestStep, PauseEndStep, ResumeStep DEF Request
<1>4. ASSUME NEW S \in SUBSET Runs, Restart(S) PROVE AInv'
  BY <1>4, RestartStep
<1>5. CASE WorkerTick
  <2>1. PICK r \in Runs : IsOldest(r, Listed) /\ batch' = Listed \ {r} /\ ExecuteRun(r)
    BY <1>5 DEF WorkerTick
  <2>2. run[r] = "queued" /\ \A q \in Listed : q \in Runs /\ run[q] = "queued"
    BY <2>1 DEF IsOldest, Listed, Queued
  <2>3. batch' \in SUBSET Runs /\ r \notin batch' /\ \A q \in batch' : run[q] = "queued"
    BY <2>1, <2>2
  <2> QED BY <1>5, <2>1, <2>2, <2>3, WorkerStep DEF WorkerTick
<1>6. CASE WorkerNext
  <2>1. PICK r \in Runs : r \in batch /\ batch' = batch \ {r} /\ ExecuteRun(r)
    BY <1>6 DEF WorkerNext, IsOldest
  <2>2. run[r] \in {"queued", "cancel_requested"} /\ batch' \in SUBSET Runs
    BY <2>1 DEF AInv, RunOK, TypeOK
  <2> QED BY <1>6, <2>1, <2>2, WorkerStep DEF WorkerNext
<1>7. CASE UNCHANGED vars
  <2>1. /\ run' = run /\ rows' = rows /\ batch' = batch /\ cur' = cur
        /\ known' = known /\ task' = task /\ view' = view
    BY <1>7 DEF vars
  <2>2. \A e \in Executors : ExecOK(e)'
    BY <2>1 DEF AInv, ExecOK, RoundOf, ContextOf, DriverOf, Live, Lame, Resuming, Pauses
  <2>3. \A r \in Runs : RunOK(r)'
    BY <2>1 DEF AInv, RunOK, Pauses
  <2> QED BY <2>2, <2>3 DEF AInv
<1> QED BY <1>1, <1>2, <1>3, <1>4, <1>5, <1>6, <1>7 DEF Next, Serve

\* The invariant of the workflows in which a pause is alone in its round.
THEOREM AloneInvariant == PausesAlone => (Spec => []AInv)
<1> SUFFICES ASSUME PausesAlone PROVE Spec => []AInv
  OBVIOUS
<1>1. ASSUME Init PROVE AInv
  <2>1. \A e \in Executors : ~Live(e) /\ ~Lame(e)
    BY <1>1, Constants DEF Init, Live, Lame, NoTask
  <2>2. \A e \in Executors : ExecOK(e)
    BY <1>1, <2>1, ConstantsAssumption DEF Init, ExecOK, RoundOf, ContextOf, DriverOf, NoTask, Unknown
  <2>3. \A r \in Runs : DOMAIN rows[r] = {} /\ run[r] = "absent" /\ r \notin batch /\ \A e \in Executors : cur[e] # r
    BY <1>1, Constants DEF Init
  <2> QED BY <2>2, <2>3 DEF AInv, RunOK, Pauses
<1>2. IInv /\ IInv' /\ AInv /\ [Next]_vars => AInv'
  BY AloneStep
<1>3. Init => AInv
  BY <1>1
<1> QED BY <1>2, <1>3, Invariant, PTL DEF Spec

\* In such a workflow no operation is executed twice in a run: not by the
\* coroutine that a pause left behind and the one that resumes it, not by two
\* resumes, and not by a context rebuilt from the operation runs.
THEOREM NoneTwice == PausesAlone => (Spec => []ExecutedOnce)
<1> SUFFICES ASSUME PausesAlone PROVE Spec => []ExecutedOnce
  OBVIOUS
<1>1. AInv => ExecutedOnce
  BY DEF AInv, RunOK, ExecutedOnce
<1>2. Spec => []AInv
  BY AloneInvariant
<1> QED BY <1>1, <1>2, PTL

\* In such a workflow a run is called a success only when all its operations
\* have been executed, all with success.
THEOREM SuccessMeansAll == PausesAlone => (Spec => []SuccessIsComplete)
<1> SUFFICES ASSUME PausesAlone PROVE Spec => []SuccessIsComplete
  OBVIOUS
<1>1. AInv => SuccessIsComplete
  BY DEF AInv, RunOK, SuccessIsComplete
<1>2. Spec => []AInv
  BY AloneInvariant
<1> QED BY <1>1, <1>2, PTL

\* In such a workflow a run that is waiting has a pause somebody can answer.
THEOREM WaitingHasPause == PausesAlone => (Spec => []WaitingIsResumable)
<1> SUFFICES ASSUME PausesAlone PROVE Spec => []WaitingIsResumable
  OBVIOUS
<1>1. AInv => WaitingIsResumable
  BY DEF AInv, RunOK, WaitingIsResumable, Pauses
<1>2. Spec => []AInv
  BY AloneInvariant
<1> QED BY <1>1, <1>2, PTL

---------------------------------------------------------------------------
(* A run that has ended keeps its status.                                  *)

\* The guarded transitions leave a run that has ended alone.
LEMMA TerminalTable ==
  ASSUME NEW s \in TerminalRun
  PROVE  /\ MarkRunning(s) = s /\ MarkFinished(s) = s /\ MarkWaiting(s) = s
         /\ MarkFailed(s) = s /\ MarkCancelled(s) = s /\ RequestCancel(s) = s
  BY DEF MarkRunning, MarkFinished, MarkWaiting, MarkFailed, MarkCancelled, RequestCancel, Unless

\* The steps of a coroutine are of a run that has not ended, or write nothing.
LEMMA TerminalDriver ==
  ASSUME TypeOK, Idle, AInv, NEW r \in Runs, run[r] \in TerminalRun, NEW e \in Executors,
         RoundEnd(e) \/ \E o \in Ops : OpStep(e, o)
  PROVE  run'[r] = run[r]
<1>1. ASSUME NEW q \in Runs, cur[e] = q, Live(e) PROVE q # r
  BY <1>1 DEF AInv, ExecOK, DriverOf, TerminalRun
<1>2. ASSUME NEW q \in Runs, NEW s, NEW outcome, q # r, Conclude(e, q, s, outcome) PROVE run'[r] = run[r]
  BY <1>2 DEF Conclude, Write, TypeOK
<1>3. ASSUME NEW q \in Runs, NEW s, NEW k, q # r, Loop(e, q, s, k) PROVE run'[r] = run[r]
  BY <1>2, <1>3 DEF Loop
<1>4. CASE RoundEnd(e)
  <2>1. PICK q \in Runs : cur[e] = q
    BY <1>4 DEF RoundEnd, TypeOK
  <2>2. CASE Lame(e)
    <3>1. \A p \in Runs : p # q => run'[p] = run[p]
      BY <1>4, <2>1, <2>2, LameWrite
    <3>2. run'[q] = run[q] \/ run[q] = "cancel_requested"
      BY <1>4, <2>1, <2>2, LameWrite
    <3> QED BY <3>1, <3>2 DEF TerminalRun
  <2>3. CASE Live(e)
    <3>1. q # r
      BY <1>1, <2>1, <2>3
    <3> QED BY <1>2, <1>3, <1>4, <2>1, <3>1 DEF RoundEnd
  <2> QED BY <2>1, <2>2, <2>3 DEF Live
<1>5. ASSUME NEW o \in Ops, OpStep(e, o) PROVE run'[r] = run[r]
  <2>1. CASE UNCHANGED run
    BY <2>1
  <2>2. CASE OpPause(e, o) \/ ResumedReturn(e, o) \/ ResumedStop(e, o)
    <3>1. Live(e)
      BY <2>2, FlyingLive DEF OpPause, InBody, ResumedReturn, ResumedStop
    <3>2. PICK q \in Runs : cur[e] = q
      BY <3>1 DEF Live
    <3>3. q # r
      BY <1>1, <3>1, <3>2
    <3> QED BY <1>2, <1>3, <2>2, <3>2, <3>3 DEF OpPause, ResumedReturn, ResumedStop, TypeOK
  <2> QED BY <1>5, <2>1, <2>2
      DEF OpStep, OpStart, OpReturn, OpFailed, OpRetry, OpPoll, OpProgress, ResumedRaise
<1> QED BY <1>4, <1>5

\* No step changes the status of a run that has ended.
LEMMA TerminalStep ==
  ASSUME TypeOK, Idle, AInv, [Next]_vars, NEW r \in Runs, run[r] \in TerminalRun
  PROVE  run'[r] = run[r]
<1>1. ASSUME NEW q \in Runs, ExecuteRun(q), run[q] \in {"queued", "cancel_requested"} PROVE run'[r] = run[r]
  <2>1. q # r
    BY <1>1 DEF TerminalRun
  <2> QED BY <1>1, <2>1 DEF ExecuteRun, TypeOK
<1>2. CASE WorkerTick
  BY <1>1, <1>2 DEF WorkerTick, IsOldest, Listed, Queued
<1>3. CASE WorkerNext
  <2>1. PICK q \in Runs : q \in batch /\ ExecuteRun(q)
    BY <1>3 DEF WorkerNext, IsOldest
  <2>2. run[q] \in {"queued", "cancel_requested"}
    BY <2>1 DEF AInv, RunOK
  <2> QED BY <1>1, <2>1, <2>2
<1>4. ASSUME NEW q \in Runs, Request(q) PROVE run'[r] = run[r]
  <2>1. CASE Enqueue(q)
    BY <2>1 DEF Enqueue, TypeOK, TerminalRun
  <2>2. CASE Cancel(q)
    BY <2>2, TerminalTable DEF Cancel, TypeOK
  <2>3. ASSUME NEW o \in Ops, ExpirePause(q, o) PROVE run'[r] = run[r]
    BY <2>3, TerminalTable DEF ExpirePause, TypeOK
  <2>4. ASSUME NEW o \in Ops, ResumeRejected(q, o) PROVE run'[r] = run[r]
    BY <2>4, TerminalTable DEF ResumeRejected, TypeOK
  <2>5. ASSUME NEW e \in Resumers, NEW o \in Ops, Resume(e, q, o) PROVE run'[r] = run[r]
    BY <2>5, TerminalTable DEF Resume, TypeOK
  <2> QED BY <1>4, <2>1, <2>2, <2>3, <2>4, <2>5 DEF Request
<1>5. ASSUME NEW S \in SUBSET Runs, Restart(S) PROVE run'[r] = run[r]
  BY <1>5 DEF Restart, TerminalRun
<1>6. ASSUME NEW e \in Executors, RoundEnd(e) \/ \E o \in Ops : OpStep(e, o) PROVE run'[r] = run[r]
  BY <1>6, TerminalDriver
<1>7. CASE UNCHANGED vars
  BY <1>7 DEF vars
<1> QED BY <1>2, <1>3, <1>4, <1>5, <1>6, <1>7 DEF Next, Serve

\* In such a workflow a run that has ended keeps its status: a coroutine whose
\* session still holds an older view of it never writes that view back.
THEOREM EndedRunsStay == PausesAlone => (Spec => TerminalRunsFinal)
<1> SUFFICES ASSUME PausesAlone PROVE Spec => TerminalRunsFinal
  OBVIOUS
<1>1. IInv /\ AInv /\ [Next]_vars => [\A r \in Runs : run[r] \in TerminalRun => run'[r] = run[r]]_vars
  BY TerminalStep DEF IInv
<1>2. Spec => []AInv
  BY AloneInvariant
<1> QED BY <1>1, <1>2, Invariant, PTL DEF Spec, TerminalRunsFinal
=============================================================================
