----------------------------- MODULE ForEach_proofs -----------------------------
(***************************************************************************)
(* Proofs about ForEach, for every list, limit and number of attempts.     *)
(*                                                                         *)
(* What the operation reports when it ends rests on what the loop knows of *)
(* the results it has taken: Outcomes says what each end of a task tells   *)
(* of its child run, and that the loop goes on only after results that are *)
(* a success or a tolerated failure.  Asked says what an item that raises  *)
(* under "stop" has done to the others.                                    *)
(***************************************************************************)
EXTENDS ForEach, TLAPS

Outcomes ==
  \A i \in Items :
    /\ task[i] = "success" => child[i] \in {"success", "waiting", "cancelled"}
    /\ task[i] = "failed" => strategy = "continue" /\ child[i] \in {"failed", "cancelled"}
    /\ task[i] = "cancelled" => parent = "cancel_requested"
    /\ op = "looping" => task[i] # "stopped"
    /\ op = "looping" /\ i \in seen => task[i] \in {"success", "failed"}

\* TypeOK in parts: the tasks and their child runs, and the rest.
Rows ==
  /\ child \in [Items -> RunStates \cup {"absent"}]
  /\ task \in [Items -> {"ready", "executing"} \cup Done]
  /\ \A i \in Items : task[i] = "executing" => child[i] \in {"running", "cancel_requested"}

Others ==
  /\ strategy \in {"stop", "continue"} /\ malformed \subseteq Malformable
  /\ parent \in {"running", "cancel_requested"}
  /\ orphans \subseteq Items /\ seen \subseteq Items
  /\ op \in {"looping", "stopping"} \cup Ended
  /\ why \in {"nothing", "failed", "timeout", "cancelled"}
  /\ attempt \in 1..Attempts
  /\ stale \in BOOLEAN /\ late \subseteq Items
  /\ dismissed \subseteq Items /\ escaped \in Nat

\* Why a child run is cancelled, or about to be, while the loop goes on: by a request
\* for it, for a sibling that raised, or with the run; and the last not if the loop has
\* taken its result.
Called(i) == i \in dismissed \/ \E j \in Items : task[j] = "raised"

Causes ==
  \A i \in Items : op = "looping" =>
    /\ child[i] = "cancel_requested" \/ (task[i] = "success" /\ child[i] = "cancelled") =>
         Called(i) \/ parent = "cancel_requested"
    /\ i \in seen /\ task[i] = "success" /\ child[i] = "cancelled" => Called(i)

\* After a cancel of the run there is one chance for a child run to escape it: the
\* session's old row, then the run started on it, then the end of that run.
Chances ==
  /\ parent = "running" => escaped = 0 /\ ~stale
  /\ escaped <= 1
  /\ parent = "cancel_requested" =>
       /\ \A i, j \in Items : child[i] = "running" /\ child[j] = "running" => i = j
       /\ \A i \in Items : child[i] = "running" => escaped = 0 /\ ~stale
       /\ escaped > 0 => ~stale

IInv == TypeOK /\ Contained /\ Outcomes /\ Causes /\ Chances /\ ReportsFailures

--------------------------------------------------------------------------------
(* The operators.                                                          *)

LEMMA Closed ==
  ASSUME NEW c \in [Items -> RunStates \cup {"absent"}], NEW i
  PROVE  /\ CancelOpenIn(c, i) \in [Items -> RunStates \cup {"absent"}]
         /\ \A j \in Items :
              \/ CancelOpenIn(c, i)[j] = c[j]
              \/ c[j] \in {"queued", "running"} /\ CancelOpenIn(c, i)[j] = "cancel_requested"
  BY DEF CancelOpenIn, RunStates, ActiveRun, TerminalRun

LEMMA Marks ==
  ASSUME NEW s \in {"running", "cancel_requested"}
  PROVE  /\ MarkFailed(s) = "failed" /\ MarkCancelled(s) = "cancelled"
         /\ s # "cancel_requested" => MarkFinished(s) = "success" /\ MarkWaiting(s) = "waiting"
         /\ RequestCancel(s) = "cancel_requested" /\ MarkRunning("queued") = "running"
  BY DEF MarkFailed, MarkCancelled, MarkFinished, MarkWaiting, RequestCancel, MarkRunning,
         Unless, TerminalRun

LEMMA States ==
  /\ {"queued", "running", "cancel_requested", "waiting", "success", "failed", "cancelled"} = RunStates
  /\ Open \subseteq RunStates
  BY DEF RunStates, TerminalRun, ActiveRun, Open

--------------------------------------------------------------------------------
(* The initial states and the steps.                                       *)

LEMMA Parts == TypeOK <=> Rows /\ Others
BY DEF TypeOK, Rows, Others

LEMMA Initially == Init => IInv
<1> SUFFICES ASSUME Init PROVE IInv
  OBVIOUS
<1>1. TypeOK
  <2>1. Rows
    BY States DEF Init, Rows, Done
  <2>2. Others
    <3>1. 1 \in 1..Attempts
      BY ForEachAssumption
    <3> QED
      BY <3>1 DEF Init, Others, Ended
  <2> QED
    BY <2>1, <2>2, Parts
<1>2. Contained /\ Outcomes /\ Causes /\ Chances /\ ReportsFailures
  BY DEF Init, Contained, Open, Outcomes, Causes, Chances, ReportsFailures, Ended
<1> QED
  BY <1>1, <1>2 DEF IInv

LEMMA OthersStep == IInv /\ [Next]_vars => Others'
<1> SUFFICES ASSUME IInv, [Next]_vars PROVE Others'
  OBVIOUS
<1> USE ForEachAssumption, Parts DEF IInv, Others, config, asked, Ended, Commit, RequestCancel, Unless, TerminalRun
<1>1. ASSUME NEW i \in Items, StartItem(i) PROVE Others'
  BY <1>1 DEF StartItem
<1>2. ASSUME NEW i \in Items, RejectItem(i) PROVE Others'
  BY <1>2 DEF RejectItem
<1>3. ASSUME NEW i \in Items, ItemReturns(i) PROVE Others'
  <2>1. escaped' \in Nat
    BY <1>3 DEF ItemReturns
  <2> QED BY <1>3, <2>1 DEF ItemReturns
<1>4. ASSUME NEW i \in Items, ItemFails(i) PROVE Others'
  BY <1>4 DEF ItemFails, ItemRaises
<1>5. ASSUME NEW i \in Items, ItemTimeout(i) PROVE Others'
  BY <1>5 DEF ItemTimeout, ItemRaises
<1>6. ASSUME NEW i \in Items, Collect(i) PROVE Others'
  BY <1>6 DEF Collect, StopAll
<1>7. ASSUME NEW i \in Items, StopItem(i) PROVE Others'
  BY <1>7 DEF StopItem
<1>8. CASE Watch
  BY <1>8 DEF Watch, StopAll
<1>9. CASE Timeout
  BY <1>9 DEF Timeout, StopAll
<1>10. CASE Stopped
  BY <1>10 DEF Stopped, Retry, GiveUp
<1>11. CASE Finish
  BY <1>11 DEF Finish
<1>12. CASE CancelRun
  BY <1>12 DEF CancelRun
<1>13. ASSUME NEW i \in Items, CancelChild(i) PROVE Others'
  BY <1>13 DEF CancelChild
<1>14. CASE UNCHANGED vars
  BY <1>14 DEF vars, config
<1> QED
  BY <1>1, <1>2, <1>3, <1>4, <1>5, <1>6, <1>7, <1>8, <1>9, <1>10, <1>11, <1>12, <1>13, <1>14
  DEF Next, EndItem, Requests

\* What the except clause leaves of the rows.
LEMMA Raises ==
  ASSUME Rows, NEW i \in Items, NEW s \in {"failed", "cancelled"}, ItemRaises(i, s)
  PROVE  /\ child' \in [Items -> RunStates \cup {"absent"}] /\ child'[i] = s
         /\ \A j \in Items \ {i} :
              child'[j] = child[j] \/ (child[j] \in {"queued", "running"} /\ child'[j] = "cancel_requested")
         /\ task' \in [Items -> {"ready", "executing"} \cup Done]
         /\ task'[i] = "raised" \/ (task'[i] = "failed" /\ strategy = "continue")
         /\ \A j \in Items \ {i} : task'[j] = task[j]
<1> DEFINE c == EndAs(i, s)
<1>1. c \in [Items -> RunStates \cup {"absent"}] /\ c[i] = s /\ \A j \in Items \ {i} : c[j] = child[j]
  BY States DEF Rows, EndAs
<1>2. child' \in [Items -> RunStates \cup {"absent"}] /\ child'[i] = s
  BY <1>1, Closed DEF ItemRaises
<1>3. \A j \in Items \ {i} :
        child'[j] = child[j] \/ (child[j] \in {"queued", "running"} /\ child'[j] = "cancel_requested")
  BY <1>1, Closed DEF ItemRaises
<1>4. /\ task' \in [Items -> {"ready", "executing"} \cup Done]
      /\ task'[i] = "raised" \/ (task'[i] = "failed" /\ strategy = "continue")
      /\ \A j \in Items \ {i} : task'[j] = task[j]
  BY DEF ItemRaises, Rows, Becomes, Done
<1> QED
  BY <1>2, <1>3, <1>4

LEMMA RowsStep == IInv /\ [Next]_vars => Rows'
<1> SUFFICES ASSUME IInv, [Next]_vars PROVE Rows'
  OBVIOUS
<1> USE Parts, States DEF IInv, Rows, config, Done, Becomes, EndAs
<1>1. ASSUME NEW i \in Items, StartItem(i) PROVE Rows'
  BY <1>1, Closed, Marks DEF StartItem
<1>2. ASSUME NEW i \in Items, RejectItem(i) PROVE Rows'
  BY <1>2 DEF RejectItem
<1>3. ASSUME NEW i \in Items, ItemReturns(i) PROVE Rows'
  BY <1>3, Marks DEF ItemReturns
<1>4. ASSUME NEW i \in Items, ItemFails(i) PROVE Rows'
  BY <1>4, Marks, Raises DEF ItemFails
<1>5. ASSUME NEW i \in Items, ItemTimeout(i) PROVE Rows'
  BY <1>5, Marks, Raises DEF ItemTimeout
<1>6. ASSUME NEW i \in Items, Collect(i) PROVE Rows'
  BY <1>6, Closed DEF Collect, StopAll
<1>7. ASSUME NEW i \in Items, StopItem(i) PROVE Rows'
  BY <1>7, Marks DEF StopItem
<1>8. CASE Watch
  BY <1>8, Closed DEF Watch, StopAll
<1>9. CASE Timeout
  BY <1>9, Closed DEF Timeout, StopAll
<1>10. CASE Stopped
  BY <1>10 DEF Stopped, Retry, GiveUp
<1>11. CASE Finish
  BY <1>11 DEF Finish
<1>12. CASE CancelRun
  BY <1>12, Closed DEF CancelRun
<1>13. ASSUME NEW i \in Items, CancelChild(i) PROVE Rows'
  BY <1>13, Marks DEF CancelChild
<1>14. CASE UNCHANGED vars
  BY <1>14 DEF vars, config
<1> QED
  BY <1>1, <1>2, <1>3, <1>4, <1>5, <1>6, <1>7, <1>8, <1>9, <1>10, <1>11, <1>12, <1>13, <1>14
  DEF Next, EndItem, Requests

LEMMA TypeStep == IInv /\ [Next]_vars => TypeOK'
<1>1. TypeOK' <=> Rows' /\ Others'
  BY DEF TypeOK, Rows, Others
<1> QED
  BY <1>1, RowsStep, OthersStep

--------------------------------------------------------------------------------
(* What the tasks and their child runs say of each other.                   *)

LEMMA RaisesKeeps ==
  ASSUME IInv, NEW i \in Items, task[i] = "executing", op = "looping",
         NEW s \in {"failed", "cancelled"}, ItemRaises(i, s)
  PROVE  Contained' /\ Outcomes'
<1>1. /\ Rows /\ child'[i] = s
      /\ \A j \in Items \ {i} :
           child'[j] = child[j] \/ (child[j] \in {"queued", "running"} /\ child'[j] = "cancel_requested")
      /\ task'[i] = "raised" \/ (task'[i] = "failed" /\ strategy = "continue")
      /\ \A j \in Items \ {i} : task'[j] = task[j]
  BY Parts, Raises DEF IInv
<1>2. UNCHANGED <<strategy, parent, orphans, seen, op>>
  BY DEF ItemRaises, config
<1>3. ASSUME NEW j \in Items, child'[j] \in Open PROVE task'[j] = "executing" /\ op' \in {"looping", "stopping"}
  BY <1>1, <1>2, <1>3 DEF IInv, Contained, Open
<1>4. ASSUME NEW j \in Items
      PROVE  /\ task'[j] = "success" => child'[j] \in {"success", "waiting", "cancelled"}
             /\ task'[j] = "failed" => strategy' = "continue" /\ child'[j] \in {"failed", "cancelled"}
             /\ task'[j] = "cancelled" => parent' = "cancel_requested"
             /\ op' = "looping" => task'[j] # "stopped"
             /\ op' = "looping" /\ j \in seen' => task'[j] \in {"success", "failed"}
  <2>1. CASE j = i
    <3>1. i \notin seen
      BY DEF IInv, Outcomes
    <3> QED
      BY <1>1, <1>2, <2>1, <3>1
  <2>2. CASE j # i
    BY <1>1, <1>2, <2>2 DEF IInv, Outcomes
  <2> QED
    BY <2>1, <2>2
<1>5. Contained'
  BY <1>2, <1>3 DEF IInv, Contained
<1>6. Outcomes'
  BY <1>4 DEF Outcomes
<1> QED
  BY <1>5, <1>6

LEMMA ContainedStep == IInv /\ [Next]_vars => Contained'
<1> SUFFICES ASSUME IInv, [Next]_vars PROVE Contained'
  OBVIOUS
<1> USE Parts, States DEF IInv, Rows, Contained, Open, Done, Ended, config, Becomes, EndAs
<1>1. ASSUME NEW i \in Items, StartItem(i) PROVE Contained'
  BY <1>1, Closed, Marks DEF StartItem
<1>2. ASSUME NEW i \in Items, RejectItem(i) PROVE Contained'
  BY <1>2 DEF RejectItem
<1>3. ASSUME NEW i \in Items, ItemReturns(i) PROVE Contained'
  BY <1>3, Marks DEF ItemReturns
<1>4. ASSUME NEW i \in Items, ItemFails(i) PROVE Contained'
  BY <1>4, Marks, RaisesKeeps DEF ItemFails
<1>5. ASSUME NEW i \in Items, ItemTimeout(i) PROVE Contained'
  BY <1>5, Marks, RaisesKeeps DEF ItemTimeout
<1>6. ASSUME NEW i \in Items, Collect(i) PROVE Contained'
  BY <1>6, Closed DEF Collect, StopAll
<1>7. ASSUME NEW i \in Items, StopItem(i) PROVE Contained'
  BY <1>7, Marks DEF StopItem
<1>8. CASE Watch
  BY <1>8, Closed DEF Watch, StopAll
<1>9. CASE Timeout
  BY <1>9, Closed DEF Timeout, StopAll
<1>10. CASE Stopped
  BY <1>10 DEF Stopped, Retry, GiveUp
<1>11. CASE Finish
  BY <1>11 DEF Finish, Outcomes
<1>12. CASE CancelRun
  BY <1>12, Closed DEF CancelRun
<1>13. ASSUME NEW i \in Items, CancelChild(i) PROVE Contained'
  BY <1>13, Marks DEF CancelChild
<1>14. CASE UNCHANGED vars
  BY <1>14 DEF vars, config
<1> QED
  BY <1>1, <1>2, <1>3, <1>4, <1>5, <1>6, <1>7, <1>8, <1>9, <1>10, <1>11, <1>12, <1>13, <1>14
  DEF Next, EndItem, Requests

LEMMA OutcomesStep == IInv /\ [Next]_vars => Outcomes'
<1> SUFFICES ASSUME IInv, [Next]_vars PROVE Outcomes'
  OBVIOUS
<1> USE Parts, States DEF IInv, Rows, Outcomes, Done, Ended, config, Becomes, EndAs
<1>1. ASSUME NEW i \in Items, StartItem(i) PROVE Outcomes'
  BY <1>1, Closed, Marks DEF StartItem, Requested
<1>2. ASSUME NEW i \in Items, RejectItem(i) PROVE Outcomes'
  BY <1>2 DEF RejectItem
<1>3. ASSUME NEW i \in Items, ItemReturns(i) PROVE Outcomes'
  BY <1>3, Marks DEF ItemReturns
<1>4. ASSUME NEW i \in Items, ItemFails(i) PROVE Outcomes'
  BY <1>4, Marks, RaisesKeeps DEF ItemFails
<1>5. ASSUME NEW i \in Items, ItemTimeout(i) PROVE Outcomes'
  BY <1>5, Marks, RaisesKeeps DEF ItemTimeout
<1>6. ASSUME NEW i \in Items, Collect(i) PROVE Outcomes'
  BY <1>6, Closed DEF Collect, StopAll
<1>7. ASSUME NEW i \in Items, StopItem(i) PROVE Outcomes'
  BY <1>7, Marks DEF StopItem
<1>8. CASE Watch
  BY <1>8, Closed DEF Watch, StopAll
<1>9. CASE Timeout
  BY <1>9, Closed DEF Timeout, StopAll
<1>10. CASE Stopped
  BY <1>10 DEF Stopped, Retry, GiveUp
<1>11. CASE Finish
  BY <1>11 DEF Finish
<1>12. CASE CancelRun
  BY <1>12, Closed DEF CancelRun, RequestCancel, Unless, TerminalRun
<1>13. ASSUME NEW i \in Items, CancelChild(i) PROVE Outcomes'
  BY <1>13, Marks DEF CancelChild
<1>14. CASE UNCHANGED vars
  BY <1>14 DEF vars, config
<1> QED
  BY <1>1, <1>2, <1>3, <1>4, <1>5, <1>6, <1>7, <1>8, <1>9, <1>10, <1>11, <1>12, <1>13, <1>14
  DEF Next, EndItem, Requests

\* An item whose result is taken ended before: the loop goes on only without a cancel
\* of the run.
LEMMA CausesStep == IInv /\ [Next]_vars => Causes'
<1> SUFFICES ASSUME IInv, [Next]_vars PROVE Causes'
  OBVIOUS
<1> USE Parts, States DEF IInv, Rows, Causes, Called, Done, Ended, config, asked, Becomes, EndAs
<1>1. ASSUME NEW i \in Items, StartItem(i) PROVE Causes'
  BY <1>1, Closed, Marks DEF StartItem, Requested
<1>2. ASSUME NEW i \in Items, RejectItem(i) PROVE Causes'
  BY <1>2 DEF RejectItem
<1>3. ASSUME NEW i \in Items, ItemReturns(i) PROVE Causes'
  BY <1>3, Marks DEF ItemReturns, Outcomes
<1>4. ASSUME NEW i \in Items, NEW s \in {"failed", "cancelled"}, task[i] = "executing", ItemRaises(i, s)
      PROVE Causes'
  BY <1>4, Raises DEF ItemRaises
<1>5. ASSUME NEW i \in Items, ItemFails(i) \/ ItemTimeout(i) PROVE Causes'
  BY <1>4, <1>5, Marks DEF ItemFails, ItemTimeout
<1>6. ASSUME NEW i \in Items, Collect(i) PROVE Causes'
  BY <1>6, Closed DEF Collect, StopAll
<1>7. ASSUME NEW i \in Items, StopItem(i) PROVE Causes'
  BY <1>7, Marks DEF StopItem
<1>8. CASE Watch \/ Timeout
  BY <1>8, Closed DEF Watch, Timeout, StopAll
<1>9. CASE Stopped
  BY <1>9 DEF Stopped, Retry, GiveUp
<1>10. CASE Finish
  BY <1>10 DEF Finish
<1>11. CASE CancelRun
  BY <1>11, Closed DEF CancelRun, RequestCancel, Unless, TerminalRun
<1>12. ASSUME NEW i \in Items, CancelChild(i) PROVE Causes'
  BY <1>12, Marks DEF CancelChild
<1>13. CASE UNCHANGED vars
  BY <1>13 DEF vars
<1> QED
  BY <1>1, <1>2, <1>3, <1>5, <1>6, <1>7, <1>8, <1>9, <1>10, <1>11, <1>12, <1>13
  DEF Next, EndItem, Requests

\* A step that starts nothing and lets nothing escape.
LEMMA NoneStarts ==
  ASSUME Chances, UNCHANGED <<parent, escaped>>, stale' => stale,
         \A i \in Items : child'[i] = "running" => child[i] = "running"
  PROVE  Chances'
BY DEF Chances

LEMMA ChancesStep == IInv /\ [Next]_vars => Chances'
<1> SUFFICES ASSUME IInv, [Next]_vars PROVE Chances'
  OBVIOUS
<1> USE Parts, States DEF IInv, Rows, Others, config, asked, Becomes, EndAs, Commit
<1>1. ASSUME NEW i \in Items, StartItem(i) PROVE Chances'
  <2>1. CASE Requested
    BY <1>1, <2>1, Closed, NoneStarts DEF StartItem
  <2>2. CASE ~Requested
    <3>1. UNCHANGED <<parent, escaped>> /\ stale' = FALSE /\ child' = [child EXCEPT ![i] = "running"]
      BY <1>1, <2>2, Marks DEF StartItem
    <3>2. parent = "cancel_requested" => escaped = 0 /\ \A j \in Items : child[j] # "running"
      BY <2>2 DEF Requested, Chances
    <3> QED BY <3>1, <3>2 DEF Chances
  <2> QED BY <2>1, <2>2
<1>2. ASSUME NEW i \in Items, RejectItem(i) PROVE Chances'
  BY <1>2, NoneStarts DEF RejectItem
<1>3. ASSUME NEW i \in Items, ItemReturns(i) PROVE Chances'
  <2>1. CASE child[i] = "cancel_requested"
    BY <1>3, <2>1, Marks, NoneStarts DEF ItemReturns
  <2>2. CASE child[i] # "cancel_requested"
    <3>1. child[i] = "running" /\ UNCHANGED parent /\ stale' = FALSE
          /\ escaped' = IF parent = "cancel_requested" THEN escaped + 1 ELSE escaped
      BY <1>3, <2>2 DEF ItemReturns
    <3>2. \A j \in Items : child'[j] = "running" => j # i /\ child[j] = "running"
      BY <1>3, <2>2, <3>1, Marks DEF ItemReturns
    <3> QED BY <3>1, <3>2 DEF Chances
  <2> QED BY <2>1, <2>2
<1>4. ASSUME NEW i \in Items, NEW s \in {"failed", "cancelled"}, ItemRaises(i, s) PROVE Chances'
  BY <1>4, Raises, NoneStarts DEF ItemRaises
<1>5. ASSUME NEW i \in Items, ItemFails(i) \/ ItemTimeout(i) PROVE Chances'
  BY <1>4, <1>5, Marks DEF ItemFails, ItemTimeout
<1>6. ASSUME NEW i \in Items, Collect(i) PROVE Chances'
  BY <1>6, Closed, NoneStarts DEF Collect
<1>7. ASSUME NEW i \in Items, StopItem(i) PROVE Chances'
  BY <1>7, Marks, NoneStarts DEF StopItem
<1>8. CASE Watch \/ Timeout
  BY <1>8, Closed, NoneStarts DEF Watch, Timeout
<1>9. CASE Stopped
  BY <1>9, NoneStarts DEF Stopped, Retry, GiveUp
<1>10. CASE Finish
  BY <1>10, NoneStarts DEF Finish
<1>11. CASE CancelRun
  <2>1. \A j \in Items : child'[j] # "running"
    <3>1. ASSUME NEW j \in Items PROVE CancelOpenIn(child, 0)[j] # "running"
      <4>1. j # 0
        BY ForEachAssumption
      <4> QED BY <4>1 DEF CancelOpenIn
    <3> QED BY <1>11, <3>1 DEF CancelRun
  <2>2. parent = "running" /\ parent' = "cancel_requested" /\ escaped' = escaped
    BY <1>11, Marks DEF CancelRun
  <2> QED BY <2>1, <2>2 DEF Chances
<1>12. ASSUME NEW i \in Items, CancelChild(i) PROVE Chances'
  BY <1>12, Marks, NoneStarts DEF CancelChild
<1>13. CASE UNCHANGED vars
  BY <1>13, NoneStarts DEF vars
<1> QED
  BY <1>1, <1>2, <1>3, <1>5, <1>6, <1>7, <1>8, <1>9, <1>10, <1>11, <1>12, <1>13
  DEF Next, EndItem, Requests

LEMMA ReportsStep == IInv /\ [Next]_vars => ReportsFailures'
<1> SUFFICES ASSUME IInv, [Next]_vars PROVE ReportsFailures'
  OBVIOUS
<1> USE Parts, States DEF IInv, Rows, Outcomes, Contained, Open, ReportsFailures, Done, Ended, config, asked, Becomes, EndAs
<1>1. ASSUME NEW i \in Items, StartItem(i) PROVE ReportsFailures'
  BY <1>1, Closed, Marks DEF StartItem
<1>2. ASSUME NEW i \in Items, RejectItem(i) PROVE ReportsFailures'
  BY <1>2 DEF RejectItem
<1>3. ASSUME NEW i \in Items, ItemReturns(i) PROVE ReportsFailures'
  BY <1>3, Marks DEF ItemReturns
<1>4. ASSUME NEW i \in Items, ItemFails(i) PROVE ReportsFailures'
  BY <1>4, Marks, Raises DEF ItemFails, ItemRaises
<1>5. ASSUME NEW i \in Items, ItemTimeout(i) PROVE ReportsFailures'
  BY <1>5, Marks, Raises DEF ItemTimeout, ItemRaises
<1>6. ASSUME NEW i \in Items, Collect(i) PROVE ReportsFailures'
  BY <1>6, Closed DEF Collect, StopAll
<1>7. ASSUME NEW i \in Items, StopItem(i) PROVE ReportsFailures'
  BY <1>7, Marks DEF StopItem
<1>8. CASE Watch
  BY <1>8, Closed DEF Watch, StopAll
<1>9. CASE Timeout
  BY <1>9, Closed DEF Timeout, StopAll
<1>10. CASE Stopped
  BY <1>10 DEF Stopped, Retry, GiveUp
<1>11. CASE Finish
  BY <1>11 DEF Finish, Causes, Called
<1>12. CASE CancelRun
  BY <1>12, Closed DEF CancelRun
<1>13. ASSUME NEW i \in Items, CancelChild(i) PROVE ReportsFailures'
  BY <1>13, Marks DEF CancelChild
<1>14. CASE UNCHANGED vars
  BY <1>14 DEF vars, config
<1> QED
  BY <1>1, <1>2, <1>3, <1>4, <1>5, <1>6, <1>7, <1>8, <1>9, <1>10, <1>11, <1>12, <1>13, <1>14
  DEF Next, EndItem, Requests

--------------------------------------------------------------------------------
\* The inductive invariant: the types, and what relates a child run to its task and
\* the tasks to the operation.
THEOREM Invariant == Spec => []IInv
<1>1. IInv /\ [Next]_vars => IInv'
  BY TypeStep, ContainedStep, OutcomesStep, CausesStep, ChancesStep, ReportsStep DEF IInv
<1> QED
  BY <1>1, Initially, PTL DEF Spec

\* For every list and every limit the state is well typed: a task that executes has
\* a child run that does.
THEOREM TypeCorrect == Spec => []TypeOK
BY Invariant, PTL DEF IInv

\* Whatever is cancelled, retried or timed out, no child run stays open without
\* the task that works on it.
THEOREM NoneLeftBehind == Spec => []Contained
BY Invariant, PTL DEF IInv

\* A cancel of the run lets at most one more child run go to its end, whatever the
\* list, the limit and the number of attempts.
THEOREM CancelReachesItems == Spec => []CancelHeeded
<1>1. IInv => CancelHeeded
  BY DEF IInv, Chances, CancelHeeded
<1> QED BY <1>1, Invariant, PTL

\* The status the operation reports agrees with how its child runs ended, and why.
THEOREM HonestReport == Spec => []ReportsFailures
BY Invariant, PTL DEF IInv

--------------------------------------------------------------------------------
(* Under "stop" a failure reaches the siblings.                             *)

Aborted == strategy = "stop" /\ \E j \in Items \ malformed : task[j] = "raised"

\* Once an item has raised, every child run that was open then is asked to stop.
Asked == Aborted => \A i \in Items \ late : task[i] = "executing" => child[i] = "cancel_requested"

\* An item that raises asks the others to stop.
LEMMA RaiseAsks ==
  ASSUME IInv, NEW i \in Items, NEW s \in {"failed", "cancelled"}, ItemRaises(i, s)
  PROVE  Asked'
<1>1. Rows /\ UNCHANGED <<strategy, malformed, late>>
  BY Parts DEF IInv, ItemRaises, config
<1>2. CASE strategy = "stop"
  <2>1. child' = CancelOpenIn(EndAs(i, s), i) /\ task' = [task EXCEPT ![i] = "raised"]
    BY <1>2 DEF ItemRaises, Becomes
  <2>2. ASSUME NEW j \in Items, task'[j] = "executing"
        PROVE  child'[j] = "cancel_requested"
    <3>1. j # i /\ task[j] = "executing"
      BY <1>1, <2>1, <2>2 DEF Rows
    <3>2. child[j] \in {"running", "cancel_requested"} /\ EndAs(i, s)[j] = child[j]
      BY <1>1, <3>1 DEF Rows, EndAs
    <3> QED
      BY <2>1, <3>1, <3>2 DEF CancelOpenIn
  <2> QED
    BY <2>2 DEF Asked
<1>3. CASE strategy # "stop"
  BY <1>1, <1>3 DEF Asked, Aborted
<1> QED
  BY <1>2, <1>3

\* It stays so: an item that starts after a failure is a late one.
LEMMA AskedStep == IInv /\ Asked /\ [Next]_vars => Asked'
<1> SUFFICES ASSUME IInv, Asked, [Next]_vars PROVE Asked'
  OBVIOUS
<1>0. Rows /\ Contained
  BY Parts DEF IInv
<1> USE DEF Asked, Aborted, Rows, Done, config, Becomes, EndAs
<1>1. ASSUME NEW i \in Items, StartItem(i) PROVE Asked'
  BY <1>0, <1>1, Closed DEF StartItem, Failed
<1>2. ASSUME NEW i \in Items, RejectItem(i) PROVE Asked'
  BY <1>0, <1>2 DEF RejectItem
<1>3. ASSUME NEW i \in Items, ItemReturns(i) PROVE Asked'
  BY <1>0, <1>3 DEF ItemReturns
<1>4. ASSUME NEW i \in Items, ItemFails(i) PROVE Asked'
  BY <1>0, <1>4, Marks, RaiseAsks DEF ItemFails
<1>5. ASSUME NEW i \in Items, ItemTimeout(i) PROVE Asked'
  BY <1>0, <1>5, Marks, RaiseAsks DEF ItemTimeout
<1>6. ASSUME NEW i \in Items, Collect(i) PROVE Asked'
  BY <1>0, <1>6, Closed DEF Collect
<1>7. ASSUME NEW i \in Items, StopItem(i) PROVE Asked'
  BY <1>0, <1>7 DEF StopItem
<1>8. CASE Watch \/ Timeout \/ CancelRun
  BY <1>0, <1>8, Closed DEF Watch, Timeout, CancelRun
<1>9. CASE Stopped
  BY <1>9 DEF Stopped, Retry, GiveUp
<1>10. CASE Finish
  BY <1>10 DEF Finish
<1>11. ASSUME NEW i \in Items, CancelChild(i) PROVE Asked'
  BY <1>0, <1>11, Marks DEF CancelChild
<1>12. CASE UNCHANGED vars
  BY <1>12 DEF vars
<1> QED
  BY <1>1, <1>2, <1>3, <1>4, <1>5, <1>6, <1>7, <1>8, <1>9, <1>10, <1>11, <1>12 DEF Next, EndItem, Requests

\* A child run that is asked to stop finishes no more, and does not pause.
LEMMA AskedStops ==
  ASSUME IInv, [Next]_vars, NEW i \in Items, task[i] = "executing", child[i] = "cancel_requested"
  PROVE  task'[i] = "executing" \/ child'[i] \in {"cancelled", "failed"}
<1>0. Rows
  BY Parts DEF IInv
<1> USE DEF Rows, Done, config, Becomes, EndAs
<1>1. ASSUME NEW j \in Items, StartItem(j) \/ RejectItem(j) \/ Collect(j) \/ CancelChild(j)
      PROVE  task'[i] = "executing"
  BY <1>0, <1>1 DEF StartItem, RejectItem, Collect, CancelChild
<1>2. ASSUME NEW j \in Items, j # i, EndItem(j) \/ StopItem(j)
      PROVE  task'[i] = "executing"
  BY <1>0, <1>2 DEF EndItem, ItemReturns, ItemFails, ItemTimeout, ItemRaises, StopItem
<1>3. CASE ItemReturns(i) \/ StopItem(i)
  BY <1>0, <1>3, Marks DEF ItemReturns, StopItem
<1>4. CASE ItemFails(i) \/ ItemTimeout(i)
  BY <1>0, <1>4, Marks, Raises DEF ItemFails, ItemTimeout
<1>5. CASE Watch \/ Timeout \/ Finish \/ CancelRun \/ UNCHANGED vars
  BY <1>5 DEF Watch, Timeout, Finish, CancelRun, vars
<1>6. ~Stopped
  BY DEF Stopped
<1> QED
  BY <1>1, <1>2, <1>3, <1>4, <1>5, <1>6 DEF Next, EndItem, Requests

\* For every list and every limit: under "stop", once an item has failed no child
\* run that was open then finishes or pauses.
THEOREM SiblingsAreStopped == Spec => SiblingsStop
<1>1. Init => Asked
  BY DEF Init, Asked
<1>2. IInv /\ Asked /\ [Next]_vars =>
        [\A i \in Items \ late :
           strategy = "stop" /\ (\E j \in Items \ malformed : task[j] = "raised") /\ task[i] = "executing" =>
             task'[i] = "executing" \/ child'[i] \in {"cancelled", "failed"}]_vars
  BY AskedStops DEF Asked, Aborted
<1> QED
  BY <1>1, <1>2, AskedStep, Invariant, PTL DEF Spec, SiblingsStop
================================================================================
