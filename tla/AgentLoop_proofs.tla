--------------------------- MODULE AgentLoop_proofs ---------------------------
(***************************************************************************)
(* Proofs about AgentLoop: the types, that only approved or allowed        *)
(* commands run, that the work of a turn is bounded, and that a cancel     *)
(* stops it.  The invariant has a part for each: Counted relates approvals *)
(* to hops, Budgeted the tools started to the counter that lags behind     *)
(* them, Stopped the tools started after a cancel to the results of the    *)
(* plan that is executed, Licensed the confirmed commands to their cause.  *)
(***************************************************************************)
EXTENDS AgentLoop, FiniteSetTheorems, TLAPS

Between == {"hop", "planning", "waiting"}

\* A hop was entered for each approval, and one more has been since.
Counted ==
  /\ pc \in {"planning", "waiting"} => approvals + 1 <= iterations
  /\ pc \in {"executing", "observing"} /\ approved = None => approvals + 1 <= iterations
  /\ pc # "ended" => approvals <= iterations /\ iterations <= MaxIterations
  /\ approvals <= MaxIterations

\* The counter is behind by the results of the plan; an approved call is not
\* counted but by its approval.
Budgeted ==
  /\ pc # "ended" => toolCalls <= MaxToolCalls
  /\ Len(calls) <= PerTurn
  /\ pc \in Between => approved = None /\ started <= toolCalls + approvals
  /\ pc = "observing" => approved = None /\ Len(results) = Len(calls)
  /\ pc \in {"executing", "observing"} /\ approved = None =>
       started <= toolCalls + approvals + Len(results)
  /\ pc = "executing" /\ approved # None =>
       /\ Len(calls) = 1
       /\ started + 1 <= toolCalls + approvals + Len(results)
  /\ started <= MaxToolCalls + PerTurn + approvals

\* No planner is asked after a cancel, so that only the plan in hand goes on.
Stopped ==
  /\ cancelled => flow = "workflow"
  /\ ~cancelled => late = 0
  /\ pc \in {"planning", "waiting"} => late = 0
  /\ pc \in {"executing", "observing"} => late <= Len(results)
  /\ late <= PerTurn

\* Why each confirmed command is confirmed.
Licensed ==
  /\ approved # None => confirmed = {approved}
  /\ pc = "executing" /\ approved = None =>
       /\ confirmed \subseteq Allowed
       /\ confirmed # {} => flow = "workflow"

IInv == TypeOK /\ Counted /\ Budgeted /\ Stopped /\ Licensed

LEMMA PlanType ==
  \A p \in Plans : p \in Seq(Tools) /\ Len(p) \in 1..PerTurn /\ DOMAIN p = 1..Len(p)
  BY BudgetsAssumption DEF Plans

LEMMA CommandsAreTools == Commands \subseteq Tools
  BY CommandsAssumption DEF Tools, PlannerTools, Canonical

LEMMA CountType ==
  ASSUME NEW e \in Errors, results \in Seq(Results)
  PROVE  Count(e) \in Nat
<1>1. IsFiniteSet(1..Len(results))
  BY FS_Interval
<1>2. IsFiniteSet({i \in DOMAIN results : results[i] = e})
  BY <1>1, FS_Subset
<1> QED BY <1>2, FS_CardinalityType DEF Count

LEMMA InitInv == Init => IInv
<1> SUFFICES ASSUME Init PROVE IInv
  OBVIOUS
<1>1. calls \in Seq(Tools) /\ results \in Seq(Results) /\ Len(calls) = 0 /\ Len(results) = 0
  BY DEF Init
<1>a. repeats \in [Errors -> Nat] /\ retries \in [Troubles -> Nat] /\ ran \in [Commands -> Nat]
  BY DEF Init
<1>b. observed \in BOOLEAN /\ resumed \in BOOLEAN /\ cancelled \in BOOLEAN /\ edited \in BOOLEAN
  BY DEF Init
<1>2. TypeOK
  BY <1>1, <1>a, <1>b DEF Init, TypeOK, Outcomes
<1>3. Counted /\ Budgeted
  BY <1>1, BudgetsAssumption DEF Init, Counted, Budgeted, Between
<1>4. Stopped /\ Licensed
  BY <1>1, BudgetsAssumption DEF Init, Stopped, Licensed
<1> QED BY <1>2, <1>3, <1>4 DEF IInv

USE BudgetsAssumption, CommandsAssumption

LEMMA HopInv == IInv /\ Hop => IInv'
<1> SUFFICES ASSUME IInv, Hop PROVE IInv'
  OBVIOUS
<1> USE DEF Hop, setup, plan, human, history
<1>1. \/ pc' = "planning" /\ outcome' = outcome /\ ~OverIterations /\ ~CancelSeen
      \/ pc' = "ended" /\ outcome' \in Outcomes \ {"none"}
  BY DEF End, GoTo, Outcomes
<1>2. TypeOK'
  BY <1>1 DEF IInv, TypeOK, Outcomes
<1>3. Counted'
  BY <1>1 DEF IInv, TypeOK, Counted, OverIterations
<1>4. Budgeted'
  BY <1>1 DEF IInv, TypeOK, Budgeted, Between
<1>5. Stopped'
  BY <1>1 DEF IInv, TypeOK, Stopped, CancelSeen
<1>6. Licensed'
  BY <1>1 DEF IInv, Licensed
<1> QED BY <1>2, <1>3, <1>4, <1>5, <1>6 DEF IInv

\* What the planner answers without tools changes the place, the end, the
\* retries and the iterations only.
Talk == PlannerRaises \/ NoPlan \/ InvalidPlan \/ SelectSkills \/ FinalAnswer \/ AskUser \/ ToolsBlocked

LEMMA TalkInv == IInv /\ Talk => IInv'
<1> SUFFICES ASSUME IInv, Talk PROVE IInv'
  OBVIOUS
<1>1. /\ pc = "planning" /\ PlannerFrame
      /\ iterations' \in {iterations, iterations - 1}
      /\ \/ pc' = "hop" /\ outcome' = outcome
         \/ pc' = "ended" /\ outcome' \in Outcomes \ {"none"} /\ iterations' = iterations
      /\ \/ UNCHANGED retries
         \/ \E t \in Troubles : retries' = [retries EXCEPT ![t] = @ + 1]
  BY DEF Talk, PlannerRaises, NoPlan, InvalidPlan, SelectSkills, FinalAnswer, AskUser,
         ToolsBlocked, End, Again, GoTo, Outcomes, Troubles
<1>2. retries' \in [Troubles -> Nat]
  <2>1. retries \in [Troubles -> Nat]
    BY DEF IInv, TypeOK
  <2>2. CASE UNCHANGED retries
    BY <2>1, <2>2
  <2>3. CASE \E t \in Troubles : retries' = [retries EXCEPT ![t] = @ + 1]
    BY <2>1, <2>3
  <2> QED BY <1>1, <2>2, <2>3
<1>3. iterations' \in Nat /\ approvals <= iterations' /\ iterations' <= MaxIterations
  BY <1>1 DEF IInv, TypeOK, Counted
<1>4. TypeOK'
  BY <1>1, <1>2, <1>3 DEF IInv, TypeOK, PlannerFrame, setup, plan, human, history, Outcomes
<1>5. Counted' /\ Budgeted'
  BY <1>1, <1>3 DEF IInv, TypeOK, Counted, Budgeted, Between, PlannerFrame, setup, plan, human, history
<1>6. Stopped' /\ Licensed'
  BY <1>1 DEF IInv, TypeOK, Stopped, Licensed, PlannerFrame, setup, plan, human, history
<1> QED BY <1>4, <1>5, <1>6 DEF IInv

\* A guarded plan that is not executed ends the turn or leaves one command
\* pending.
LEMMA GuardedInv == IInv /\ (GuardedInvalid \/ ChatGuarded \/ WorkflowDenied) => IInv'
<1> SUFFICES ASSUME IInv, GuardedInvalid \/ ChatGuarded \/ WorkflowDenied PROVE IInv'
  OBVIOUS
<1>1. /\ pc = "planning" /\ ToolsFrame /\ UNCHANGED plan
      /\ \/ pc' = "waiting" /\ outcome' = outcome /\ pending' \in Commands
         \/ pc' = "ended" /\ outcome' \in Outcomes \ {"none"} /\ pending' = pending
  BY DEF GuardedInvalid, ChatGuarded, WorkflowDenied, AskApproval, IsGuarded, End, GoTo, Outcomes, plan
<1> USE DEF ToolsFrame, setup, counters, plan, history
<1>2. TypeOK'
  BY <1>1 DEF IInv, TypeOK, Outcomes
<1>3. Counted' /\ Budgeted'
  BY <1>1 DEF IInv, TypeOK, Counted, Budgeted, Between
<1>4. Stopped' /\ Licensed'
  BY <1>1 DEF IInv, TypeOK, Stopped, Licensed
<1> QED BY <1>2, <1>3, <1>4 DEF IInv

LEMMA StartToolsInv == IInv /\ StartTools => IInv'
<1> SUFFICES ASSUME IInv, StartTools PROVE IInv'
  OBVIOUS
<1>1. PICK p \in Plans :
        /\ Guarded(p) # {} => flow = "workflow" /\ Guarded(p) \subseteq Allowed
        /\ \/ CancelSeen /\ End("cancelled") /\ UNCHANGED plan
           \/ /\ ~CancelSeen
              /\ calls' = p /\ results' = <<>> /\ confirmed' = Guarded(p)
              /\ GoTo("executing")
  BY DEF StartTools
<1>2. p \in Seq(Tools) /\ Len(p) \in 1..PerTurn
  BY PlanType
<1>3. pc = "planning" /\ pending' = pending /\ ToolsFrame
  BY DEF StartTools
<1> USE DEF ToolsFrame, setup, counters, history
<1>4. CASE End("cancelled") /\ UNCHANGED plan
  <2>1. TypeOK'
    BY <1>3, <1>4 DEF IInv, TypeOK, Outcomes, End, plan
  <2>2. Counted' /\ Budgeted'
    BY <1>3, <1>4 DEF IInv, TypeOK, Counted, Budgeted, Between, End, plan
  <2>3. Stopped' /\ Licensed'
    BY <1>3, <1>4 DEF IInv, TypeOK, Stopped, Licensed, End, plan
  <2> QED BY <2>1, <2>2, <2>3 DEF IInv
<1>5. CASE calls' = p /\ results' = <<>> /\ confirmed' = Guarded(p) /\ GoTo("executing")
  <2>1. /\ calls' \in Seq(Tools) /\ results' \in Seq(Results) /\ Len(calls') \in 1..PerTurn
        /\ Len(results') = 0 /\ confirmed' \subseteq Commands
    BY <1>2, <1>5 DEF Guarded
  <2>2. TypeOK'
    BY <1>3, <1>5, <2>1 DEF IInv, TypeOK, GoTo
  <2>3. Counted' /\ Budgeted'
    BY <1>3, <1>5, <2>1 DEF IInv, TypeOK, Counted, Budgeted, Between, GoTo
  <2>4. Stopped'
    BY <1>3, <1>5, <2>1 DEF IInv, TypeOK, Stopped, GoTo
  <2>5. Licensed'
    BY <1>1, <1>3, <1>5 DEF IInv, TypeOK, Budgeted, Between, Licensed, GoTo
  <2> QED BY <2>2, <2>3, <2>4, <2>5 DEF IInv
<1> QED BY <1>1, <1>4, <1>5

LEMMA HumanInv == IInv /\ (Approve \/ Decline) => IInv'
<1> SUFFICES ASSUME IInv, Approve \/ Decline PROVE IInv'
  OBVIOUS
<1> USE DEF setup, counters, history
<1>1. CASE Approve
  <2>1. pending \in Commands /\ pending \in Tools /\ pending # None
    BY <1>1, CommandsAreTools DEF Approve, IInv, TypeOK
  <2>2. /\ calls' \in Seq(Tools) /\ Len(calls') = 1
        /\ results' \in Seq(Results) /\ Len(results') = 0
    BY <1>1, <2>1 DEF Approve
  <2>3. TypeOK'
    BY <1>1, <2>1, <2>2 DEF Approve, IInv, TypeOK, GoTo
  <2>4. Counted' /\ Budgeted'
    BY <1>1, <2>1, <2>2 DEF Approve, IInv, TypeOK, Counted, Budgeted, Between, GoTo
  <2>5. Stopped' /\ Licensed'
    BY <1>1, <2>1, <2>2 DEF Approve, IInv, TypeOK, Stopped, Licensed, GoTo
  <2> QED BY <2>3, <2>4, <2>5 DEF IInv
<1>2. CASE Decline
  <2>1. pc' = "ended" /\ outcome' \in {"completed", "failed"}
    BY <1>2 DEF Decline, End
  <2>2. TypeOK'
    BY <1>2, <2>1 DEF Decline, IInv, TypeOK, plan, Outcomes
  <2>3. Counted' /\ Budgeted'
    BY <1>2, <2>1 DEF Decline, IInv, TypeOK, Counted, Budgeted, Between, plan
  <2>4. Stopped' /\ Licensed'
    BY <1>2, <2>1 DEF Decline, IInv, TypeOK, Stopped, Licensed, plan
  <2> QED BY <2>2, <2>3, <2>4 DEF IInv
<1> QED BY <1>1, <1>2

LEMMA ExecuteCallInv == IInv /\ ExecuteCall => IInv'
<1> SUFFICES ASSUME IInv, ExecuteCall PROVE IInv'
  OBVIOUS
<1> USE DEF setup, counters, human
<1>1. /\ pc = "executing" /\ calls \in Seq(Tools) /\ results \in Seq(Results)
      /\ Len(results) \in Nat /\ Len(calls) \in Nat /\ Len(results) < Len(calls)
  BY DEF ExecuteCall, IInv, TypeOK
<1>2. ran \in [Commands -> Nat] /\ late \in Nat /\ started \in Nat
  BY DEF IInv, TypeOK
<1>3. CASE /\ \E r \in Results : results' = Append(results, r)
           /\ ran' = IF IsGuarded(NextCall) THEN [ran EXCEPT ![Resolved(NextCall)] = @ + 1] ELSE ran
           /\ late' = late + (IF cancelled THEN 1 ELSE 0)
           /\ started' = started + 1
           /\ edited' = (edited \/ NextCall \in EditTools)
           /\ UNCHANGED <<pc, outcome>>
  <2>1. results' \in Seq(Results) /\ Len(results') = Len(results) + 1
    BY <1>1, <1>3
  <2>2. ran' \in [Commands -> Nat]
    <3>1. CASE IsGuarded(NextCall)
      <4>1. Resolved(NextCall) \in Commands
        BY <3>1 DEF IsGuarded, Resolved
      <4> QED BY <1>2, <1>3, <3>1, <4>1
    <3>2. CASE ~IsGuarded(NextCall)
      BY <1>2, <1>3, <3>2
    <3> QED BY <3>1, <3>2
  <2>3. edited' \in BOOLEAN
    BY <1>3
  <2>4. TypeOK'
    BY <1>1, <1>2, <1>3, <2>1, <2>2, <2>3 DEF ExecuteCall, IInv, TypeOK
  <2>5. Counted'
    BY <1>1, <1>3 DEF ExecuteCall, IInv, TypeOK, Counted
  <2>6. Budgeted'
    BY <1>1, <1>2, <1>3, <2>1 DEF ExecuteCall, IInv, TypeOK, Budgeted, Between
  <2>7. Stopped'
    BY <1>1, <1>2, <1>3, <2>1 DEF ExecuteCall, IInv, TypeOK, Stopped, Budgeted
  <2>8. Licensed'
    BY <1>1, <1>3 DEF ExecuteCall, IInv, Licensed
  <2> QED BY <2>4, <2>5, <2>6, <2>7, <2>8 DEF IInv
<1>4. CASE End("failed") /\ UNCHANGED <<results, ran, started, late, edited>>
  <2>1. TypeOK'
    BY <1>4 DEF ExecuteCall, IInv, TypeOK, Outcomes, End
  <2>2. Counted' /\ Budgeted'
    BY <1>4 DEF ExecuteCall, IInv, TypeOK, Counted, Budgeted, Between, End
  <2>3. Stopped' /\ Licensed'
    BY <1>4 DEF ExecuteCall, IInv, TypeOK, Stopped, Licensed, End
  <2> QED BY <2>1, <2>2, <2>3 DEF IInv
<1> QED BY <1>3, <1>4 DEF ExecuteCall

LEMMA RefuseCallInv == IInv /\ RefuseCall => IInv'
<1> SUFFICES ASSUME IInv, RefuseCall PROVE IInv'
  OBVIOUS
<1> USE DEF RefuseCall, End, setup, counters, plan, human, history
<1>1. TypeOK'
  BY DEF IInv, TypeOK, Outcomes
<1>2. Counted' /\ Budgeted'
  BY DEF IInv, TypeOK, Counted, Budgeted, Between
<1>3. Stopped' /\ Licensed'
  BY DEF IInv, TypeOK, Stopped, Licensed
<1> QED BY <1>1, <1>2, <1>3 DEF IInv

LEMMA ExecutedInv == IInv /\ (Resume \/ Collect) => IInv'
<1> SUFFICES ASSUME IInv, Resume \/ Collect PROVE IInv'
  OBVIOUS
<1> USE DEF setup, history
<1>0. Len(results) \in Nat /\ Len(calls) \in Nat
  BY DEF IInv, TypeOK
<1>1. CASE Resume
  <2>1. TypeOK'
    BY <1>1 DEF Resume, GoTo, Executed, IInv, TypeOK
  <2>2. Counted'
    BY <1>1 DEF Resume, GoTo, Executed, IInv, TypeOK, Counted
  <2>a. Budgeted'
    <3>1. started \in Nat /\ toolCalls \in Nat /\ approvals \in Nat
      BY DEF IInv, TypeOK
    <3>2. /\ pc = "executing" /\ approved # None /\ Len(results) = Len(calls)
          /\ pc' = "hop" /\ approved' = None
          /\ UNCHANGED <<toolCalls, started, approvals, calls, results>>
      BY <1>1 DEF Resume, Executed, GoTo
    <3>3. started <= toolCalls + approvals
      BY <1>0, <3>1, <3>2 DEF IInv, Budgeted
    <3> QED BY <3>2, <3>3 DEF IInv, Budgeted, Between
  <2>3. Stopped' /\ Licensed'
    BY <1>0, <1>1 DEF Resume, GoTo, Executed, IInv, TypeOK, Stopped, Licensed, Budgeted
  <2> QED BY <2>1, <2>2, <2>a, <2>3 DEF IInv
<1>2. CASE Collect
  <2>1. TypeOK'
    BY <1>2 DEF Collect, GoTo, Executed, IInv, TypeOK, plan, human, counters
  <2>2. Counted' /\ Budgeted'
    BY <1>0, <1>2 DEF Collect, GoTo, Executed, IInv, TypeOK, Counted, Budgeted, Between, plan, human, counters
  <2>3. Stopped' /\ Licensed'
    BY <1>0, <1>2 DEF Collect, GoTo, Executed, IInv, TypeOK, Stopped, Licensed, plan, human, counters
  <2> QED BY <2>1, <2>2, <2>3 DEF IInv
<1> QED BY <1>1, <1>2

LEMMA ObserveInv == IInv /\ Observe => IInv'
<1> SUFFICES ASSUME IInv, Observe PROVE IInv'
  OBVIOUS
<1> USE DEF setup, human, history
<1>1. /\ pc = "observing" /\ approved = None /\ Len(results) = Len(calls)
      /\ Len(calls) \in Nat /\ Len(calls) <= PerTurn
      /\ started <= toolCalls + approvals + Len(calls)
      /\ results \in Seq(Results)
  BY DEF Observe, IInv, TypeOK, Budgeted
<1>2. CASE pc' = "ended" /\ outcome' \in Outcomes \ {"none"} /\ UNCHANGED <<counters, plan>>
  <2>1. TypeOK'
    BY <1>2 DEF Observe, IInv, TypeOK, counters, plan, Outcomes
  <2>2. Counted' /\ Budgeted'
    BY <1>2 DEF Observe, IInv, TypeOK, Counted, Budgeted, Between, counters, plan
  <2>3. Stopped' /\ Licensed'
    BY <1>2 DEF Observe, IInv, TypeOK, Stopped, Licensed, counters, plan
  <2> QED BY <2>1, <2>2, <2>3 DEF IInv
<1>3. CASE /\ ~OverCalls /\ ~CancelSeen
           /\ toolCalls' = Total /\ observed' = TRUE
           /\ repeats' = [e \in Errors |-> repeats[e] + Count(e)]
           /\ confirmed' = {}
           /\ GoTo("hop")
           /\ UNCHANGED <<iterations, retries, calls, results>>
  <2>1. repeats' \in [Errors -> Nat]
    <3>1. \A e \in Errors : Count(e) \in Nat
      BY <1>1, CountType
    <3>2. repeats \in [Errors -> Nat]
      BY DEF IInv, TypeOK
    <3> QED BY <1>3, <3>1, <3>2
  <2>2. toolCalls' \in Nat /\ toolCalls' = toolCalls + Len(calls) /\ toolCalls' <= MaxToolCalls
    BY <1>1, <1>3 DEF Total, OverCalls, IInv, TypeOK
  <2>3. TypeOK'
    BY <1>3, <2>1, <2>2 DEF Observe, IInv, TypeOK, GoTo
  <2>4. Counted'
    BY <1>1, <1>3 DEF Observe, IInv, TypeOK, Counted, GoTo
  <2>5. Budgeted'
    BY <1>1, <1>3, <2>2 DEF Observe, IInv, TypeOK, Budgeted, Between, GoTo
  <2>6. Stopped'
    BY <1>1, <1>3 DEF Observe, IInv, TypeOK, Stopped, CancelSeen, GoTo
  <2>7. Licensed'
    BY <1>1, <1>3 DEF Observe, IInv, Licensed, GoTo
  <2> QED BY <2>3, <2>4, <2>5, <2>6, <2>7 DEF IInv
<1> QED BY <1>2, <1>3 DEF Observe, End, Outcomes

LEMMA EnvironmentInv == IInv /\ (RequestCancel \/ Tick \/ UNCHANGED vars) => IInv'
<1> SUFFICES ASSUME IInv, RequestCancel \/ Tick \/ UNCHANGED vars PROVE IInv'
  OBVIOUS
<1> USE DEF vars, setup, counters, plan, human, history
<1>1. CASE RequestCancel
  <2>1. TypeOK'
    BY <1>1 DEF RequestCancel, IInv, TypeOK
  <2>2. Counted' /\ Budgeted'
    BY <1>1 DEF RequestCancel, IInv, Counted, Budgeted
  <2>3. Stopped' /\ Licensed'
    BY <1>1 DEF RequestCancel, IInv, TypeOK, Stopped, Licensed
  <2> QED BY <2>1, <2>2, <2>3 DEF IInv
<1>2. CASE Tick
  <2>1. TypeOK'
    BY <1>2 DEF Tick, IInv, TypeOK
  <2>2. Counted' /\ Budgeted'
    BY <1>2 DEF Tick, IInv, Counted, Budgeted
  <2>3. Stopped' /\ Licensed'
    BY <1>2 DEF Tick, IInv, Stopped, Licensed
  <2> QED BY <2>1, <2>2, <2>3 DEF IInv
<1>3. CASE UNCHANGED vars
  <2>1. TypeOK'
    BY <1>3 DEF IInv, TypeOK
  <2>2. Counted' /\ Budgeted'
    BY <1>3 DEF IInv, Counted, Budgeted
  <2>3. Stopped' /\ Licensed'
    BY <1>3 DEF IInv, Stopped, Licensed
  <2> QED BY <2>1, <2>2, <2>3 DEF IInv
<1> QED BY <1>1, <1>2, <1>3

LEMMA StepInv == IInv /\ [Next]_vars => IInv'
  BY HopInv, TalkInv, GuardedInv, StartToolsInv, HumanInv, ExecuteCallInv, RefuseCallInv,
     ExecutedInv, ObserveInv, EnvironmentInv
  DEF Next, Loop, PlannerAnswer, Tool, Talk

LEMMA SpecInv == Spec => []IInv
  BY InitInv, StepInv, PTL DEF Spec

\* Every variable of the loop keeps its type; an ended turn has an outcome and a
\* waiting one has something to approve.
THEOREM TypeCorrect == Spec => []TypeOK
  BY SpecInv, PTL DEF IInv

\* However the planner answers, the tools a turn starts are bounded by the call
\* budget, one plan and the approvals, and the approvals by the iterations.
THEOREM BoundedTools == Spec => []ToolsBounded
<1>1. IInv => ToolsBounded
  BY DEF IInv, Counted, Budgeted, ToolsBounded
<1> QED BY <1>1, SpecInv, PTL

\* After a cancel request at most one plan's calls are started.
THEOREM CancelledToolsBounded == Spec => []CancelStopsTools
<1>1. IInv => CancelStopsTools
  BY DEF IInv, Stopped, CancelStopsTools
<1> QED BY <1>1, SpecInv, PTL

\* A command runs only as the one just approved, or by the workflow's policy.
OnlyConfirmedRuns ==
  \A c \in Commands :
    ran'[c] # ran[c] => \/ approved = c
                        \/ flow = "workflow" /\ c \in Allowed

LEMMA StepConfirmed == IInv /\ [Next]_vars => [OnlyConfirmedRuns]_vars
<1> SUFFICES ASSUME IInv, Next PROVE OnlyConfirmedRuns
  BY DEF vars, history, OnlyConfirmedRuns
<1>1. CASE ExecuteCall
  <2>1. SUFFICES ASSUME NEW c \in Commands, ran'[c] # ran[c]
                 PROVE  approved = c \/ (flow = "workflow" /\ c \in Allowed)
    BY DEF OnlyConfirmedRuns
  <2>2. /\ IsGuarded(NextCall) /\ MayRun(NextCall)
        /\ ran' = [ran EXCEPT ![Resolved(NextCall)] = @ + 1]
    BY <1>1, <2>1 DEF ExecuteCall
  <2>3. c = Resolved(NextCall)
    BY <2>1, <2>2 DEF IInv, TypeOK
  <2>4. c \in confirmed /\ pc = "executing"
    BY <1>1, <2>2, <2>3 DEF MayRun, ExecuteCall
  <2> QED BY <2>4 DEF IInv, Licensed
<1>2. CASE ~ExecuteCall
  <2>1. ran' = ran
    BY <1>2
    DEF Next, Loop, PlannerAnswer, Tool, Hop, PlannerRaises, NoPlan, InvalidPlan, SelectSkills,
        FinalAnswer, AskUser, ToolsBlocked, GuardedInvalid, ChatGuarded, WorkflowDenied, StartTools,
        RefuseCall, Resume, Collect, Observe, Approve, Decline, RequestCancel, Tick,
        PlannerFrame, ToolsFrame, history
  <2> QED BY <2>1 DEF OnlyConfirmedRuns
<1> QED BY <1>1, <1>2

\* What runs was confirmed: by the policy, or by the person asked last.
THEOREM RunsOnlyConfirmed == Spec => ConfirmedOnly
<1>1. IInv /\ [Next]_vars => [OnlyConfirmedRuns]_vars
  BY StepConfirmed
<1>2. ConfirmedOnly <=> [][OnlyConfirmedRuns]_vars
  BY PTL DEF ConfirmedOnly, OnlyConfirmedRuns
<1> QED BY <1>1, <1>2, SpecInv, PTL DEF Spec

\* No plan is ever found to need a confirmation: the check for mutations cannot
\* fire on canonical names.
THEOREM MutationCheckIsDead == \A p \in Plans : ~NeedsConfirmation(p)
  BY CommandsAssumption DEF Plans, Tools, PlannerTools, Canonical, NeedsConfirmation, MutationTools

================================================================================
