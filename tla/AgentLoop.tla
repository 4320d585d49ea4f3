------------------------------- MODULE AgentLoop -------------------------------
(***************************************************************************)
(* One turn of the assistant: AssistantPipelineRunner asks the planner for *)
(* a plan, executes the tools it names, and enters itself again with what  *)
(* was observed (a hop), until an answer, a question to a human, an error  *)
(* or a spent budget.  The planner is a language model: any plan may come  *)
(* back.                                                                   *)
(*                                                                         *)
(* The code between the planner's answer and the first tool awaits         *)
(* nothing, so a hop is four steps: entry, planner answer, one step per    *)
(* tool, and the look at the results.  Time passes and a cancel may arrive *)
(* between any two of them.                                                *)
(***************************************************************************)
EXTENDS Naturals, Sequences, FiniteSets

CONSTANTS
  Commands,       \* shell commands, each the argument of a guarded tool call
  Allowed,        \* those the operation's execution policy allows
  Templated,      \* those with a ${...} placeholder in them
  Filled,         \* what a templated command becomes when it is filled in
  Errors,         \* fingerprints of recoverable tool errors
  None,           \* no command
  MaxIterations,  \* loop_budgets
  MaxToolCalls,
  MaxSameError,
  WallLimit,      \* in ticks; 0 is no limit
  PerTurn,        \* max_tool_calls_per_turn
  MaxInvalid,     \* corrective retries of invalid plans
  MaxBlocked,     \* AGENT_MAX_TOOL_BLOCK_RETRIES
  MaxSelfChecks   \* AGENT_MAX_VERIFICATION_HOPS

ASSUME CommandsAssumption ==
  /\ Allowed \subseteq Commands /\ Templated \subseteq Commands
  /\ Filled \in Commands \ Templated
  /\ None \notin Commands /\ Commands \cap {"text__search", "text_update", "text_delete"} = {}
  /\ Errors \cap {"ok", "fatal"} = {}

ASSUME BudgetsAssumption ==
  /\ MaxIterations \in Nat \ {0} /\ MaxToolCalls \in Nat \ {0} /\ MaxSameError \in Nat \ {0}
  /\ WallLimit \in Nat /\ PerTurn \in Nat \ {0}
  /\ MaxInvalid \in Nat /\ MaxBlocked \in Nat /\ MaxSelfChecks \in Nat

VARIABLES
  flow,        \* who runs the turn
  onDenied,    \* on_denied of the operation's execution policy
  pc,          \* where the turn is
  outcome,     \* how it ended
  iterations,  \* _agent_loop_iterations
  toolCalls,   \* _agent_loop_tool_calls
  repeats,     \* _agent_loop_error_repeats
  elapsed,     \* ticks since _agent_loop_started_at
  retries,     \* attempts used up by kind of trouble
  observed,    \* _acc_tool_calls is not empty
  calls,       \* the tool calls of the plan that is executed
  results,     \* results of the first of them
  confirmed,   \* confirmed_tool_call_hashes of the execution
  pending,     \* the command a human is asked to approve
  approved,    \* the command a human approved and that is being executed
  resumed,     \* the turn went on after an approval
  cancelled,   \* a cancel of the run was requested
  ran,         \* history: how often each command was run
  approvals,   \* history: approvals given
  started,     \* history: tools started
  late,        \* history: tools started after the cancel request
  edited       \* history: a tool that edits documents was started

counters == <<iterations, toolCalls, repeats, retries, observed>>
plan     == <<calls, results, confirmed>>
human    == <<pending, approved, resumed>>
setup    == <<flow, onDenied>>
history  == <<ran, approvals, started, late, edited>>
vars     == <<setup, pc, outcome, counters, elapsed, plan, human, cancelled, history>>

\* Tool names.  A planner may use the legacy name of a document tool.
Canonical(tool) == CASE tool = "text_update" -> "text__update"
                     [] tool = "text_delete" -> "text__delete"
                     [] OTHER                -> tool
MutationTools   == {"text_update", "text_delete"}
PlannerTools    == {"text__search", "text_update"} \cup Commands
Tools           == {Canonical(t) : t \in PlannerTools}
EditTools       == {"text__update", "text__delete"}
Plans           == UNION {[1..n -> Tools] : n \in 1..PerTurn}

IsGuarded(tool) == tool \in Commands
Guarded(p)      == {p[i] : i \in DOMAIN p} \cap Commands

\* A guarded call is run with its placeholders filled in, and its hash is
\* taken of that.
Resolved(tool) == IF tool \in Templated THEN Filled ELSE tool

Results   == {"ok", "fatal"} \cup Errors
Troubles  == {"shape", "invalid", "blocked", "selfcheck"}
Outcomes  == {"none", "completed", "waiting_for_user", "failed", "policy_denied",
              "budget_exceeded", "cancelled", "error", "raised"}
Count(e)  == Cardinality({i \in DOMAIN results : results[i] = e})

TypeOK ==
  /\ flow \in {"chat", "workflow"} /\ onDenied \in {"fail", "pause"}
  /\ pc \in {"hop", "planning", "executing", "observing", "waiting", "ended"}
  /\ outcome \in Outcomes /\ (outcome # "none" <=> pc = "ended")
  /\ iterations \in Nat /\ toolCalls \in Nat
  /\ repeats \in [Errors -> Nat] /\ retries \in [Troubles -> Nat]
  /\ elapsed \in Nat
  /\ observed \in BOOLEAN /\ resumed \in BOOLEAN /\ cancelled \in BOOLEAN
  /\ calls \in Seq(Tools) /\ results \in Seq(Results) /\ Len(results) <= Len(calls)
  /\ confirmed \subseteq Commands
  /\ pending \in Commands \cup {None} /\ approved \in Commands \cup {None}
  /\ pc = "waiting" => pending # None
  /\ ran \in [Commands -> Nat] /\ approvals \in Nat /\ started \in Nat /\ late \in Nat
  /\ edited \in BOOLEAN

Init ==
  /\ flow \in {"chat", "workflow"}
  /\ onDenied \in {"fail", "pause"}
  /\ pc = "hop" /\ outcome = "none"
  /\ iterations = 0 /\ toolCalls = 0 /\ elapsed = 0
  /\ repeats = [e \in Errors |-> 0] /\ retries = [t \in Troubles |-> 0]
  /\ observed = FALSE
  /\ calls = <<>> /\ results = <<>> /\ confirmed = {}
  /\ pending = None /\ approved = None /\ resumed = FALSE
  /\ cancelled = FALSE
  /\ ran = [c \in Commands |-> 0] /\ approvals = 0 /\ started = 0 /\ late = 0
  /\ edited = FALSE

End(how) == pc' = "ended" /\ outcome' = how
GoTo(place) == pc' = place /\ UNCHANGED outcome
Again(t) == /\ retries' = [retries EXCEPT ![t] = @ + 1]
            /\ GoTo("hop")

\* Slips: the cancellation check is lost with the callbacks of the payload that
\* is saved for an approval, and so is the time the loop was started.
CancelSeenBeforeApproval == flow = "workflow" /\ cancelled /\ ~resumed
OverTimeBeforeApproval   == WallLimit > 0 /\ elapsed > WallLimit /\ ~resumed

\* Only a workflow run hands the loop a _cancellation_check; an approval of a
\* workflow's tool gives the loop a new one.
CancelSeen == flow = "workflow" /\ cancelled

OverIterations == iterations + 1 > MaxIterations
OverTime       == WallLimit > 0 /\ elapsed > WallLimit

\* Entry of _run_assistant_pipeline.
Hop ==
  /\ pc = "hop"
  /\ iterations' = iterations + 1
  /\ \/ /\ OverIterations \/ OverTime
        /\ End("budget_exceeded")
     \/ /\ ~OverIterations /\ ~OverTime /\ CancelSeen
        /\ End("cancelled")
     \/ /\ ~OverIterations /\ ~OverTime /\ ~CancelSeen
        /\ GoTo("planning")
  /\ UNCHANGED <<setup, toolCalls, repeats, retries, observed, elapsed, plan, human, cancelled, history>>

\* What a step of the planner's answer leaves alone.
PlannerFrame == UNCHANGED <<setup, toolCalls, repeats, elapsed, observed, plan, human, cancelled, history>>

\* The call fails and the exception leaves the loop.  The orchestrator swallows
\* it when it was continuing after a confirmed command: that turn is completed.
PlannerRaises ==
  /\ pc = "planning"
  /\ End(IF flow = "chat" /\ resumed THEN "completed" ELSE "raised")
  /\ UNCHANGED <<iterations, retries>> /\ PlannerFrame

\* No plan in the answer: asked again once; then an error, or in light mode the
\* raw text is the answer.
NoPlan ==
  /\ pc = "planning"
  /\ \/ retries["shape"] = 0 /\ Again("shape")
     \/ /\ retries["shape"] > 0
        /\ \/ End("error")
           \/ End("completed")
        /\ UNCHANGED retries
  /\ UNCHANGED iterations /\ PlannerFrame

\* The plan fails validate_plan.
InvalidPlan ==
  /\ pc = "planning"
  /\ \/ retries["invalid"] < MaxInvalid /\ Again("invalid")
     \/ retries["invalid"] >= MaxInvalid /\ End("error") /\ UNCHANGED retries
  /\ UNCHANGED iterations /\ PlannerFrame

\* The iteration is given back.
SelectSkills ==
  /\ pc = "planning"
  /\ iterations' = iterations - 1
  /\ GoTo("hop")
  /\ UNCHANGED retries /\ PlannerFrame

\* A final answer, checked first in a chat turn that used tools: an answer with
\* findings goes back to the planner until the self-checks are used up.
FinalAnswer ==
  /\ pc = "planning"
  /\ \E findings \in BOOLEAN :
       LET recheck == /\ flow = "chat" /\ observed /\ findings
                      /\ retries["selfcheck"] < MaxSelfChecks
       IN \/ recheck /\ Again("selfcheck")
          \/ ~recheck /\ End("completed") /\ UNCHANGED retries
  /\ UNCHANGED iterations /\ PlannerFrame

\* ask_user and propose_plan; an empty question fails anywhere, any question in
\* a workflow.
AskUser ==
  /\ pc = "planning"
  /\ \E empty \in BOOLEAN :
       End(IF flow = "workflow" \/ empty THEN "failed" ELSE "waiting_for_user")
  /\ UNCHANGED <<iterations, retries>> /\ PlannerFrame

\* A tool of the plan is not among those of the selected skills.
ToolsBlocked ==
  /\ pc = "planning"
  /\ \/ flow = "chat" /\ retries["blocked"] < MaxBlocked /\ Again("blocked")
     \/ flow = "workflow" /\ End("failed") /\ UNCHANGED retries
     \/ retries["blocked"] >= MaxBlocked /\ End("failed") /\ UNCHANGED retries
  /\ UNCHANGED iterations /\ PlannerFrame

\* What a step that takes up a plan's tool calls leaves alone.
ToolsFrame == UNCHANGED <<setup, counters, elapsed, approved, resumed, cancelled, history>>

\* A guarded call fails its validation: the error ends the turn.
GuardedInvalid ==
  /\ pc = "planning"
  /\ \E p \in Plans : Guarded(p) # {}
  /\ End(IF flow = "workflow" THEN "failed" ELSE "error")
  /\ UNCHANGED <<plan, pending>> /\ ToolsFrame

\* A command that must be approved ends this turn's work: the rest of its plan
\* is dropped.
AskApproval(c) ==
  /\ pending' = c
  /\ GoTo("waiting")
  /\ UNCHANGED plan

\* In a chat the first guarded call waits for the user.
ChatGuarded ==
  /\ pc = "planning" /\ flow = "chat"
  /\ \E p \in Plans :
       \E i \in DOMAIN p :
         /\ IsGuarded(p[i])
         /\ \A j \in 1..(i - 1) : ~IsGuarded(p[j])
         /\ AskApproval(p[i])
  /\ ToolsFrame

\* In a workflow the policy decides about each guarded call in turn; the first
\* denied one waits for a human or ends the operation.
WorkflowDenied ==
  /\ pc = "planning" /\ flow = "workflow"
  /\ \E p \in Plans :
       \E i \in DOMAIN p :
         /\ IsGuarded(p[i]) /\ p[i] \notin Allowed
         /\ \A j \in 1..(i - 1) : IsGuarded(p[j]) => p[j] \in Allowed
         /\ \/ onDenied = "pause" /\ AskApproval(p[i])
            \/ onDenied = "fail" /\ End("policy_denied") /\ UNCHANGED <<plan, pending>>
  /\ ToolsFrame

\* Is a confirmation of mutations needed?  is_mutation_tool looks for the planner's names
\* among canonical ones, so that no plan asks for this confirmation and what
\* follows it in the code never happens.
NeedsConfirmation(p) == \E i \in DOMAIN p : p[i] \in MutationTools

\* No guarded call, or all of them allowed.
StartTools ==
  /\ pc = "planning"
  /\ \E p \in Plans :
       /\ Guarded(p) # {} => flow = "workflow" /\ Guarded(p) \subseteq Allowed
       /\ ~NeedsConfirmation(p)
       /\ \/ CancelSeen /\ End("cancelled") /\ UNCHANGED plan
          \/ /\ ~CancelSeen
             /\ calls' = p /\ results' = <<>> /\ confirmed' = Guarded(p)
             /\ GoTo("executing")
  /\ UNCHANGED pending /\ ToolsFrame

\* "yes": exactly the pending call is executed, whatever the clock says and
\* whether or not a cancel was requested.
Approve ==
  /\ pc = "waiting"
  /\ calls' = <<pending>> /\ results' = <<>> /\ confirmed' = {pending}
  /\ approved' = pending /\ pending' = None /\ resumed' = TRUE
  /\ approvals' = approvals + 1
  /\ GoTo("executing")
  /\ UNCHANGED <<setup, counters, elapsed, cancelled, ran, started, late, edited>>

\* "no": a chat turn ends with "Cancelled", a rejected operation fails.
Decline ==
  /\ pc = "waiting"
  /\ pending' = None
  /\ End(IF flow = "chat" THEN "completed" ELSE "failed")
  /\ UNCHANGED <<setup, counters, elapsed, plan, approved, resumed, cancelled, history>>

NextCall == calls[Len(results) + 1]

\* Slip: the hash is taken of the call as it was planned.
MayRunAsPlanned(tool) == IsGuarded(tool) => tool \in confirmed

\* The hash check of _run_single_tool_call: a guarded call that is no longer
\* the one confirmed raises, after the calls before it have run.
MayRun(tool) == IsGuarded(tool) => Resolved(tool) \in confirmed

\* _run_single_tool_call.  An exception of the tool is a result like another; a
\* call without a usable tool id ends the turn.
ExecuteCall ==
  /\ pc = "executing" /\ Len(results) < Len(calls) /\ MayRun(NextCall)
  /\ \/ /\ \E r \in Results : results' = Append(results, r)
        /\ ran' = IF IsGuarded(NextCall) THEN [ran EXCEPT ![Resolved(NextCall)] = @ + 1] ELSE ran
        /\ late' = late + (IF cancelled THEN 1 ELSE 0)
        /\ started' = started + 1
        /\ edited' = (edited \/ NextCall \in EditTools)
        /\ UNCHANGED <<pc, outcome>>
     \/ /\ ~IsGuarded(NextCall)
        /\ End("failed")
        /\ UNCHANGED <<results, ran, started, late, edited>>
  /\ UNCHANGED <<setup, counters, elapsed, calls, confirmed, human, cancelled, approvals>>

RefuseCall ==
  /\ pc = "executing" /\ Len(results) < Len(calls) /\ ~MayRun(NextCall)
  /\ End("raised")
  /\ UNCHANGED <<setup, counters, elapsed, plan, human, cancelled, history>>

\* Every call has its result.  The approved command's result goes straight to
\* the planner: it is not counted and its errors are not looked at.
Executed == pc = "executing" /\ Len(results) = Len(calls)

Resume ==
  /\ Executed /\ approved # None
  /\ approved' = None /\ confirmed' = {} /\ observed' = TRUE
  /\ GoTo("hop")
  /\ UNCHANGED <<setup, iterations, toolCalls, repeats, retries, elapsed, calls, results, pending,
                 resumed, cancelled, history>>

Collect ==
  /\ Executed /\ approved = None
  /\ GoTo("observing")
  /\ UNCHANGED <<setup, counters, elapsed, plan, human, cancelled, history>>

Fatal     == \E i \in DOMAIN results : results[i] = "fatal"
Repeated  == \E e \in Errors : Count(e) > 0 /\ repeats[e] + Count(e) > MaxSameError
\* Slip: the budget is checked before the calls are added.
TotalBefore == toolCalls
Total     == toolCalls + Len(calls)
OverCalls == Total > MaxToolCalls

\* After execute_tool_calls: the results, the budgets, the cancel, and the next
\* hop with the counters carried over.
Observe ==
  /\ pc = "observing"
  /\ \/ Fatal /\ End("failed") /\ UNCHANGED <<counters, plan>>
     \/ ~Fatal /\ (Repeated \/ OverCalls) /\ End("budget_exceeded") /\ UNCHANGED <<counters, plan>>
     \/ ~Fatal /\ ~Repeated /\ ~OverCalls /\ CancelSeen /\ End("cancelled") /\ UNCHANGED <<counters, plan>>
     \/ /\ ~Fatal /\ ~Repeated /\ ~OverCalls /\ ~CancelSeen
        /\ toolCalls' = Total /\ observed' = TRUE
        /\ repeats' = [e \in Errors |-> repeats[e] + Count(e)]
        /\ confirmed' = {}
        /\ GoTo("hop")
        /\ UNCHANGED <<iterations, retries, calls, results>>
  /\ UNCHANGED <<setup, elapsed, human, cancelled, history>>

\* The environment.  A run that waits or works may be cancelled; the clock of
\* the loop also runs while a human is asked.
RequestCancel ==
  /\ pc # "ended" /\ flow = "workflow" /\ ~cancelled
  /\ cancelled' = TRUE
  /\ UNCHANGED <<setup, pc, outcome, counters, elapsed, plan, human, history>>

\* elapsed is capped: beyond the limit all times are alike.
Tick ==
  /\ pc # "ended" /\ elapsed <= WallLimit
  /\ elapsed' = elapsed + 1
  /\ UNCHANGED <<setup, pc, outcome, counters, plan, human, cancelled, history>>

PlannerAnswer ==
  \/ PlannerRaises \/ NoPlan \/ InvalidPlan \/ SelectSkills \/ FinalAnswer \/ AskUser
  \/ ToolsBlocked \/ GuardedInvalid \/ ChatGuarded \/ WorkflowDenied \/ StartTools

Tool == ExecuteCall \/ RefuseCall \/ Resume \/ Collect \/ Observe

Loop == Hop \/ PlannerAnswer \/ Tool

Next == Loop \/ Approve \/ Decline \/ RequestCancel \/ Tick

Spec == Init /\ [][Next]_vars

\* The loop's coroutine goes on (the planner and the tools have timeouts) and
\* time passes; nothing makes a human answer or a run be cancelled.
FairSpec == Spec /\ WF_vars(Loop) /\ WF_vars(Tick)

--------------------------------------------------------------------------------
\* "What runs is exactly what you approved": a command is run only as the one
\* command a human has just approved, or in a workflow by its policy; no
\* placeholder filled in later, other call of the plan, or confirmation left
\* over from an earlier hop makes another command run.
ConfirmedOnly ==
  [][\A c \in Commands :
       ran'[c] # ran[c] => \/ approved = c
                           \/ flow = "workflow" /\ c \in Allowed]_vars

\* The work of a turn is bounded, though the call budget is only looked at after
\* the calls, approved calls are not counted, and skill selection gives its
\* iteration back.
ToolsBounded ==
  /\ started <= MaxToolCalls + PerTurn + approvals
  /\ approvals <= MaxIterations

\* A cancel of the run stops the agent's work: at most the calls of one plan
\* (or the one command approved) are started after it, whatever the planner
\* answers and also after an approval.
CancelStopsTools == late <= PerTurn

\* The loop is bounded, so that it always finishes instead of spinning: a turn
\* ends or waits for a human, whatever the planner answers.
LoopEnds == pc \notin {"ended", "waiting"} ~> pc \in {"ended", "waiting"}

\* docs/guide/how-it-works.md, "Before running anything that changes state (or a
\* guarded tool like shell execution), the agent stops and asks": in a chat no
\* document is edited before the user was asked.  The code breaks this.
EditsAreConfirmed == flow = "chat" /\ approvals = 0 => ~edited
================================================================================
