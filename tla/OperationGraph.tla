---------------------------- MODULE OperationGraph ----------------------------
(***************************************************************************)
(* _execute_operations: how a run walks the graph of a workflow, with      *)
(* dependencies, success and failure follow-ups, conditions that skip the  *)
(* branch they do not select, operations skipped because no model is       *)
(* available, pauses and resumes.                                          *)
(*                                                                         *)
(* One workflow, executed several times in a row.  The operations of a     *)
(* round see the same statuses, so a round is one step (Gather) and its    *)
(* results are then taken up one by one, in order of id.  Nothing awaits   *)
(* between those.  Cancels and the interleaving of a round's operations    *)
(* are the subject of WorkflowRuns.                                        *)
(***************************************************************************)
EXTENDS Naturals, Sequences, FiniteSets

CONSTANTS
  Ops,         \* operation ids
  DependsOn,   \* depends_on, as the workflow was saved
  OnSuccess,   \* on_success_follow_up, or None
  OnFailure,   \* on_failure_follow_up, or None
  Then, Else,  \* branches of a condition; both empty for other operations
  SkipOps,     \* assistant operations skipped when their model is unavailable
  WaitOps,     \* operations that may pause
  Execution,   \* how often the workflow is run
  None         \* no follow-up

ASSUME GraphAssumption ==
  /\ Ops \subseteq Nat /\ Ops # {} /\ IsFiniteSet(Ops)
  /\ DependsOn \in [Ops -> SUBSET Ops]
  /\ OnSuccess \in [Ops -> Ops \cup {None}]
  /\ OnFailure \in [Ops -> Ops \cup {None}]
  /\ Then \in [Ops -> SUBSET Ops] /\ Else \in [Ops -> SUBSET Ops]
  /\ SkipOps \subseteq Ops /\ WaitOps \subseteq Ops
  /\ Execution \in Nat
  /\ None \notin Ops

VARIABLES
  stored,   \* depends_on of every operation, in the database
  deps,     \* the same in the session of the execution
  run,      \* status of the run
  driver,   \* who executes it: "worker", "resume" or "nobody"
  rows,     \* its operation runs, in id order
  status,   \* operation_statuses of the context
  pending,  \* operations not yet decided
  allowed,  \* allowed_after_failure
  results,  \* what the last round returned and the loop has not yet taken up
  count     \* executions so far

vars == <<stored, deps, run, driver, rows, status, pending, allowed, results, count>>

Conditions  == {o \in Ops : Then[o] \cup Else[o] # {}}
Settled     == {"success", "failed"}
Row         == [op : Ops, status : Settled \cup {"waiting", "running"}, branch : {"none", "then", "else"}]
Results     == {"ok", "then", "else", "error", "refused", "skipped", "waiting"}

TypeOK ==
  /\ stored \in [Ops -> SUBSET Ops]
  /\ deps \in [Ops -> SUBSET Ops]
  /\ run \in {"absent", "running", "waiting", "success", "failed"}
  /\ driver \in {"worker", "resume", "nobody"}
  /\ rows \in Seq(Row)
  /\ status \in [Ops -> Settled \cup {"unknown", "skipped"}]
  /\ pending \subseteq Ops
  /\ allowed \subseteq Ops \X Ops
  /\ results \in UNION {[S -> Results] : S \in SUBSET Ops}
  /\ count \in 0 .. Execution

Unknown == [o \in Ops |-> "unknown"]
NoResults == [o \in {} |-> "ok"]

Init ==
  /\ stored = DependsOn /\ deps = DependsOn
  /\ run = "absent" /\ driver = "nobody"
  /\ rows = <<>>
  /\ status = Unknown /\ pending = {} /\ allowed = {} /\ results = NoResults
  /\ count = 0

---------------------------------------------------------------------------
(* Which operations are ready.                                             *)

Over == {"success", "failed", "skipped"}

\* The operations o is a follow-up of, and those of them that fired it.
Sources(o) == {p \in Ops : o \in {OnSuccess[p], OnFailure[p]}}
Fires(s, p, o) == (s = "success" /\ OnSuccess[p] = o) \/ (s = "failed" /\ OnFailure[p] = o)
Fired(o) == \E p \in Sources(o) : Fires(status[p], p, o)
SourcesOver(o) == \A p \in Sources(o) : status[p] \in Over

DependsOnSatisfied(o) ==
  \A d \in deps[o] : status[d] = "success" \/ (status[d] = "failed" /\ <<d, o>> \in allowed)

\* Slip: a follow-up does not wait for all its sources.
SatisfiedByAnySource(o) == DependsOnSatisfied(o) /\ (Sources(o) # {} => Fired(o))

DependenciesSatisfied(o) ==
  /\ DependsOnSatisfied(o)
  /\ Sources(o) # {} => SourcesOver(o) /\ Fired(o)

FollowupBranchDead(o) == Sources(o) # {} /\ SourcesOver(o) /\ ~Fired(o)

Ready == {o \in pending : DependenciesSatisfied(o)}
Dead  == {o \in pending : FollowupBranchDead(o)}

---------------------------------------------------------------------------
(* The rounds.                                                             *)

Looping == driver # "nobody" /\ DOMAIN results = {}

\* What _execute_single_operation can give for o.  Refused: no model, and
\* the operation is configured to fail.
Outcomes(o) ==
  IF o \in Conditions THEN {"then", "else", "error"}
  ELSE {"ok", "error", IF o \in SkipOps THEN "skipped" ELSE "refused"}
         \cup (IF o \in WaitOps THEN {"waiting"} ELSE {})

\* Slip: the mode of the result is stored as the status.
RowOfMode(o, result) ==
  [op |-> o, status |-> result, branch |-> IF result \in {"then", "else"} THEN result ELSE "none"]

RowOf(o, result) ==
  [op |-> o,
   status |-> CASE result = "error" -> "failed" [] result = "waiting" -> "waiting" [] OTHER -> "success",
   branch |-> IF result \in {"then", "else"} THEN result ELSE "none"]

\* An operation has an operation run, and with it a commit, unless its model
\* was missing.
Ran(res) == {o \in DOMAIN res : res[o] \notin {"skipped", "refused"}}

\* The members of S, the least first.
InOrder(S) == {f \in [1 .. Cardinality(S) -> S] : \A i, j \in DOMAIN f : i < j => f[i] < f[j]}

Gather ==
  /\ Looping /\ Ready # {}
  /\ \E res \in [Ready -> Results] :
       /\ \A o \in Ready : res[o] \in Outcomes(o)
       /\ results' = res
       /\ \E ran \in InOrder(Ran(res)) :
            rows' = rows \o [i \in DOMAIN ran |-> RowOf(ran[i], res[ran[i]])]
       /\ stored' = IF Ran(res) = {} THEN stored ELSE deps
       /\ run' = IF \E o \in Ready : res[o] = "waiting" THEN "waiting" ELSE run
  /\ UNCHANGED <<deps, driver, status, pending, allowed, count>>

\* Slip: they stay pending.
DropDeadKeeps ==
  /\ Looping /\ Ready = {} /\ Dead # {}
  /\ status' = [o \in Ops |-> IF o \in Dead THEN "skipped" ELSE status[o]]
  /\ UNCHANGED <<stored, deps, run, driver, rows, pending, allowed, results, count>>

\* Follow-up branches that were not taken.
DropDead ==
  /\ Looping /\ Ready = {} /\ Dead # {}
  /\ status' = [o \in Ops |-> IF o \in Dead THEN "skipped" ELSE status[o]]
  /\ pending' = pending \ Dead
  /\ UNCHANGED <<stored, deps, run, driver, rows, allowed, results, count>>

\* The execution ends.  execute_run commits whatever it ends with, a resume
\* only if no exception ends it; an exception leaves a resumed run running.
End(outcome) ==
  /\ driver' = "nobody"
  /\ run' = IF outcome = "failed" /\ driver = "resume" THEN run ELSE outcome
  /\ stored' = IF outcome = "failed" /\ driver = "resume" THEN stored ELSE deps
  /\ results' = NoResults
  /\ UNCHANGED <<deps, rows, pending, allowed, count>>

Complete == Looping /\ pending = {} /\ End("success") /\ UNCHANGED status

Stuck ==
  /\ Looping /\ pending # {} /\ Ready = {} /\ Dead = {}
  /\ End("failed") /\ UNCHANGED status

---------------------------------------------------------------------------
(* The results of a round.                                                 *)

Result(o, kinds) ==
  /\ o \in DOMAIN results /\ \A p \in DOMAIN results : o <= p
  /\ results[o] \in kinds

\* A condition decided earlier in the round has taken o out of pending.
TakeGone(o) ==
  /\ Result(o, Results) /\ o \notin pending
  /\ End("failed") /\ UNCHANGED status

\* o is decided; s are the statuses and left the operations then pending.
Take(o, s, left) ==
  /\ o \in pending
  /\ results' = [p \in DOMAIN results \ {o} |-> results[p]]
  /\ status' = s
  /\ pending' = left
  /\ UNCHANGED <<stored, run, driver, rows, count>>

\* Slip: the edge is stored the wrong way round.
FollowBack(o, f, left) == deps' = IF f \in left THEN [deps EXCEPT ![o] = @ \cup {f}] ELSE deps

\* depends_on of a follow-up still pending gets the operation it follows.
Follow(o, f, left) == deps' = IF f \in left THEN [deps EXCEPT ![f] = @ \cup {o}] ELSE deps

\* Slip: the follow-up is not allowed after the failure.
TakeFailureForgets(o) ==
  /\ Result(o, {"error", "refused"}) /\ OnFailure[o] # None
  /\ Take(o, [status EXCEPT ![o] = "failed"], pending \ {o})
  /\ Follow(o, OnFailure[o], pending \ {o})
  /\ UNCHANGED allowed

TakeFailure(o) ==
  LET f == OnFailure[o]
      left == pending \ {o}
  IN  /\ Result(o, {"error", "refused"}) /\ f # None
      /\ Take(o, [status EXCEPT ![o] = "failed"], left)
      /\ allowed' = IF f \in left THEN allowed \cup {<<o, f>>} ELSE allowed
      /\ Follow(o, f, left)

TakeFatal(o) ==
  /\ Result(o, {"error", "refused"}) /\ OnFailure[o] = None /\ o \in pending
  /\ status' = [status EXCEPT ![o] = "failed"]
  /\ End("failed")

TakeSkip(o) ==
  /\ Result(o, {"skipped"})
  /\ Take(o, [status EXCEPT ![o] = "skipped"], pending \ {o})
  /\ UNCHANGED <<deps, allowed>>

TakePause(o) ==
  /\ Result(o, {"waiting"}) /\ o \in pending
  /\ End("waiting") /\ UNCHANGED status

TakeSuccess(o) ==
  /\ Result(o, {"ok"})
  /\ Take(o, [status EXCEPT ![o] = "success"], pending \ {o})
  /\ Follow(o, OnSuccess[o], pending \ {o})
  /\ UNCHANGED allowed

\* The branch a condition did not select, and with it every pending operation
\* whose dependencies are all skipped so far: the least set closed so.
Closed(T, left) == \A p \in left : deps[p] # {} /\ deps[p] \subseteq T => p \in T
ToSkip(S, left) ==
  LET closed == {T \in {S \cup U : U \in SUBSET left} : Closed(T, left)}
  IN  {p \in S \cup left : \A T \in closed : p \in T}

TakeCondition(o) ==
  /\ Result(o, {"then", "else"})
  /\ LET left == pending \ {o}
         skip == ToSkip(IF results[o] = "then" THEN Else[o] ELSE Then[o], left)
     IN  /\ Take(o, [p \in Ops |-> IF p \in skip THEN "skipped"
                                   ELSE IF p = o THEN "success" ELSE status[p]],
                 left \ skip)
         /\ Follow(o, OnSuccess[o], left \ skip)
  /\ UNCHANGED allowed

---------------------------------------------------------------------------
(* The run.                                                                *)

Begin(by, known) ==
  /\ driver' = by /\ run' = "running"
  /\ deps' = stored
  /\ status' = known
  /\ pending' = {o \in Ops : known[o] = "unknown"}
  /\ allowed' = {} /\ results' = NoResults

\* execute_run, of the next run of the workflow.
Start ==
  /\ driver = "nobody" /\ run # "waiting" /\ count < Execution
  /\ count' = count + 1
  /\ rows' = <<>>
  /\ Begin("worker", Unknown)
  /\ UNCHANGED stored

IsPause(i, o) ==
  /\ i \in DOMAIN rows /\ rows[i].op = o /\ rows[i].status = "waiting"
  /\ \A j \in DOMAIN rows : rows[j].op = o /\ rows[j].status = "waiting" => j <= i

\* _context_from_operation_runs: what succeeded or failed is known, nothing
\* else is.
LastIs(seq, o, s) ==
  \E i \in DOMAIN seq :
    /\ seq[i].op = o /\ seq[i].status = s
    /\ \A j \in DOMAIN seq : seq[j].op = o /\ seq[j].status \in Settled => j <= i

\* Slip: only failures are carried over.
ContextOfFailures(seq, resumed) ==
  [o \in Ops |-> CASE o = resumed -> "success"
                   [] o # resumed /\ LastIs(seq, o, "failed") -> "failed"
                   [] OTHER -> "unknown"]

Context(seq, resumed) ==
  [o \in Ops |-> CASE o = resumed \/ LastIs(seq, o, "success") -> "success"
                   [] o # resumed /\ LastIs(seq, o, "failed")  -> "failed"
                   [] OTHER -> "unknown"]

\* The latest pause of o is answered and its operation ends well.
Resume(o) ==
  /\ driver = "nobody" /\ run \in {"waiting", "running"}
  /\ \E i \in DOMAIN rows : IsPause(i, o) /\ rows' = [rows EXCEPT ![i].status = "success"]
  /\ Begin("resume", Context(rows', o))
  /\ UNCHANGED <<stored, count>>

\* It ends badly: the run fails with it, or an exception leaves it running.
ResumeFails(o) ==
  /\ driver = "nobody" /\ run \in {"waiting", "running"}
  /\ \E i \in DOMAIN rows, s \in {"failed", "running"} :
       /\ IsPause(i, o)
       /\ rows' = [rows EXCEPT ![i].status = s]
       /\ run' = s
  /\ UNCHANGED <<stored, deps, driver, status, pending, allowed, results, count>>

---------------------------------------------------------------------------
TakeResult(o) ==
  \/ TakeGone(o) \/ TakeFailure(o) \/ TakeFatal(o) \/ TakeSkip(o)
  \/ TakePause(o) \/ TakeSuccess(o) \/ TakeCondition(o)

Walk ==
  \/ Gather \/ DropDead \/ Complete \/ Stuck
  \/ \E o \in Ops : TakeResult(o)

Next == Start \/ Walk \/ \E o \in Ops : Resume(o) \/ ResumeFails(o)

Spec == Init /\ [][Next]_vars

\* The loop goes on as long as it can: bodies end, the gather is awaited.
FairSpec == Spec /\ WF_vars(Walk)

---------------------------------------------------------------------------
(* Properties.                                                             *)

\* An execution of the graph comes to an end: it never finds a round in
\* which it neither decides an operation nor gives up.
WalkEnds == driver # "nobody" ~> driver = "nobody"

\* Runs rewrite depends_on in the database, but an operation only ever gains
\* the operations it is a follow-up of.
GraphKept ==
  \A o \in Ops : DependsOn[o] \subseteq stored[o] /\ stored[o] \subseteq DependsOn[o] \cup Sources(o)

\* The graph is given up as stuck only if the definition of the workflow lets
\* none of the pending operations run.
CalledByDefinition(o) ==
  /\ \A d \in DependsOn[o] : status[d] = "success" \/ (status[d] = "failed" /\ OnFailure[d] = o)
  /\ Sources(o) # {} => SourcesOver(o) /\ Fired(o)
StuckForAReason == [][Stuck => \A o \in pending : ~CalledByDefinition(o)]_vars

\* What a run executes, leaves out and ends with is what its definition
\* promises.  A condition's branch is the one its operation run recorded.
Branch(o) == {rows[i].branch : i \in {j \in DOMAIN rows : rows[j].op = o}}
Outcome == [o \in Ops |-> IF status[o] = "success" /\ o \in Conditions
                          THEN CHOOSE b \in Branch(o) : TRUE ELSE status[o]]
Ended == IF run \in {"success", "failed"} THEN run ELSE "no"
Promise == INSTANCE GraphPromise WITH outcome <- Outcome, ended <- Ended
KeepsPromise == Promise!Spec

\* No operation is executed twice in a run, though a resume rebuilds the
\* context from the operation runs.
NothingTwice == \A i, j \in DOMAIN rows : rows[i].op = rows[j].op => i = j

---------------------------------------------------------------------------
(* Claims of the repository that the code does not meet.                   *)

\* "so they don't stall the graph": a run in which no operation failed does
\* not fail because a branch was not taken.
SkipsDoNotStall ==
  run = "failed" => \E o \in Ops : status[o] = "failed"

\* "Branches on a test": of the operations after a condition only the
\* selected branch is executed.
OneBranch ==
  \A i, j \in DOMAIN rows :
    LET c == rows[i].op IN
    ~ \/ rows[i].branch = "then" /\ rows[j].op \in Else[c]
      \/ rows[i].branch = "else" /\ rows[j].op \in Then[c]
=============================================================================
