----------------------------- MODULE GraphPromise -----------------------------
(***************************************************************************)
(* What the definition of a workflow promises of one run of it, without    *)
(* rounds, contexts or stored state: in which circumstances an operation   *)
(* may be executed, in which it may be left out, and when the run may end. *)
(* OperationGraph is shown to implement it.                                *)
(***************************************************************************)
EXTENDS Naturals

CONSTANTS Ops, DependsOn, OnSuccess, OnFailure, Then, Else, SkipOps

VARIABLES
  outcome,  \* what became of every operation; for a condition, its branch
  ended     \* "no", "success" or "failed"

Succeeded(s) == s \in {"success", "then", "else"}

Sources(o) == {p \in Ops : o \in {OnSuccess[p], OnFailure[p]}}
SourcesOver(o, out) == \A p \in Sources(o) : out[p] # "unknown"
Fired(o, out) == \E p \in Sources(o) :
  (Succeeded(out[p]) /\ OnSuccess[p] = o) \/ (out[p] = "failed" /\ OnFailure[p] = o)

\* o may be executed: its dependencies let it, and if it is a follow-up,
\* it has been fired and no source is open.
Called(o, out) ==
  /\ \A d \in DependsOn[o] : Succeeded(out[d]) \/ (out[d] = "failed" /\ OnFailure[d] = o)
  /\ Sources(o) # {} => SourcesOver(o, out) /\ Fired(o, out)

\* o may be left out: its model is missing, it is a follow-up nobody fired,
\* it is on the branch a condition did not select, or all it depends on is
\* left out too.
LeftOut(o, out) ==
  \/ o \in SkipOps /\ Called(o, out)
  \/ Sources(o) # {} /\ SourcesOver(o, out) /\ ~Fired(o, out)
  \/ \E c \in Ops : (out[c] = "then" /\ o \in Else[c]) \/ (out[c] = "else" /\ o \in Then[c])
  \/ DependsOn[o] # {} /\ \A d \in DependsOn[o] : out[d] = "skipped"

Fatal(o, out) == out[o] = "failed" /\ OnFailure[o] \notin Ops

Init == outcome = [o \in Ops |-> "unknown"] /\ ended = "no"

\* Some open operations are decided, each for a reason; an operation that is
\* decided stays so.
Decide ==
  /\ ended = "no"
  /\ \A o \in Ops : Fatal(o, outcome) => FALSE
  /\ outcome' \in [Ops -> {"unknown", "success", "then", "else", "failed", "skipped"}]
  /\ \A o \in Ops :
       \/ outcome'[o] = outcome[o]
       \/ /\ outcome[o] = "unknown"
          /\ IF outcome'[o] = "skipped" THEN LeftOut(o, outcome') ELSE Called(o, outcome)
  /\ ended' \in {"no", "failed"}
  /\ ended' = "failed" => \E o \in Ops : Fatal(o, outcome')

\* Success: everything is decided.
Succeed ==
  /\ ended = "no" /\ ended' = "success"
  /\ \A o \in Ops : outcome[o] # "unknown" /\ ~Fatal(o, outcome)
  /\ UNCHANGED outcome

\* Failure without a failed operation: no open operation can go on.
GiveUp ==
  /\ ended = "no" /\ ended' = "failed"
  /\ \E o \in Ops : outcome[o] = "unknown"
  /\ \A o \in Ops : outcome[o] = "unknown" => ~Called(o, outcome)
  /\ UNCHANGED outcome

\* The next run.
Again ==
  /\ ended # "no" /\ ended' = "no"
  /\ outcome' = [o \in Ops |-> "unknown"]

Spec == Init /\ [][Decide \/ Succeed \/ GiveUp \/ Again]_<<outcome, ended>>
=============================================================================
