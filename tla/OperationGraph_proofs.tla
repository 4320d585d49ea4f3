------------------------- MODULE OperationGraph_proofs -------------------------
(***************************************************************************)
(* Theorems about OperationGraph, for every workflow graph and any number  *)
(* of executions of it: its types and its stored dependencies; that no     *)
(* operation is executed twice, where pauses come one after the other;     *)
(* that a run is given up as stuck only for a reason, and that the graph   *)
(* implements GraphPromise, where it has no pauses and keeps to the shapes *)
(* that Rerunnable and BranchesAfter describe.                             *)
(***************************************************************************)
EXTENDS OperationGraph, FiniteSetTheorems, TLAPS

\* The dependencies an execution works with are bounded like the stored ones.
Within(d) == \A o \in Ops : DependsOn[o] \subseteq d[o] /\ d[o] \subseteq DependsOn[o] \cup Sources(o)

GInv == TypeOK /\ Within(stored) /\ Within(deps)

---------------------------------------------------------------------------
(* The operators.                                                          *)

\* A follow-up gains the operation it follows, and only that.
LEMMA FollowWithin ==
  ASSUME deps \in [Ops -> SUBSET Ops], Within(deps), NEW o \in Ops, NEW f, NEW left \in SUBSET Ops,
         f \in {OnSuccess[o], OnFailure[o]}, Follow(o, f, left)
  PROVE  deps' \in [Ops -> SUBSET Ops] /\ Within(deps')
<1>1. CASE f \in left
  <2>1. f \in Ops /\ o \in Sources(f)
    BY <1>1 DEF Sources
  <2>2. deps' = [deps EXCEPT ![f] = @ \cup {o}]
    BY <1>1 DEF Follow
  <2> QED BY <2>1, <2>2 DEF Within
<1>2. CASE f \notin left
  BY <1>2 DEF Follow
<1> QED BY <1>1, <1>2

\* Listing a finite set in order gives a sequence of its members.
LEMMA InOrderType ==
  ASSUME NEW S \in SUBSET Ops, NEW ran \in InOrder(S)
  PROVE  ran \in Seq(S) /\ DOMAIN ran = 1 .. Cardinality(S) /\ Cardinality(S) \in Nat
<1>1. IsFiniteSet(S)
  BY GraphAssumption, FS_Subset
<1>2. Cardinality(S) \in Nat
  BY <1>1, FS_CardinalityType
<1>3. ran \in [1 .. Cardinality(S) -> S]
  BY DEF InOrder
<1> QED BY <1>2, <1>3

\* It lists every member, and none twice.
LEMMA InOrderAll ==
  ASSUME NEW S \in SUBSET Ops, NEW ran \in InOrder(S)
  PROVE  /\ \A i, j \in DOMAIN ran : ran[i] = ran[j] => i = j
         /\ \A o \in S : \E i \in DOMAIN ran : ran[i] = o
<1> DEFINE n == Cardinality(S)
<1>1. IsFiniteSet(S) /\ S \subseteq Nat
  BY GraphAssumption, FS_Subset
<1>2. n \in Nat /\ DOMAIN ran = 1 .. n /\ ran \in [1 .. n -> S]
  BY InOrderType DEF InOrder
<1>3. \A i, j \in DOMAIN ran : i < j => ran[i] < ran[j]
  BY DEF InOrder
<1>4. \A i \in DOMAIN ran : ran[i] \in Nat /\ i \in Nat
  <2>1. \A i \in DOMAIN ran : ran[i] \in S /\ i \in Nat
    BY <1>2
  <2> QED BY <1>1, <2>1
<1>5. \A i, j \in DOMAIN ran : ran[i] = ran[j] => i = j
  BY <1>3, <1>4
<1>6. ran \in Injection(1 .. n, S)
  BY <1>2, <1>5 DEF Injection, IsInjective
<1>7. IsFiniteSet(1 .. n) /\ Cardinality(1 .. n) = n
  BY <1>2, FS_Interval
<1>8. ran \in Surjection(1 .. n, S)
  BY <1>1, <1>6, <1>7, FS_Injection
<1> QED BY <1>2, <1>5, <1>8 DEF Surjection

\* The operation run a result leaves is a row.
LEMMA RowType ==
  ASSUME NEW o \in Ops, NEW r \in Results
  PROVE  RowOf(o, r) \in Row
<1>1. CASE r = "error"
  BY <1>1 DEF RowOf, Row, Settled, Results
<1>2. CASE r = "waiting"
  BY <1>2 DEF RowOf, Row, Settled, Results
<1>3. CASE r \notin {"error", "waiting"}
  <2>1. RowOf(o, r) = [op |-> o, status |-> "success", branch |-> IF r \in {"then", "else"} THEN r ELSE "none"]
    BY <1>3 DEF RowOf
  <2>2. (IF r \in {"then", "else"} THEN r ELSE "none") \in {"none", "then", "else"}
    OBVIOUS
  <2> QED BY <2>1, <2>2 DEF Row, Settled
<1> QED BY <1>1, <1>2, <1>3

\* Dropping the result taken up leaves results.
LEMMA RestType ==
  ASSUME NEW res \in UNION {[S -> Results] : S \in SUBSET Ops}, NEW o
  PROVE  [p \in DOMAIN res \ {o} |-> res[p]] \in UNION {[S -> Results] : S \in SUBSET Ops}
<1>1. PICK S \in SUBSET Ops : res \in [S -> Results]
  OBVIOUS
<1>2. [p \in DOMAIN res \ {o} |-> res[p]] \in [S \ {o} -> Results]
  BY <1>1
<1> QED BY <1>1, <1>2

\* The empty results are results.
LEMMA NoResultsType == NoResults \in UNION {[S -> Results] : S \in SUBSET Ops}
<1>1. NoResults \in [{} -> Results]
  BY DEF NoResults
<1>2. {} \in SUBSET Ops
  OBVIOUS
<1> QED BY <1>1, <1>2

\* A rebuilt context is a status for every operation.
LEMMA ContextType ==
  ASSUME NEW seq, NEW x
  PROVE  Context(seq, x) \in [Ops -> Settled \cup {"unknown", "skipped"}]
<1>1. \A o \in Ops : Context(seq, x)[o] \in Settled \cup {"unknown", "skipped"}
  <2> TAKE o \in Ops
  <2>1. CASE o = x \/ LastIs(seq, o, "success")
    BY <2>1 DEF Context, Settled
  <2>2. CASE o # x /\ ~LastIs(seq, o, "success") /\ LastIs(seq, o, "failed")
    BY <2>2 DEF Context, Settled
  <2>3. CASE o # x /\ ~LastIs(seq, o, "success") /\ ~LastIs(seq, o, "failed")
    BY <2>3 DEF Context, Settled
  <2> QED BY <2>1, <2>2, <2>3
<1> QED BY <1>1 DEF Context

\* Changing the status of an operation run leaves rows.
LEMMA RowsExcept ==
  ASSUME rows \in Seq(Row), NEW i \in DOMAIN rows, NEW s \in Settled \cup {"waiting", "running"}
  PROVE  [rows EXCEPT ![i].status = s] \in Seq(Row)
<1> DEFINE seq == [rows EXCEPT ![i].status = s]
<1>1. \A j \in 1 .. Len(rows) : rows[j] \in Row
  OBVIOUS
<1>2. \A j \in 1 .. Len(rows) : seq[j] \in Row
  BY <1>1 DEF Row
<1>3. DOMAIN seq = 1 .. Len(rows) /\ Len(rows) \in Nat
  OBVIOUS
<1>4. seq = [j \in 1 .. Len(rows) |-> seq[j]]
  BY <1>3
<1> HIDE DEF seq
<1>5. [j \in 1 .. Len(rows) |-> seq[j]] \in Seq(Row)
  BY <1>2, <1>3
<1> QED BY <1>4, <1>5 DEF seq

---------------------------------------------------------------------------
(* The steps.                                                              *)

\* The end of an execution.
LEMMA EndStep ==
  ASSUME GInv, NEW outcome \in {"success", "failed", "waiting"}, End(outcome),
         status' \in [Ops -> Settled \cup {"unknown", "skipped"}]
  PROVE  GInv'
<1>1. run' \in {"absent", "running", "waiting", "success", "failed"} /\ driver' = "nobody"
  BY DEF End, GInv, TypeOK
<1>2. stored' = stored \/ stored' = deps
  BY DEF End
<1>3. results' \in UNION {[S -> Results] : S \in SUBSET Ops}
  BY NoResultsType DEF End
<1>4. UNCHANGED <<deps, rows, pending, allowed, count>>
  BY DEF End
<1>5. TypeOK'
  BY <1>1, <1>2, <1>3, <1>4 DEF GInv, TypeOK
<1>6. Within(stored)' /\ Within(deps)'
  BY <1>2, <1>4 DEF GInv, Within, Sources
<1> QED BY <1>5, <1>6 DEF GInv

\* The begin of one.
LEMMA BeginStep ==
  ASSUME GInv, NEW by \in {"worker", "resume"}, Begin(by, status'),
         status' \in [Ops -> Settled \cup {"unknown", "skipped"}],
         rows' \in Seq(Row), count' \in 0 .. Execution, UNCHANGED stored
  PROVE  GInv'
<1>1. TypeOK'
  BY NoResultsType DEF GInv, TypeOK, Begin
<1>2. Within(stored)' /\ Within(deps)'
  BY DEF GInv, Within, Begin, Sources
<1> QED BY <1>1, <1>2 DEF GInv

\* A round.
LEMMA GatherStep ==
  ASSUME GInv, Gather
  PROVE  GInv'
<1>1. PICK res \in [Ready -> Results] :
        /\ results' = res
        /\ \E ran \in InOrder(Ran(res)) :
             rows' = rows \o [i \in DOMAIN ran |-> RowOf(ran[i], res[ran[i]])]
        /\ stored' = IF Ran(res) = {} THEN stored ELSE deps
        /\ run' = IF \E o \in Ready : res[o] = "waiting" THEN "waiting" ELSE run
  BY DEF Gather
<1>2. PICK ran \in InOrder(Ran(res)) :
        rows' = rows \o [i \in DOMAIN ran |-> RowOf(ran[i], res[ran[i]])]
  BY <1>1
<1>3. UNCHANGED <<deps, driver, status, pending, allowed, count>>
  BY DEF Gather
<1>4. Ready \in SUBSET Ops /\ Ran(res) \in SUBSET Ops /\ Ran(res) \subseteq Ready
  BY DEF Ready, Ran, GInv, TypeOK
<1>5. rows' \in Seq(Row)
  <2>1. ran \in Seq(Ran(res)) /\ DOMAIN ran = 1 .. Cardinality(Ran(res)) /\ Cardinality(Ran(res)) \in Nat
    BY <1>4, InOrderType
  <2>2. \A i \in DOMAIN ran : RowOf(ran[i], res[ran[i]]) \in Row
    BY <1>4, <2>1, RowType
  <2>3. [i \in DOMAIN ran |-> RowOf(ran[i], res[ran[i]])] \in Seq(Row)
    BY <2>1, <2>2
  <2> QED BY <1>2, <2>3 DEF GInv, TypeOK
<1>6. results' \in UNION {[S -> Results] : S \in SUBSET Ops}
  BY <1>1, <1>4
<1>7. run' \in {"absent", "running", "waiting", "success", "failed"}
  BY <1>1 DEF GInv, TypeOK
<1>8. stored' = stored \/ stored' = deps
  BY <1>1
<1>9. TypeOK'
  BY <1>3, <1>5, <1>6, <1>7, <1>8 DEF GInv, TypeOK
<1>10. Within(stored)' /\ Within(deps)'
  BY <1>3, <1>8 DEF GInv, Within, Sources
<1> QED BY <1>9, <1>10 DEF GInv

\* A result that decides its operation.
LEMMA TakeStep ==
  ASSUME GInv, NEW o \in Ops, NEW s \in [Ops -> Settled \cup {"unknown", "skipped"}],
         NEW left \in SUBSET Ops, Take(o, s, left),
         deps' \in [Ops -> SUBSET Ops], Within(deps'),
         allowed' \in SUBSET (Ops \X Ops)
  PROVE  GInv'
<1>1. results' \in UNION {[S -> Results] : S \in SUBSET Ops}
  BY RestType DEF Take, GInv, TypeOK
<1>2. TypeOK'
  BY <1>1 DEF Take, GInv, TypeOK
<1>3. Within(stored)' /\ Within(deps)'
  BY DEF Take, GInv, Within, Sources
<1> QED BY <1>2, <1>3 DEF GInv

\* Every result that is taken up keeps the invariant.
LEMMA ResultStep ==
  ASSUME GInv, NEW o \in Ops, TakeResult(o)
  PROVE  GInv'
<1> DEFINE Statuses == [Ops -> Settled \cup {"unknown", "skipped"}]
<1>0. /\ status \in Statuses /\ pending \in SUBSET Ops /\ allowed \in SUBSET (Ops \X Ops)
      /\ deps \in [Ops -> SUBSET Ops] /\ Within(deps)
  BY DEF GInv, TypeOK
<1>1. CASE TakeGone(o)
  BY <1>0, <1>1, EndStep DEF TakeGone
<1>2. CASE TakeFailure(o)
  <2> DEFINE s == [status EXCEPT ![o] = "failed"]
             left == pending \ {o}
  <2>1. Take(o, s, left) /\ Follow(o, OnFailure[o], left)
    BY <1>2 DEF TakeFailure
  <2>2. s \in Statuses /\ left \in SUBSET Ops
    BY <1>0 DEF Settled
  <2> HIDE DEF s, left
  <2>3. allowed' \in SUBSET (Ops \X Ops)
    BY <1>0, <1>2 DEF TakeFailure
  <2>4. deps' \in [Ops -> SUBSET Ops] /\ Within(deps')
    BY <1>0, <2>1, <2>2, FollowWithin
  <2> QED BY <1>0, <2>1, <2>2, <2>3, <2>4, TakeStep
<1>3. CASE TakeFatal(o)
  <2>1. status' \in Statuses
    BY <1>0, <1>3 DEF TakeFatal, Settled
  <2> QED BY <1>3, <2>1, EndStep DEF TakeFatal
<1>4. CASE TakeSkip(o)
  <2> DEFINE s == [status EXCEPT ![o] = "skipped"]
             left == pending \ {o}
  <2>1. s \in Statuses /\ left \in SUBSET Ops
    BY <1>0
  <2>2. Take(o, s, left) /\ UNCHANGED <<deps, allowed>>
    BY <1>4 DEF TakeSkip
  <2> HIDE DEF s, left
  <2> QED BY <1>0, <2>1, <2>2, TakeStep
<1>5. CASE TakePause(o)
  BY <1>0, <1>5, EndStep DEF TakePause
<1>6. CASE TakeSuccess(o)
  <2> DEFINE s == [status EXCEPT ![o] = "success"]
             left == pending \ {o}
  <2>1. s \in Statuses /\ left \in SUBSET Ops
    BY <1>0 DEF Settled
  <2>2. Take(o, s, left) /\ Follow(o, OnSuccess[o], left) /\ UNCHANGED allowed
    BY <1>6 DEF TakeSuccess
  <2> HIDE DEF s, left
  <2>3. deps' \in [Ops -> SUBSET Ops] /\ Within(deps')
    BY <1>0, <2>1, <2>2, FollowWithin
  <2> QED BY <1>0, <2>1, <2>2, <2>3, TakeStep
<1>7. CASE TakeCondition(o)
  <2>1. PICK skip :
          /\ Take(o, [p \in Ops |-> IF p \in skip THEN "skipped"
                                    ELSE IF p = o THEN "success" ELSE status[p]],
                  (pending \ {o}) \ skip)
          /\ Follow(o, OnSuccess[o], (pending \ {o}) \ skip)
          /\ UNCHANGED allowed
    BY <1>7 DEF TakeCondition
  <2> DEFINE s == [p \in Ops |-> IF p \in skip THEN "skipped" ELSE IF p = o THEN "success" ELSE status[p]]
  <2>2. s \in Statuses
    BY <1>0 DEF Settled
  <2>3. deps' \in [Ops -> SUBSET Ops] /\ Within(deps')
    BY <1>0, <2>1, FollowWithin
  <2> HIDE DEF s
  <2>4. Take(o, s, (pending \ {o}) \ skip) /\ UNCHANGED allowed
    BY <2>1 DEF s
  <2> QED BY <1>0, <2>2, <2>3, <2>4, TakeStep
<1> QED BY <1>1, <1>2, <1>3, <1>4, <1>5, <1>6, <1>7 DEF TakeResult

\* The invariant is inductive.
LEMMA GraphStep ==
  ASSUME GInv, [Next]_vars
  PROVE  GInv'
<1>1. CASE Start
  <2>1. Begin("worker", status') /\ status' = Unknown /\ rows' = <<>> /\ count' = count + 1
        /\ count < Execution /\ UNCHANGED stored
    BY <1>1 DEF Start, Begin
  <2>2. Unknown \in [Ops -> Settled \cup {"unknown", "skipped"}] /\ rows' \in Seq(Row)
    BY <2>1 DEF Unknown
  <2>3. count' \in 0 .. Execution
    BY <2>1, GraphAssumption DEF GInv, TypeOK
  <2> QED BY <2>1, <2>2, <2>3, BeginStep
<1>2. CASE Gather
  BY <1>2, GatherStep
<1>3. CASE DropDead
  <2>1. status' \in [Ops -> Settled \cup {"unknown", "skipped"}]
    BY <1>3 DEF DropDead, GInv, TypeOK
  <2>2. TypeOK'
    BY <1>3, <2>1 DEF DropDead, GInv, TypeOK
  <2> QED BY <1>3, <2>2 DEF DropDead, GInv, Within, Sources
<1>4. CASE Complete \/ Stuck
  BY <1>4, EndStep DEF Complete, Stuck, GInv, TypeOK
<1>5. CASE \E o \in Ops : TakeResult(o)
  BY <1>5, ResultStep
<1>6. CASE \E o \in Ops : Resume(o)
  <2>1. PICK o \in Ops, i \in DOMAIN rows : rows' = [rows EXCEPT ![i].status = "success"]
        /\ Begin("resume", Context(rows', o)) /\ UNCHANGED <<stored, count>>
    BY <1>6 DEF Resume
  <2>2. rows' \in Seq(Row)
    BY <2>1, RowsExcept DEF GInv, TypeOK, Settled
  <2>3. status' \in [Ops -> Settled \cup {"unknown", "skipped"}] /\ Begin("resume", status')
    BY <2>1, ContextType DEF Begin
  <2> QED BY <2>1, <2>2, <2>3, BeginStep DEF GInv, TypeOK
<1>7. CASE \E o \in Ops : ResumeFails(o)
  <2>1. PICK i \in DOMAIN rows, s \in {"failed", "running"} :
          rows' = [rows EXCEPT ![i].status = s] /\ run' = s
    BY <1>7 DEF ResumeFails
  <2>2. UNCHANGED <<stored, deps, driver, status, pending, allowed, results, count>>
    BY <1>7 DEF ResumeFails
  <2>3. rows' \in Seq(Row)
    BY <2>1, RowsExcept DEF GInv, TypeOK, Settled
  <2>4. TypeOK'
    BY <2>1, <2>2, <2>3 DEF GInv, TypeOK
  <2> QED BY <2>2, <2>4 DEF GInv, Within, Sources
<1>8. CASE UNCHANGED vars
  <2>1. TypeOK'
    BY <1>8 DEF vars, GInv, TypeOK
  <2> QED BY <1>8, <2>1 DEF vars, GInv, Within, Sources
<1> QED BY <1>1, <1>2, <1>3, <1>4, <1>5, <1>6, <1>7, <1>8 DEF Next, Walk

\* It holds initially.
LEMMA InitStep == Init => GInv
<1> SUFFICES ASSUME Init PROVE GInv
  OBVIOUS
<1>1. stored = DependsOn /\ deps = DependsOn
  BY DEF Init
<1>2. TypeOK
  BY GraphAssumption, NoResultsType DEF Init, TypeOK, Unknown, Settled
<1> QED BY <1>1, <1>2 DEF GInv, Within

\* However often a workflow is run, paused and resumed, its stored graph
\* keeps every dependency it was saved with and gains none but those of an
\* operation on the operations it is a follow-up of.
THEOREM GraphStaysItself == Spec => [](TypeOK /\ GraphKept)
<1>1. Init => GInv
  BY InitStep
<1>2. GInv /\ [Next]_vars => GInv'
  BY GraphStep
<1>3. GInv => TypeOK /\ GraphKept
  BY DEF GInv, Within, GraphKept
<1> QED BY <1>1, <1>2, <1>3, PTL DEF Spec

\* However often a workflow is run, paused and resumed, every variable of its
\* execution keeps its type.
THEOREM TypeCorrect == Spec => []TypeOK
BY GraphStaysItself, PTL

---------------------------------------------------------------------------
(* The operation runs of a round.                                          *)

\* A round adds one operation run for every operation that ran in it, after
\* those there are.
LEMMA RoundRows ==
  ASSUME GInv, Gather
  PROVE  /\ results' \in [Ready -> Results] /\ \A o \in Ready : results'[o] \in Outcomes(o)
         /\ \A i \in DOMAIN rows : i \in DOMAIN rows' /\ rows'[i] = rows[i]
         /\ \A i \in DOMAIN rows' \ DOMAIN rows :
              rows'[i].op \in Ready /\ rows'[i] = RowOf(rows'[i].op, results'[rows'[i].op])
         /\ \A i, j \in DOMAIN rows' \ DOMAIN rows : rows'[i].op = rows'[j].op => i = j
         /\ \A o \in Ran(results') : \E i \in DOMAIN rows' \ DOMAIN rows : rows'[i].op = o
<1>1. PICK res \in [Ready -> Results] :
        /\ \A o \in Ready : res[o] \in Outcomes(o)
        /\ results' = res
        /\ \E ran \in InOrder(Ran(res)) :
             rows' = rows \o [i \in DOMAIN ran |-> RowOf(ran[i], res[ran[i]])]
  BY DEF Gather
<1>2. PICK ran \in InOrder(Ran(res)) :
        rows' = rows \o [i \in DOMAIN ran |-> RowOf(ran[i], res[ran[i]])]
  BY <1>1
<1> DEFINE new == [i \in DOMAIN ran |-> RowOf(ran[i], res[ran[i]])]
           n == Len(rows)
<1>3. Ran(res) \subseteq Ready /\ Ready \subseteq Ops
  BY DEF Ready, Ran, GInv, TypeOK
<1>4. ran \in Seq(Ran(res)) /\ DOMAIN ran = 1 .. Cardinality(Ran(res)) /\ Cardinality(Ran(res)) \in Nat
  BY <1>3, InOrderType
<1>5. \A i, j \in DOMAIN ran : ran[i] = ran[j] => i = j
  BY <1>3, InOrderAll
<1>6. \A i \in DOMAIN ran : ran[i] \in Ran(res) /\ ran[i] \in Ready
  BY <1>3, <1>4
<1>7. \A i \in DOMAIN ran : new[i] = RowOf(ran[i], res[ran[i]]) /\ new[i].op = ran[i]
  BY DEF RowOf
<1>8. rows \in Seq(Row) /\ n \in Nat /\ DOMAIN rows = 1 .. n
  BY DEF GInv, TypeOK
<1>9. new \in Seq(Row) /\ Len(new) = Cardinality(Ran(res)) /\ DOMAIN new = DOMAIN ran
  <2>1. \A i \in DOMAIN ran : new[i] \in Row
    BY <1>3, <1>6, RowType
  <2> QED BY <1>4, <2>1
<1> HIDE DEF new
<1>10. rows' = rows \o new
  BY <1>2 DEF new
<1>11. /\ DOMAIN rows' = 1 .. n + Cardinality(Ran(res))
       /\ \A i \in DOMAIN rows : i \in DOMAIN rows' /\ rows'[i] = rows[i]
       /\ \A i \in DOMAIN rows' \ DOMAIN rows : i - n \in DOMAIN ran /\ rows'[i] = new[i - n]
       /\ \A k \in DOMAIN ran : k + n \in DOMAIN rows' \ DOMAIN rows /\ (k + n) - n = k
  BY <1>4, <1>8, <1>9, <1>10
<1> HIDE DEF n
<1>12. \A i \in DOMAIN rows' \ DOMAIN rows :
         rows'[i].op \in Ready /\ rows'[i] = RowOf(rows'[i].op, res[rows'[i].op])
  BY <1>6, <1>7, <1>11
<1>13. \A i, j \in DOMAIN rows' \ DOMAIN rows : rows'[i].op = rows'[j].op => i = j
  <2> SUFFICES ASSUME NEW i \in DOMAIN rows' \ DOMAIN rows, NEW j \in DOMAIN rows' \ DOMAIN rows,
                      rows'[i].op = rows'[j].op
               PROVE  i = j
    OBVIOUS
  <2>1. i - n \in DOMAIN ran /\ j - n \in DOMAIN ran /\ ran[i - n] = ran[j - n]
    BY <1>7, <1>11
  <2>2. i - n = j - n
    BY <1>5, <2>1
  <2>3. i \in Int /\ j \in Int
    BY <1>4, <1>8, <1>11
  <2> QED BY <1>8, <2>2, <2>3
<1>14. \A o \in Ran(res) : \E i \in DOMAIN rows' \ DOMAIN rows : rows'[i].op = o
  <2> TAKE o \in Ran(res)
  <2>1. PICK k \in DOMAIN ran : ran[k] = o
    BY <1>3, InOrderAll
  <2>2. k + n \in DOMAIN rows' \ DOMAIN rows /\ rows'[k + n] = new[k]
    BY <1>11, <2>1
  <2> QED BY <1>7, <2>1, <2>2
<1> QED BY <1>1, <1>11, <1>12, <1>13, <1>14

\* An operation that does not pause leaves a settled operation run.
LEMMA RowSettled ==
  ASSUME NEW o, NEW r, RowOf(o, r).status \in {"waiting", "running"}
  PROVE  r = "waiting"
<1>1. CASE r = "error"
  BY <1>1 DEF RowOf
<1>2. CASE r # "error" /\ r # "waiting"
  BY <1>2 DEF RowOf
<1> QED BY <1>1, <1>2

---------------------------------------------------------------------------
(* Every operation has one operation run.                                  *)

\* Of two operations that may pause one depends on the other, so that no
\* round has two pauses.
PausesOrdered == \A v, w \in WaitOps : v = w \/ v \in DependsOn[w] \/ w \in DependsOn[v]

\* The operation runs of pauses that nobody has answered well.
Unsettled == {i \in DOMAIN rows : rows[i].status \in {"waiting", "running"}}

\* While the loop runs, the operations that have an operation run are decided,
\* or wait in the round for their result to be taken up; a pause is the only
\* one, and is among the latter.
Once ==
  /\ NothingTwice
  /\ \A i, j \in Unsettled : i = j
  /\ driver # "nobody" =>
       /\ \A i \in DOMAIN rows : rows[i].op \notin pending \/ rows[i].op \in DOMAIN results
       /\ \A i \in Unsettled : rows[i].op \in DOMAIN results /\ results[rows[i].op] = "waiting"
       /\ \A o \in pending : status[o] = "unknown"

\* A round executes nothing that was executed before, and pauses at most once.
LEMMA RoundOnce ==
  ASSUME PausesOrdered, GInv, Once, Gather
  PROVE  Once'
<1>1. /\ results' \in [Ready -> Results] /\ \A o \in Ready : results'[o] \in Outcomes(o)
      /\ \A i \in DOMAIN rows : i \in DOMAIN rows' /\ rows'[i] = rows[i]
      /\ \A i \in DOMAIN rows' \ DOMAIN rows :
           rows'[i].op \in Ready /\ rows'[i] = RowOf(rows'[i].op, results'[rows'[i].op])
      /\ \A i, j \in DOMAIN rows' \ DOMAIN rows : rows'[i].op = rows'[j].op => i = j
  BY RoundRows
<1>2. UNCHANGED <<driver, pending, status>> /\ driver # "nobody" /\ DOMAIN results = {}
  BY DEF Gather, Looping
<1>3. Ready \subseteq pending /\ pending \subseteq Ops
  BY DEF Ready, GInv, TypeOK
<1>4. \A i \in DOMAIN rows : rows[i].op \notin pending
  BY <1>2 DEF Once
<1>5. NothingTwice'
  <2> SUFFICES ASSUME NEW i \in DOMAIN rows', NEW j \in DOMAIN rows', rows'[i].op = rows'[j].op
               PROVE  i = j
    BY DEF NothingTwice
  <2>1. CASE i \in DOMAIN rows /\ j \in DOMAIN rows
    <3>1. rows'[i] = rows[i] /\ rows'[j] = rows[j]
      BY <1>1, <2>1
    <3> QED BY <2>1, <3>1 DEF Once, NothingTwice
  <2>2. CASE i \notin DOMAIN rows /\ j \notin DOMAIN rows
    BY <1>1, <2>2
  <2>3. CASE (i \in DOMAIN rows) # (j \in DOMAIN rows)
    <3>1. \A k \in DOMAIN rows : rows'[k].op \notin pending
      BY <1>1, <1>4
    <3>2. \A k \in DOMAIN rows' \ DOMAIN rows : rows'[k].op \in pending
      BY <1>1, <1>3
    <3> QED BY <2>3, <3>1, <3>2
  <2> QED BY <2>1, <2>2, <2>3
<1>6. \A v, w \in Ready \cap WaitOps : v = w
  <2> SUFFICES ASSUME NEW v \in Ready \cap WaitOps, NEW w \in Ready \cap WaitOps, v \in DependsOn[w]
               PROVE  FALSE
    BY DEF PausesOrdered
  <2>1. v \in deps[w]
    BY <1>3 DEF GInv, Within
  <2>2. status[v] \in {"success", "failed"}
    BY <2>1 DEF Ready, DependenciesSatisfied, DependsOnSatisfied
  <2>3. status[v] = "unknown"
    BY <1>2, <1>3 DEF Once
  <2> QED BY <2>2, <2>3
<1>7. ASSUME NEW i \in Unsettled'
      PROVE  /\ i \in DOMAIN rows' /\ rows'[i].op \in Ready \cap WaitOps
             /\ results'[rows'[i].op] = "waiting"
  <2>1. i \in DOMAIN rows' /\ rows'[i].status \in {"waiting", "running"}
    BY DEF Unsettled
  <2>2. i \notin DOMAIN rows
    <3> SUFFICES ASSUME i \in DOMAIN rows PROVE FALSE
      OBVIOUS
    <3>1. rows'[i] = rows[i]
      BY <1>1
    <3>2. i \in Unsettled
      BY <2>1, <3>1 DEF Unsettled
    <3> QED BY <1>2, <3>2 DEF Once
  <2>3. rows'[i].op \in Ready /\ rows'[i] = RowOf(rows'[i].op, results'[rows'[i].op])
    BY <1>1, <2>1, <2>2
  <2>4. results'[rows'[i].op] = "waiting"
    BY <2>1, <2>3, RowSettled
  <2>5. "waiting" \in Outcomes(rows'[i].op)
    BY <1>1, <2>3, <2>4
  <2>6. rows'[i].op \in WaitOps
    BY <2>5 DEF Outcomes
  <2> QED BY <2>1, <2>3, <2>4, <2>6
<1>8. \A i, j \in Unsettled' : i = j
  BY <1>5, <1>6, <1>7 DEF NothingTwice
<1>9. \A i \in DOMAIN rows' : rows'[i].op \notin pending \/ rows'[i].op \in DOMAIN results'
  BY <1>1, <1>4
<1>10. \A i \in Unsettled' : rows'[i].op \in DOMAIN results' /\ results'[rows'[i].op] = "waiting"
  BY <1>1, <1>7
<1>11. \A o \in pending' : status'[o] = "unknown"
  BY <1>2 DEF Once
<1> QED BY <1>2, <1>5, <1>8, <1>9, <1>10, <1>11 DEF Once

\* A resume carries over every operation that has an operation run.
LEMMA ResumeRows ==
  ASSUME PausesOrdered, GInv, Once, NEW o \in Ops, Resume(o)
  PROVE  Once'
<1>1. PICK i \in DOMAIN rows : IsPause(i, o) /\ rows' = [rows EXCEPT ![i].status = "success"]
  BY DEF Resume
<1>2. rows[i].op = o /\ rows[i].status = "waiting" /\ i \in Unsettled
  BY <1>1 DEF IsPause, Unsettled
<1>3. DOMAIN rows' = DOMAIN rows /\ \A j \in DOMAIN rows : rows[j] \in Row
  BY <1>1 DEF GInv, TypeOK
<1>4. \A j \in DOMAIN rows : rows'[j].op = rows[j].op
                             /\ rows'[j].status = IF j = i THEN "success" ELSE rows[j].status
  BY <1>1, <1>3 DEF Row
<1>5. NothingTwice'
  BY <1>3, <1>4 DEF Once, NothingTwice
<1>6. \A j \in DOMAIN rows : rows'[j].status \in Settled
  <2> TAKE j \in DOMAIN rows
  <2>1. CASE j = i
    BY <1>4, <2>1 DEF Settled
  <2>2. CASE j # i
    <3>1. j \notin Unsettled
      BY <1>2, <2>2 DEF Once
    <3>2. rows[j].status \in Settled
      BY <1>3, <3>1 DEF Row, Unsettled
    <3> QED BY <1>4, <2>2, <3>2
  <2> QED BY <2>1, <2>2
<1>7. ASSUME NEW j \in DOMAIN rows
      PROVE  rows'[j].op \in Ops /\ Context(rows', o)[rows'[j].op] # "unknown"
  <2> DEFINE p == rows'[j].op
  <2>1. p \in Ops
    BY <1>3, <1>4 DEF Row
  <2>2. \A s \in Settled : LastIs(rows', p, s) <=> rows'[j].status = s
    <3> TAKE s \in Settled
    <3>1. \A k \in DOMAIN rows' : rows'[k].op = p => k = j
      BY <1>3, <1>5 DEF NothingTwice
    <3>2. j \in Nat
      BY DEF GInv, TypeOK
    <3>3. j \in DOMAIN rows' /\ rows'[j].op = p /\ j <= j
      BY <1>3, <3>2
    <3> HIDE DEF p
    <3> QED BY <3>1, <3>3 DEF LastIs
  <2>3. rows'[j].status = "success" \/ rows'[j].status = "failed"
    BY <1>6 DEF Settled
  <2>4. /\ LastIs(rows', p, "success") <=> rows'[j].status = "success"
        /\ LastIs(rows', p, "failed") <=> rows'[j].status = "failed"
    BY <2>2 DEF Settled
  <2> HIDE DEF p
  <2>5. CASE p = o
    <3>1. Context(rows', o)[p] = "success"
      BY <2>1, <2>5 DEF Context
    <3> QED BY <2>1, <3>1 DEF p
  <2>6. CASE p # o /\ rows'[j].status = "success"
    <3>1. Context(rows', o)[p] = "success"
      BY <2>1, <2>4, <2>6 DEF Context
    <3> QED BY <2>1, <3>1 DEF p
  <2>7. CASE p # o /\ rows'[j].status = "failed"
    <3>1. Context(rows', o)[p] = "failed"
      BY <2>1, <2>4, <2>7 DEF Context
    <3> QED BY <2>1, <3>1 DEF p
  <2> QED BY <2>3, <2>5, <2>6, <2>7
<1>8. pending' = {p \in Ops : Context(rows', o)[p] = "unknown"}
  BY DEF Resume, Begin
<1>9. \A j \in DOMAIN rows' : rows'[j].op \notin pending'
  BY <1>3, <1>7, <1>8
<1>10. Unsettled' = {}
  BY <1>3, <1>6 DEF Settled, Unsettled
<1>11. \A p \in pending' : status'[p] = "unknown"
  BY <1>8 DEF Resume, Begin
<1> QED BY <1>5, <1>9, <1>10, <1>11 DEF Once

\* A result taken up leaves the operation runs as they are, and with it its
\* operation is decided or the loop is over.
LEMMA TakeRows ==
  ASSUME GInv, Once, NEW o \in Ops, TakeResult(o)
  PROVE  Once'
<1>1. rows' = rows
  BY DEF TakeResult, TakeGone, TakeFailure, TakeFatal, TakeSkip, TakePause, TakeSuccess, TakeCondition, Take, End
<1>2. Unsettled' = Unsettled
  BY <1>1 DEF Unsettled
<1>3. NothingTwice' /\ \A i, j \in Unsettled' : i = j
  BY <1>1, <1>2 DEF Once, NothingTwice
<1>4. CASE driver' = "nobody"
  BY <1>3, <1>4 DEF Once
<1>5. CASE driver' # "nobody"
  <2>1. /\ driver' = driver /\ results[o] # "waiting"
        /\ results' = [p \in DOMAIN results \ {o} |-> results[p]]
        /\ pending' \subseteq pending \ {o}
        /\ \A p \in pending' : status'[p] = status[p]
    <3>1. ~(TakeGone(o) \/ TakeFatal(o) \/ TakePause(o))
      BY <1>5 DEF TakeGone, TakeFatal, TakePause, End
    <3>2. pending \subseteq Ops /\ \A s : \A p \in Ops \ {o} : [status EXCEPT ![o] = s][p] = status[p]
      BY DEF GInv, TypeOK
    <3>3. CASE TakeFailure(o)
      BY <3>2, <3>3 DEF TakeFailure, Take, Result
    <3>4. CASE TakeSkip(o)
      BY <3>2, <3>4 DEF TakeSkip, Take, Result
    <3>5. CASE TakeSuccess(o)
      BY <3>2, <3>5 DEF TakeSuccess, Take, Result
    <3>6. CASE TakeCondition(o)
      BY <3>2, <3>6 DEF TakeCondition, Take, Result
    <3> QED BY <3>1, <3>3, <3>4, <3>5, <3>6 DEF TakeResult
  <2>2. \A i \in DOMAIN rows' : rows'[i].op \notin pending' \/ rows'[i].op \in DOMAIN results'
    BY <1>1, <1>5, <2>1 DEF Once
  <2>3. \A i \in Unsettled' : rows'[i].op \in DOMAIN results' /\ results'[rows'[i].op] = "waiting"
    BY <1>1, <1>2, <1>5, <2>1 DEF Once
  <2>4. \A p \in pending' : status'[p] = "unknown"
    BY <1>5, <2>1 DEF Once
  <2> QED BY <1>3, <2>2, <2>3, <2>4 DEF Once
<1> QED BY <1>4, <1>5

\* The invariant is inductive.
LEMMA OnceStep ==
  ASSUME PausesOrdered, GInv, Once, [Next]_vars
  PROVE  Once'
<1>1. CASE Start
  BY <1>1 DEF Start, Begin, Unknown, Unsettled, Once, NothingTwice
<1>2. CASE Gather
  BY <1>2, RoundOnce
<1>3. CASE DropDead
  <2>1. UNCHANGED <<rows, results, driver>> /\ pending' = pending \ Dead
    BY <1>3 DEF DropDead
  <2>2. \A o \in pending' : status'[o] = status[o]
    BY <1>3 DEF DropDead, GInv, TypeOK
  <2> QED BY <2>1, <2>2 DEF Unsettled, Once, NothingTwice
<1>4. CASE Complete \/ Stuck
  BY <1>4 DEF Complete, Stuck, End, Unsettled, Once, NothingTwice
<1>5. CASE \E o \in Ops : TakeResult(o)
  BY <1>5, TakeRows
<1>6. CASE \E o \in Ops : Resume(o)
  BY <1>6, ResumeRows
<1>7. CASE \E o \in Ops : ResumeFails(o)
  <2>1. PICK o \in Ops, i \in DOMAIN rows, s \in {"failed", "running"} :
          IsPause(i, o) /\ rows' = [rows EXCEPT ![i].status = s]
    BY <1>7 DEF ResumeFails
  <2>2. driver' = "nobody"
    BY <1>7 DEF ResumeFails
  <2>3. DOMAIN rows' = DOMAIN rows /\ \A j \in DOMAIN rows : rows[j] \in Row
    BY <2>1 DEF GInv, TypeOK
  <2>4. \A j \in DOMAIN rows : rows'[j].op = rows[j].op
                               /\ rows'[j].status = IF j = i THEN s ELSE rows[j].status
    BY <2>1, <2>3 DEF Row
  <2>5. i \in Unsettled
    BY <2>1 DEF IsPause, Unsettled
  <2>6. Unsettled' \subseteq Unsettled
    BY <2>3, <2>4, <2>5 DEF Unsettled
  <2> QED BY <2>2, <2>3, <2>4, <2>6 DEF Once, NothingTwice
<1>8. CASE UNCHANGED vars
  BY <1>8 DEF vars, Unsettled, Once, NothingTwice
<1> QED BY <1>1, <1>2, <1>3, <1>4, <1>5, <1>6, <1>7, <1>8 DEF Next, Walk

\* Whatever the graph, if of two operations that may pause one depends on the
\* other, then no operation is executed twice in a run, however often the run
\* is paused and resumed.
THEOREM RunsOnce == PausesOrdered => (Spec => []NothingTwice)
<1> SUFFICES ASSUME PausesOrdered PROVE Spec => []NothingTwice
  OBVIOUS
<1>1. Init => GInv /\ Once
  <2>1. Init => GInv
    BY InitStep
  <2>2. Init => Once
    BY DEF Init, Once, Unsettled, NothingTwice
  <2> QED BY <2>1, <2>2
<1>2. GInv /\ Once /\ [Next]_vars => GInv' /\ Once'
  BY GraphStep, OnceStep
<1>3. Once => NothingTwice
  BY DEF Once
<1> QED BY <1>1, <1>2, <1>3, PTL DEF Spec

---------------------------------------------------------------------------
(* When the graph is given up as stuck.                                    *)

\* In a workflow without pauses an execution is a worker's, from its start to
\* its end.
Unpaused ==
  /\ driver \in {"worker", "nobody"}
  /\ driver = "worker" => run = "running"
  /\ driver = "nobody" => run \in {"absent", "success", "failed"} /\ DOMAIN results = {}
  /\ run = "absent" => status = Unknown
  /\ Unsettled = {}
  /\ \A o \in DOMAIN results : results[o] \in Outcomes(o)

\* What an operation may give.
LEMMA OutcomeKinds ==
  ASSUME NEW o \in Ops, NEW r \in Outcomes(o)
  PROVE  /\ r = "waiting" => o \in WaitOps
         /\ r = "skipped" => o \in SkipOps
         /\ r \in {"then", "else"} => o \in Conditions
         /\ r = "ok" => o \notin Conditions
<1>1. CASE o \in Conditions
  BY <1>1 DEF Outcomes
<1>2. CASE o \notin Conditions
  BY <1>2 DEF Outcomes
<1> QED BY <1>1, <1>2

\* Taking a result up leaves the others, and the operation runs.
LEMMA TakenUp ==
  ASSUME NEW o \in Ops, TakeFailure(o) \/ TakeSkip(o) \/ TakeSuccess(o) \/ TakeCondition(o)
  PROVE  /\ o \in DOMAIN results /\ o \in pending
         /\ results' = [p \in DOMAIN results \ {o} |-> results[p]]
         /\ UNCHANGED <<run, driver, rows>>
<1>1. CASE TakeFailure(o)
  BY <1>1 DEF TakeFailure, Take, Result
<1>2. CASE TakeSkip(o)
  BY <1>2 DEF TakeSkip, Take, Result
<1>3. CASE TakeSuccess(o)
  BY <1>3 DEF TakeSuccess, Take, Result
<1>4. CASE TakeCondition(o)
  BY <1>4 DEF TakeCondition, Take, Result
<1> QED BY <1>1, <1>2, <1>3, <1>4

\* Without pauses there is nothing to resume, and every step keeps it so.
LEMMA UnpausedStep ==
  ASSUME WaitOps = {}, GInv, Unpaused, [Next]_vars
  PROVE  Unpaused'
<1>0. DOMAIN NoResults = {}
  BY DEF NoResults
<1>1. CASE Start
  BY <1>0, <1>1 DEF Start, Begin, Unsettled, Unpaused
<1>2. CASE Gather
  <2>1. /\ results' \in [Ready -> Results] /\ \A o \in Ready : results'[o] \in Outcomes(o)
        /\ \A i \in DOMAIN rows : i \in DOMAIN rows' /\ rows'[i] = rows[i]
        /\ \A i \in DOMAIN rows' \ DOMAIN rows :
             rows'[i].op \in Ready /\ rows'[i] = RowOf(rows'[i].op, results'[rows'[i].op])
    BY <1>2, RoundRows
  <2>2. Ready \subseteq Ops
    BY DEF Ready, GInv, TypeOK
  <2>3. \A o \in Ready : results'[o] # "waiting"
    BY <2>1, <2>2, OutcomeKinds
  <2>4. run' = run /\ UNCHANGED <<driver, status>> /\ driver # "nobody"
    BY <1>2, <2>1, <2>3 DEF Gather, Looping
  <2>5. Unsettled' = {}
    <3> SUFFICES ASSUME NEW i \in DOMAIN rows', rows'[i].status \in {"waiting", "running"}
                 PROVE  FALSE
      BY DEF Unsettled
    <3>1. CASE i \in DOMAIN rows
      BY <2>1, <3>1 DEF Unpaused, Unsettled
    <3>2. CASE i \notin DOMAIN rows
      BY <2>1, <2>3, <3>2, RowSettled
    <3> QED BY <3>1, <3>2
  <2>6. DOMAIN results' = Ready
    BY <2>1
  <2> QED BY <2>1, <2>4, <2>5, <2>6 DEF Unpaused
<1>3. CASE DropDead
  BY <1>3 DEF DropDead, Looping, Unpaused, Unsettled
<1>4. CASE Complete \/ Stuck
  BY <1>0, <1>4 DEF Complete, Stuck, End, Looping, Unpaused, Unsettled
<1>5. ASSUME NEW o \in Ops, TakeResult(o)
      PROVE  Unpaused'
  <2>1. o \in DOMAIN results /\ results[o] # "waiting"
    BY <1>5, OutcomeKinds
       DEF Unpaused, TakeResult, TakeGone, TakeFailure, TakeFatal, TakeSkip, TakePause, TakeSuccess,
           TakeCondition, Result
  <2>2. driver = "worker" /\ run = "running"
    BY <2>1 DEF Unpaused
  <2>3. CASE TakeGone(o) \/ TakeFatal(o)
    BY <1>0, <2>2, <2>3 DEF TakeGone, TakeFatal, End, Unpaused, Unsettled
  <2>4. CASE TakeFailure(o) \/ TakeSkip(o) \/ TakeSuccess(o) \/ TakeCondition(o)
    BY <2>2, <2>4, TakenUp DEF Unpaused, Unsettled
  <2>5. ~TakePause(o)
    BY <2>1 DEF TakePause, Result
  <2> QED BY <1>5, <2>3, <2>4, <2>5 DEF TakeResult
<1>6. ~ \E o \in Ops : Resume(o) \/ ResumeFails(o)
  BY DEF Resume, ResumeFails, IsPause, Unpaused, Unsettled
<1>7. CASE UNCHANGED vars
  BY <1>7 DEF vars, Unpaused, Unsettled
<1> QED BY <1>1, <1>2, <1>3, <1>4, <1>5, <1>6, <1>7 DEF Next, Walk

\* The branch a condition does not select, and what is skipped with it.
Unselected(o) == IF results[o] = "then" THEN Else[o] ELSE Then[o]
SkippedWith(o) == ToSkip(Unselected(o), pending \ {o})

\* What is skipped: the least set that contains the branch and every pending
\* operation all of whose dependencies it contains.
LEMMA ToSkipLeast ==
  ASSUME NEW S \in SUBSET Ops, NEW left \in SUBSET Ops
  PROVE  /\ S \subseteq ToSkip(S, left) /\ ToSkip(S, left) \subseteq S \cup left
         /\ \A U \in SUBSET left : Closed(S \cup U, left) => ToSkip(S, left) \subseteq S \cup U
         /\ \A p \in ToSkip(S, left) \ S : deps[p] # {} /\ deps[p] \subseteq ToSkip(S, left)
<1> DEFINE closed == {T \in {S \cup U : U \in SUBSET left} : Closed(T, left)}
           skip == ToSkip(S, left)
<1>1. skip = {p \in S \cup left : \A T \in closed : p \in T}
  BY DEF ToSkip
<1>2. \A U \in SUBSET left : Closed(S \cup U, left) => skip \subseteq S \cup U
  <2> SUFFICES ASSUME NEW U \in SUBSET left, Closed(S \cup U, left)
               PROVE  skip \subseteq S \cup U
    OBVIOUS
  <2>1. S \cup U \in closed
    OBVIOUS
  <2> QED BY <1>1, <2>1
<1>3. \A T \in closed : S \subseteq T /\ Closed(T, left)
  OBVIOUS
<1> HIDE DEF closed, skip
<1>4. S \subseteq skip /\ skip \subseteq S \cup left
  BY <1>1, <1>3
<1>5. ASSUME NEW p \in skip \ S, ~(deps[p] # {} /\ deps[p] \subseteq skip)
      PROVE  FALSE
  <2> DEFINE U == (skip \ S) \ {p}
  <2>1. U \in SUBSET left
    BY <1>4
  <2>2. S \cup U = skip \ {p}
    BY <1>4, <1>5
  <2>3. Closed(skip \ {p}, left)
    <3> SUFFICES ASSUME NEW q \in left, deps[q] # {}, deps[q] \subseteq skip \ {p}
                 PROVE  q \in skip \ {p}
      BY DEF Closed
    <3>1. \A T \in closed : q \in T
      BY <1>1, <1>3 DEF Closed
    <3>2. q \in skip
      BY <1>1, <3>1
    <3>3. q # p
      BY <1>5
    <3> QED BY <3>2, <3>3
  <2> HIDE DEF U
  <2>4. skip \subseteq skip \ {p}
    BY <1>2, <2>1, <2>2, <2>3
  <2> QED BY <1>5, <2>4
<1> QED BY <1>2, <1>4, <1>5 DEF skip

\* Operations no skip of a branch reaches: they are in none, and if they have
\* anything to wait for they depend on one of their own kind.
OutOfReach(B) ==
  \A d \in B :
    /\ \A c \in Ops : d \notin Then[c] \cup Else[c]
    /\ DependsOn[d] \cap B # {} \/ (DependsOn[d] = {} /\ Sources(d) = {})

\* A dependency an earlier execution has added to a follow-up does not keep it
\* back in a later one: it is the only operation o follows, or it calls o by
\* its failure alone and is never skipped.
AddsNoObstacle(B) ==
  \A o \in Ops : \A d \in Sources(o) \ DependsOn[o] :
    \/ Sources(o) = {d}
    \/ OnSuccess[d] # o /\ d \in B \ SkipOps /\ Sources(d) = {}

Rerunnable == \E B \in SUBSET Ops : OutOfReach(B) /\ AddsNoObstacle(B)

\* While the loop runs: the follow-up of a failure may run after it, no other
\* operation may, and what is out of reach and can be executed is not skipped.
Permits(B) ==
  driver # "nobody" =>
    /\ \A d \in Ops : status[d] = "failed" /\ OnFailure[d] \in pending => <<d, OnFailure[d]>> \in allowed
    /\ \A d, o \in Ops : <<d, o>> \in allowed => OnFailure[d] = o
    /\ \A d \in B \ SkipOps : Sources(d) = {} => status[d] # "skipped"

\* A condition skips nothing that is out of reach.
LEMMA OutOfReachStays ==
  ASSUME GInv, NEW B \in SUBSET Ops, OutOfReach(B), NEW o \in Ops
  PROVE  SkippedWith(o) \cap B = {}
<1> DEFINE S == Unselected(o)
           left == pending \ {o}
           U == left \ B
<1>1. S \in SUBSET Ops /\ left \in SUBSET Ops
  BY GraphAssumption DEF Unselected, GInv, TypeOK
<1>2. S \cap B = {}
  BY DEF Unselected, OutOfReach
<1>3. \A p \in Ops : DependsOn[p] \subseteq deps[p] /\ deps[p] \subseteq DependsOn[p] \cup Sources(p)
  BY DEF GInv, Within
<1> SUFFICES ToSkip(S, left) \cap B = {}
  BY DEF SkippedWith
<1> HIDE DEF S, left
<1>4. Closed(S \cup U, left)
  <2> SUFFICES ASSUME NEW p \in left, deps[p] # {}, deps[p] \subseteq S \cup U, p \in B
               PROVE  FALSE
    BY DEF Closed
  <2>1. DependsOn[p] \cap B = {}
    BY <1>1, <1>2, <1>3
  <2>2. DependsOn[p] = {} /\ Sources(p) = {}
    BY <2>1 DEF OutOfReach
  <2> QED BY <1>1, <1>3, <2>2
<1>5. U \in SUBSET left /\ U \cap B = {}
  OBVIOUS
<1> HIDE DEF U
<1>6. ToSkip(S, left) \subseteq S \cup U
  BY <1>1, <1>4, <1>5, ToSkipLeast
<1> QED BY <1>2, <1>5, <1>6

\* A result taken up gives the permission that goes with it.
LEMMA TakePermits ==
  ASSUME GInv, Unpaused, NEW B \in SUBSET Ops, OutOfReach(B), Permits(B),
         NEW o \in Ops, TakeResult(o)
  PROVE  Permits(B)'
<1>1. CASE driver' = "nobody"
  BY <1>1 DEF Permits
<1>2. CASE driver' # "nobody"
  <2>1. ~(TakeGone(o) \/ TakeFatal(o) \/ TakePause(o))
    BY <1>2 DEF TakeGone, TakeFatal, TakePause, End
  <2>2. TakeFailure(o) \/ TakeSkip(o) \/ TakeSuccess(o) \/ TakeCondition(o)
    BY <2>1 DEF TakeResult
  <2>3. driver = driver' /\ o \in DOMAIN results /\ o \in pending
    BY <2>2, TakenUp
  <2>4. /\ \A d \in Ops : status[d] = "failed" /\ OnFailure[d] \in pending => <<d, OnFailure[d]>> \in allowed
        /\ \A d, p \in Ops : <<d, p>> \in allowed => OnFailure[d] = p
        /\ \A d \in B \ SkipOps : Sources(d) = {} => status[d] # "skipped"
    BY <1>2, <2>3 DEF Permits
  <2>5. \A d \in Ops : status[d] \in {"success", "failed", "unknown", "skipped"}
    BY DEF GInv, TypeOK, Settled
  <2>6. CASE TakeFailure(o)
    <3>1. /\ pending' = pending \ {o}
          /\ allowed' = IF OnFailure[o] \in pending \ {o} THEN allowed \cup {<<o, OnFailure[o]>>} ELSE allowed
          /\ \A d \in Ops : status'[d] = IF d = o THEN "failed" ELSE status[d]
      BY <2>6 DEF TakeFailure, Take, GInv, TypeOK
    <3>2. \A d \in Ops : status'[d] = "failed" /\ OnFailure[d] \in pending' => <<d, OnFailure[d]>> \in allowed'
      BY <2>4, <3>1
    <3>3. \A d, p \in Ops : <<d, p>> \in allowed' => OnFailure[d] = p
      BY <2>4, <3>1
    <3>4. \A d \in B \ SkipOps : Sources(d) = {} => status'[d] # "skipped"
      BY <2>4, <3>1
    <3> QED BY <3>2, <3>3, <3>4 DEF Permits, Sources
  <2>7. CASE TakeSkip(o) \/ TakeSuccess(o) \/ TakeCondition(o)
    <3>1. /\ allowed' = allowed /\ pending' \subseteq pending
          /\ \A d \in Ops : status'[d] = status[d] \/ status'[d] = "success"
                            \/ (status'[d] = "skipped" /\ d \notin B \ SkipOps)
      <4>1. CASE TakeSkip(o)
        <5>1. results[o] = "skipped"
          BY <4>1 DEF TakeSkip, Result
        <5>2. o \in SkipOps
          BY <2>3, <5>1, OutcomeKinds DEF Unpaused
        <5>3. \A d \in Ops : status'[d] = IF d = o THEN "skipped" ELSE status[d]
          BY <4>1 DEF TakeSkip, Take, GInv, TypeOK
        <5> QED BY <4>1, <5>2, <5>3 DEF TakeSkip, Take
      <4>2. CASE TakeSuccess(o)
        <5>1. \A d \in Ops : status'[d] = IF d = o THEN "success" ELSE status[d]
          BY <4>2 DEF TakeSuccess, Take, GInv, TypeOK
        <5> QED BY <4>2, <5>1 DEF TakeSuccess, Take
      <4>3. CASE TakeCondition(o)
        <5>1. /\ status' = [p \in Ops |-> IF p \in SkippedWith(o) THEN "skipped"
                                          ELSE IF p = o THEN "success" ELSE status[p]]
              /\ pending' = (pending \ {o}) \ SkippedWith(o) /\ allowed' = allowed
          BY <4>3 DEF TakeCondition, Take, SkippedWith, Unselected
        <5>2. SkippedWith(o) \cap B = {}
          BY OutOfReachStays
        <5> QED BY <5>1, <5>2
      <4> QED BY <2>7, <4>1, <4>2, <4>3
    <3>2. \A d \in Ops : status'[d] = "failed" /\ OnFailure[d] \in pending' => <<d, OnFailure[d]>> \in allowed'
      BY <2>4, <3>1
    <3>3. \A d \in B \ SkipOps : Sources(d) = {} => status'[d] # "skipped"
      BY <2>4, <3>1
    <3> QED BY <2>4, <3>1, <3>2, <3>3 DEF Permits, Sources
  <2> QED BY <2>2, <2>6, <2>7
<1> QED BY <1>1, <1>2

\* The invariant is inductive in a workflow without pauses.
LEMMA PermitsStep ==
  ASSUME WaitOps = {}, GInv, Unpaused, NEW B \in SUBSET Ops, OutOfReach(B), Permits(B), [Next]_vars
  PROVE  Permits(B)'
<1>1. CASE Start
  <2>1. status' = Unknown /\ allowed' = {}
    BY <1>1 DEF Start, Begin
  <2>2. \A d \in Ops : status'[d] = "unknown"
    BY <2>1 DEF Unknown
  <2> QED BY <2>1, <2>2 DEF Permits, Sources
<1>2. CASE Gather
  BY <1>2 DEF Gather, Permits, Sources
<1>3. CASE DropDead
  <2>1. driver # "nobody" /\ pending' \subseteq pending /\ allowed' = allowed
    BY <1>3 DEF DropDead, Looping
  <2>2. \A d \in Ops : status'[d] = IF d \in Dead THEN "skipped" ELSE status[d]
    BY <1>3 DEF DropDead
  <2>3. \A d \in Dead : Sources(d) # {}
    BY DEF Dead, FollowupBranchDead
  <2>4. \A d \in Ops : status'[d] = "failed" /\ OnFailure[d] \in pending' => <<d, OnFailure[d]>> \in allowed'
    BY <2>1, <2>2 DEF Permits
  <2>5. \A d \in B \ SkipOps : Sources(d) = {} => status'[d] # "skipped"
    BY <2>1, <2>2, <2>3 DEF Permits
  <2> QED BY <2>1, <2>4, <2>5 DEF Permits, Sources
<1>4. CASE Complete \/ Stuck
  BY <1>4 DEF Complete, Stuck, End, Permits
<1>5. CASE \E o \in Ops : TakeResult(o)
  BY <1>5, TakePermits
<1>6. ~ \E o \in Ops : Resume(o) \/ ResumeFails(o)
  BY DEF Resume, ResumeFails, IsPause, Unpaused, Unsettled
<1>7. CASE UNCHANGED vars
  BY <1>7 DEF vars, Permits, Sources
<1> QED BY <1>1, <1>2, <1>3, <1>4, <1>5, <1>6, <1>7 DEF Next, Walk

\* An operation that is pending and called by the definition is ready.
LEMMA CalledIsReady ==
  ASSUME GInv, NEW B \in SUBSET Ops, AddsNoObstacle(B), Permits(B), driver # "nobody",
         NEW o \in pending, CalledByDefinition(o)
  PROVE  o \in Ready
<1>1. o \in Ops /\ deps[o] \subseteq DependsOn[o] \cup Sources(o)
  BY DEF GInv, TypeOK, Within
<1>2. \A d \in Ops : status[d] = "failed" /\ OnFailure[d] = o => <<d, o>> \in allowed
  BY DEF Permits
<1>3. ASSUME NEW d \in deps[o]
      PROVE  status[d] = "success" \/ (status[d] = "failed" /\ <<d, o>> \in allowed)
  <2>0. d \in Ops
    BY <1>1 DEF GInv, TypeOK
  <2>1. CASE d \in DependsOn[o]
    BY <1>2, <2>0, <2>1 DEF CalledByDefinition
  <2>2. CASE d \notin DependsOn[o]
    <3>1. d \in Sources(o) /\ SourcesOver(o) /\ Fired(o)
      BY <1>1, <2>2 DEF CalledByDefinition
    <3>2. CASE Sources(o) = {d}
      <4>1. Fires(status[d], d, o)
        BY <3>1, <3>2 DEF Fired
      <4> QED BY <1>2, <2>0, <4>1 DEF Fires
    <3>3. CASE OnSuccess[d] # o /\ d \in B \ SkipOps /\ Sources(d) = {}
      <4>1. status[d] \in Over /\ OnFailure[d] = o
        BY <3>1, <3>3 DEF SourcesOver, Sources
      <4>2. status[d] # "skipped"
        BY <3>3 DEF Permits
      <4> QED BY <1>2, <2>0, <4>1, <4>2 DEF Over
    <3> QED BY <1>1, <2>2, <3>1, <3>2, <3>3 DEF AddsNoObstacle
  <2> QED BY <2>1, <2>2
<1> QED BY <1>3 DEF Ready, DependenciesSatisfied, DependsOnSatisfied, CalledByDefinition

\* In a workflow without pauses, whose follow-ups are not kept back by what
\* earlier executions have added to the graph, a run is given up as stuck only
\* if its definition calls none of the operations left.
THEOREM StuckMeansStuck == WaitOps = {} /\ Rerunnable => (Spec => StuckForAReason)
<1> SUFFICES ASSUME WaitOps = {}, Rerunnable PROVE Spec => StuckForAReason
  OBVIOUS
<1>0. PICK B \in SUBSET Ops : OutOfReach(B) /\ AddsNoObstacle(B)
  BY DEF Rerunnable
<1> DEFINE Inv == GInv /\ Unpaused /\ Permits(B)
<1>1. Init => Inv
  <2>1. Init => Unpaused
    BY DEF Init, NoResults, Unsettled, Unpaused
  <2>2. Init => Permits(B)
    BY DEF Init, Permits
  <2> QED BY <2>1, <2>2, InitStep
<1>2. Inv /\ [Next]_vars => Inv'
  BY <1>0, GraphStep, UnpausedStep, PermitsStep
<1>3. Inv /\ [Next]_vars => [Stuck => \A o \in pending : ~CalledByDefinition(o)]_vars
  <2> SUFFICES ASSUME Inv, Stuck, NEW o \in pending, CalledByDefinition(o)
               PROVE  FALSE
    OBVIOUS
  <2>1. o \in Ready
    BY <1>0, CalledIsReady DEF Stuck, Looping
  <2> QED BY <2>1 DEF Stuck
<1> QED BY <1>1, <1>2, <1>3, PTL DEF Spec, StuckForAReason

---------------------------------------------------------------------------
(* The graph keeps the promise of its definition.                          *)

\* The branches of a condition depend on it.
BranchesAfter == \A c \in Ops : \A b \in Then[c] \cup Else[c] : c \in DependsOn[b]

\* While the loop runs: what is pending is what is open; what the round
\* returned is pending and was called; what an executed operation depends on
\* is decided; a failure has a follow-up.
Calls ==
  driver # "nobody" =>
    /\ \A o \in Ops : o \in pending <=> status[o] = "unknown"
    /\ \A o \in DOMAIN results : o \in pending /\ CalledByDefinition(o)
    /\ \A o \in Ops : status[o] \in Settled => DependsOn[o] \cap pending = {}
    /\ \A o \in Ops : status[o] = "failed" => OnFailure[o] # None

\* A condition that succeeded has the branch it selected in its operation run,
\* and so has one whose result is not yet taken up.
Recorded ==
  /\ \A o \in Conditions : status[o] = "success" => \E b \in {"then", "else"} : Branch(o) = {b}
  /\ \A o \in DOMAIN results : results[o] \in {"then", "else"} => Branch(o) = {results[o]}

\* What is ready is called by the definition.
LEMMA ReadyIsCalled ==
  ASSUME GInv, NEW B, Permits(B), driver # "nobody", NEW o \in Ready
  PROVE  o \in pending /\ CalledByDefinition(o)
<1>1. o \in Ops /\ o \in pending /\ DependsOn[o] \subseteq deps[o] /\ DependsOn[o] \subseteq Ops
  BY GraphAssumption DEF Ready, GInv, TypeOK, Within
<1>2. \A d \in DependsOn[o] : status[d] = "success" \/ (status[d] = "failed" /\ OnFailure[d] = o)
  BY <1>1 DEF Ready, DependenciesSatisfied, DependsOnSatisfied, Permits
<1> QED BY <1>1, <1>2 DEF Ready, DependenciesSatisfied, CalledByDefinition

\* A call stands while what is decided stands.
LEMMA CallStands ==
  ASSUME NEW o \in Ops, CalledByDefinition(o),
         \A p \in Ops : status[p] # "unknown" => status'[p] = status[p]
  PROVE  CalledByDefinition(o)'
<1>1. DependsOn[o] \subseteq Ops /\ Sources(o) \subseteq Ops
  BY GraphAssumption DEF Sources
<1>2. \A d \in DependsOn[o] : status'[d] = "success" \/ (status'[d] = "failed" /\ OnFailure[d] = o)
  <2> TAKE d \in DependsOn[o]
  <2>1. status[d] = "success" \/ (status[d] = "failed" /\ OnFailure[d] = o)
    BY DEF CalledByDefinition
  <2> QED BY <1>1, <2>1
<1>3. ASSUME SourcesOver(o), Fired(o)
      PROVE  SourcesOver(o)' /\ Fired(o)'
  <2>1. \A p \in Sources(o) : status'[p] = status[p]
    BY <1>1, <1>3 DEF SourcesOver, Over
  <2> QED BY <1>3, <2>1 DEF SourcesOver, Fired, Sources
<1>4. Sources(o)' = Sources(o)
  BY DEF Sources
<1> QED BY <1>2, <1>3, <1>4 DEF CalledByDefinition

\* What a condition skips is open, or skipped already, and was not executed in
\* its round.
LEMMA ConditionSkips ==
  ASSUME BranchesAfter, NEW B \in SUBSET Ops, OutOfReach(B), AddsNoObstacle(B),
         GInv, Calls, driver # "nobody", NEW o \in Ops, TakeCondition(o)
  PROVE  /\ status' = [p \in Ops |-> IF p \in SkippedWith(o) THEN "skipped"
                                     ELSE IF p = o THEN "success" ELSE status[p]]
         /\ pending' = (pending \ {o}) \ SkippedWith(o)
         /\ SkippedWith(o) \subseteq Ops /\ o \notin SkippedWith(o)
         /\ \A p \in SkippedWith(o) : status[p] \in {"unknown", "skipped"} /\ p \notin DOMAIN results
<1> DEFINE S == Unselected(o)
           left == pending \ {o}
<1>1. o \in DOMAIN results /\ o \in pending
  BY TakenUp
<1>2. S \in SUBSET Ops /\ left \in SUBSET Ops /\ S \subseteq Then[o] \cup Else[o]
  BY GraphAssumption DEF Unselected, GInv, TypeOK
<1>3. \A p \in S : o \in DependsOn[p]
  BY <1>2 DEF BranchesAfter
<1>4. /\ status' = [p \in Ops |-> IF p \in SkippedWith(o) THEN "skipped"
                                  ELSE IF p = o THEN "success" ELSE status[p]]
      /\ pending' = (pending \ {o}) \ SkippedWith(o)
  BY DEF TakeCondition, Take, SkippedWith, Unselected
<1>5. SkippedWith(o) = ToSkip(S, left)
  BY DEF SkippedWith
<1> HIDE DEF S, left
<1>6. /\ ToSkip(S, left) \subseteq S \cup left
      /\ \A U \in SUBSET left : Closed(S \cup U, left) => ToSkip(S, left) \subseteq S \cup U
  BY <1>2, ToSkipLeast
<1>7. \A p \in S : status[p] \notin Settled
  BY <1>1, <1>2, <1>3 DEF Calls
<1>8. \A p \in DOMAIN results : p \notin S
  <2> SUFFICES ASSUME NEW p \in DOMAIN results, p \in S PROVE FALSE
    OBVIOUS
  <2>1. status[o] \in {"success", "failed"}
    BY <1>3 DEF Calls, CalledByDefinition
  <2> QED BY <1>1, <2>1 DEF Calls
<1>9. \A p \in Ops : status[p] \in {"success", "failed", "unknown", "skipped"}
  BY DEF GInv, TypeOK, Settled
<1>10. \A p \in SkippedWith(o) : status[p] \in {"unknown", "skipped"}
  <2> TAKE p \in SkippedWith(o)
  <2>1. CASE p \in S
    BY <1>2, <1>7, <1>9, <2>1 DEF Settled
  <2>2. CASE p \notin S
    BY <1>2, <1>5, <1>6, <2>2 DEF Calls, left
  <2> QED BY <2>1, <2>2
<1>11. \A p \in SkippedWith(o) : p \notin DOMAIN results
  <2> DEFINE U == left \ DOMAIN results
  <2>1. Closed(S \cup U, left)
    <3> SUFFICES ASSUME NEW p \in left, deps[p] # {}, deps[p] \subseteq S \cup U, p \in DOMAIN results
                 PROVE  FALSE
      BY DEF Closed
    <3>0. CalledByDefinition(p) /\ p \in Ops /\ p \in pending
      BY <1>2 DEF Calls
    <3>1. PICK d \in deps[p] : TRUE
      OBVIOUS
    <3>2. d \in Ops /\ d \in DependsOn[p] \cup Sources(p)
      BY <1>2, <3>0, <3>1 DEF GInv, Within
    <3>3. status[d] \in Settled
      <4>1. CASE d \in DependsOn[p]
        BY <3>0, <4>1 DEF CalledByDefinition, Settled
      <4>2. CASE d \notin DependsOn[p] /\ Sources(p) = {d}
        BY <3>0, <4>2 DEF CalledByDefinition, Fired, Fires, Settled
      <4>3. CASE d \notin DependsOn[p] /\ d \in B
        <5>1. d \in S \cup U /\ d \notin S
          BY <1>2, <3>1, <4>3 DEF OutOfReach
        <5>2. status[d] \in Over
          BY <3>0, <3>2, <4>3 DEF CalledByDefinition, SourcesOver
        <5> QED BY <1>2, <3>2, <5>1, <5>2 DEF Calls, Over, left
      <4> QED BY <3>0, <3>2, <4>1, <4>2, <4>3 DEF AddsNoObstacle
    <3>4. d \notin U
      BY <1>2, <3>2, <3>3 DEF Calls, Settled, left
    <3>5. d \in S
      BY <3>1, <3>4
    <3> QED BY <1>7, <3>3, <3>5
  <2>2. U \in SUBSET left
    BY <1>2
  <2> HIDE DEF U
  <2>3. SkippedWith(o) \subseteq S \cup U
    BY <1>5, <1>6, <2>1, <2>2
  <2> QED BY <1>8, <2>3 DEF U
<1>12. o \notin SkippedWith(o)
  BY <1>1, <1>11
<1> QED BY <1>2, <1>4, <1>5, <1>6, <1>10, <1>11, <1>12

\* When a result is taken up that decides its operation, and leaves open or
\* skips the others, the calls stand.
LEMMA CallsKept ==
  ASSUME GInv, Calls, driver # "nobody", NEW o \in DOMAIN results,
         \A p \in Ops : p \in pending' <=> status'[p] = "unknown",
         \A p \in Ops : status[p] # "unknown" => status'[p] = status[p],
         \A p \in Ops \ {o} : status'[p] \in Settled => status[p] \in Settled,
         status'[o] = "failed" => OnFailure[o] # None,
         DOMAIN results' = DOMAIN results \ {o},
         \A p \in DOMAIN results \ {o} : status'[p] = "unknown"
  PROVE  Calls'
<1>1. DOMAIN results \subseteq Ops /\ \A p \in Ops : DependsOn[p] \subseteq Ops
  <2>1. DOMAIN results \subseteq Ops
    BY DEF GInv, TypeOK
  <2>2. \A p \in Ops : DependsOn[p] \subseteq Ops
    BY GraphAssumption
  <2> QED BY <2>1, <2>2
<1>2. \A p \in DOMAIN results' : p \in pending' /\ CalledByDefinition(p)'
  <2> TAKE p \in DOMAIN results'
  <2>1. CalledByDefinition(p)
    BY DEF Calls
  <2> QED BY <1>1, <2>1, CallStands
<1>3. \A p \in Ops : status'[p] \in Settled => DependsOn[p] \cap pending' = {}
  <2> SUFFICES ASSUME NEW p \in Ops, status'[p] \in Settled, NEW d \in DependsOn[p]
               PROVE  status[d] # "unknown"
    BY <1>1
  <2>1. CASE p = o
    BY <2>1 DEF Calls, CalledByDefinition
  <2>2. CASE p # o
    BY <1>1, <2>2 DEF Calls
  <2> QED BY <2>1, <2>2
<1>4. \A p \in Ops : status'[p] = "failed" => OnFailure[p] # None
  <2> SUFFICES ASSUME NEW p \in Ops, status'[p] = "failed", p # o
               PROVE  OnFailure[p] # None
    OBVIOUS
  <2>1. status[p] \in Settled
    BY DEF Settled
  <2>2. status[p] = "failed"
    BY <2>1 DEF Settled
  <2> QED BY <2>2 DEF Calls
<1> QED BY <1>2, <1>3, <1>4 DEF Calls

\* Every step keeps what is called and what is decided apart.
LEMMA CallsStep ==
  ASSUME WaitOps = {}, BranchesAfter, NEW B \in SUBSET Ops, OutOfReach(B), AddsNoObstacle(B),
         GInv, Unpaused, Permits(B), Calls, [Next]_vars
  PROVE  Calls'
<1>0. DOMAIN NoResults = {}
  BY DEF NoResults
<1>1. CASE Start
  <2>1. status' = Unknown /\ pending' = {o \in Ops : Unknown[o] = "unknown"} /\ DOMAIN results' = {}
    BY <1>0, <1>1 DEF Start, Begin
  <2>2. \A o \in Ops : status'[o] = "unknown" /\ o \in pending'
    BY <2>1 DEF Unknown
  <2> QED BY <2>1, <2>2 DEF Calls, Settled
<1>2. CASE Gather
  <2>1. DOMAIN results' = Ready /\ UNCHANGED <<driver, status, pending>> /\ driver # "nobody"
    <3>1. results' \in [Ready -> Results]
      BY <1>2, RoundRows
    <3> QED BY <1>2, <3>1 DEF Gather, Looping
  <2>2. \A o \in Ready : o \in pending /\ CalledByDefinition(o)
    BY <2>1, ReadyIsCalled
  <2>3. \A o \in Ready : CalledByDefinition(o)'
    BY <2>1, <2>2 DEF CalledByDefinition, Sources, SourcesOver, Fired
  <2> QED BY <2>1, <2>2, <2>3 DEF Calls
<1>3. CASE DropDead
  <2>1. DOMAIN results' = {} /\ driver # "nobody" /\ pending' = pending \ Dead
    BY <1>3 DEF DropDead, Looping
  <2>2. \A o \in Ops : status'[o] = IF o \in Dead THEN "skipped" ELSE status[o]
    BY <1>3 DEF DropDead
  <2>3. /\ \A o \in Ops : o \in pending' <=> status'[o] = "unknown"
        /\ \A o \in Ops : status'[o] \in Settled => DependsOn[o] \cap pending' = {}
        /\ \A o \in Ops : status'[o] = "failed" => OnFailure[o] # None
    BY <2>1, <2>2 DEF Calls, Settled
  <2> QED BY <2>1, <2>3 DEF Calls
<1>4. CASE Complete \/ Stuck
  BY <1>4 DEF Complete, Stuck, End, Calls
<1>5. ASSUME NEW o \in Ops, TakeResult(o)
      PROVE  Calls'
  <2>1. CASE driver' = "nobody"
    BY <2>1 DEF Calls
  <2>2. CASE driver' # "nobody"
    <3>1. ~(TakeGone(o) \/ TakeFatal(o) \/ TakePause(o))
      BY <2>2 DEF TakeGone, TakeFatal, TakePause, End
    <3>2. TakeFailure(o) \/ TakeSkip(o) \/ TakeSuccess(o) \/ TakeCondition(o)
      BY <1>5, <3>1 DEF TakeResult
    <3>3. o \in DOMAIN results /\ o \in pending /\ driver # "nobody" /\ DOMAIN results' = DOMAIN results \ {o}
      BY <2>2, <3>2, TakenUp
    <3>4. /\ \A p \in Ops : p \in pending <=> status[p] = "unknown"
          /\ \A p \in DOMAIN results : p \in pending /\ p \in Ops
      BY <3>3 DEF Calls, GInv, TypeOK
    <3>5. CASE TakeFailure(o)
      <4>1. pending' = pending \ {o} /\ \A p \in Ops : status'[p] = IF p = o THEN "failed" ELSE status[p]
        BY <3>5 DEF TakeFailure, Take, GInv, TypeOK
      <4>2. OnFailure[o] # None
        BY <3>5 DEF TakeFailure
      <4> QED BY <3>3, <3>4, <4>1, <4>2, CallsKept
    <3>6. CASE TakeSkip(o)
      <4>1. pending' = pending \ {o} /\ \A p \in Ops : status'[p] = IF p = o THEN "skipped" ELSE status[p]
        BY <3>6 DEF TakeSkip, Take, GInv, TypeOK
      <4> QED BY <3>3, <3>4, <4>1, CallsKept
    <3>7. CASE TakeSuccess(o)
      <4>1. pending' = pending \ {o} /\ \A p \in Ops : status'[p] = IF p = o THEN "success" ELSE status[p]
        BY <3>7 DEF TakeSuccess, Take, GInv, TypeOK
      <4> QED BY <3>3, <3>4, <4>1, CallsKept
    <3>8. CASE TakeCondition(o)
      <4>1. /\ status' = [p \in Ops |-> IF p \in SkippedWith(o) THEN "skipped"
                                        ELSE IF p = o THEN "success" ELSE status[p]]
            /\ pending' = (pending \ {o}) \ SkippedWith(o)
            /\ SkippedWith(o) \subseteq Ops /\ o \notin SkippedWith(o)
            /\ \A p \in SkippedWith(o) : status[p] \in {"unknown", "skipped"} /\ p \notin DOMAIN results
        BY <3>3, <3>8, ConditionSkips
      <4>2. \A p \in Ops : status'[p] = IF p \in SkippedWith(o) THEN "skipped"
                                        ELSE IF p = o THEN "success" ELSE status[p]
        BY <4>1
      <4> HIDE DEF SkippedWith
      <4>3. /\ \A p \in Ops : p \in pending' <=> status'[p] = "unknown"
            /\ \A p \in Ops : status[p] # "unknown" => status'[p] = status[p]
            /\ \A p \in Ops \ {o} : status'[p] \in Settled => status[p] \in Settled
            /\ status'[o] # "failed"
            /\ \A p \in DOMAIN results \ {o} : status'[p] = "unknown"
        BY <3>3, <3>4, <4>1, <4>2 DEF Settled
      <4> QED BY <3>3, <4>3, CallsKept
    <3> QED BY <3>2, <3>5, <3>6, <3>7, <3>8
  <2> QED BY <2>1, <2>2
<1>6. ~ \E o \in Ops : Resume(o) \/ ResumeFails(o)
  BY DEF Resume, ResumeFails, IsPause, Unpaused, Unsettled
<1>7. CASE UNCHANGED vars
  BY <1>7 DEF vars, Calls, CalledByDefinition, Sources, SourcesOver, Fired
<1> QED BY <1>1, <1>2, <1>3, <1>4, <1>5, <1>6, <1>7 DEF Next, Walk

\* The rows of an operation keep their branch while none is added.
LEMMA BranchSame ==
  ASSUME rows' = rows, NEW o
  PROVE  Branch(o)' = Branch(o)
BY DEF Branch

\* Every step keeps the branches recorded.
LEMMA RecordedStep ==
  ASSUME WaitOps = {}, GInv, Unpaused, Once, Calls, Recorded, [Next]_vars
  PROVE  Recorded'
<1>0. DOMAIN NoResults = {}
  BY DEF NoResults
<1>1. CASE Start
  <2>1. status' = Unknown /\ DOMAIN results' = {}
    BY <1>0, <1>1 DEF Start, Begin
  <2> QED BY <2>1 DEF Recorded, Conditions, Unknown
<1>2. CASE Gather
  <2>1. /\ results' \in [Ready -> Results] /\ \A o \in Ready : results'[o] \in Outcomes(o)
        /\ \A i \in DOMAIN rows : i \in DOMAIN rows' /\ rows'[i] = rows[i]
        /\ \A i \in DOMAIN rows' \ DOMAIN rows :
             rows'[i].op \in Ready /\ rows'[i] = RowOf(rows'[i].op, results'[rows'[i].op])
        /\ \A o \in Ran(results') : \E i \in DOMAIN rows' \ DOMAIN rows : rows'[i].op = o
    BY <1>2, RoundRows
  <2>2. status' = status /\ driver # "nobody" /\ DOMAIN results = {} /\ DOMAIN results' = Ready
    BY <1>2, <2>1 DEF Gather, Looping
  <2>3. Ready \subseteq pending /\ \A o \in pending : status[o] = "unknown"
    BY <2>2 DEF Ready, Once
  <2>4. \A o : Branch(o)' = {rows'[i].branch : i \in {j \in DOMAIN rows' : rows'[j].op = o}}
    BY DEF Branch
  <2>5. ASSUME NEW o \in Conditions, status'[o] = "success"
        PROVE  \E b \in {"then", "else"} : Branch(o)' = {b}
    <3>1. o \notin Ready
      BY <2>2, <2>3, <2>5
    <3>2. Branch(o)' = Branch(o)
      BY <2>1, <2>4, <3>1 DEF Branch
    <3> QED BY <2>2, <2>5, <3>2 DEF Recorded
  <2>6. ASSUME NEW o \in Ready, results'[o] \in {"then", "else"}
        PROVE  Branch(o)' = {results'[o]}
    <3>1. \A i \in DOMAIN rows : rows'[i].op # o
      BY <2>1, <2>2, <2>3 DEF Once
    <3>2. o \in Ran(results')
      BY <2>1, <2>2, <2>6 DEF Ran
    <3>3. PICK i \in DOMAIN rows' \ DOMAIN rows : rows'[i].op = o
      BY <2>1, <3>2
    <3>4. \A j \in DOMAIN rows' : rows'[j].op = o => rows'[j].branch = results'[o]
      <4> SUFFICES ASSUME NEW j \in DOMAIN rows', rows'[j].op = o
                   PROVE  rows'[j].branch = results'[o]
        OBVIOUS
      <4>1. rows'[j] = RowOf(o, results'[o])
        BY <2>1, <3>1
      <4> QED BY <2>6, <4>1 DEF RowOf
    <3> QED BY <2>4, <3>3, <3>4
  <2> QED BY <2>2, <2>5, <2>6 DEF Recorded, Conditions
<1>3. CASE DropDead
  <2>1. DOMAIN results' = {} /\ rows' = rows
    BY <1>3 DEF DropDead, Looping
  <2>2. \A o \in Ops : status'[o] = "success" => status[o] = "success"
    BY <1>3 DEF DropDead
  <2>3. \A o : Branch(o)' = Branch(o)
    BY <2>1, BranchSame
  <2> QED BY <2>1, <2>2, <2>3 DEF Recorded, Conditions
<1>4. CASE Complete \/ Stuck
  <2>1. DOMAIN results' = {} /\ rows' = rows /\ status' = status
    BY <1>0, <1>4 DEF Complete, Stuck, End
  <2>2. \A o : Branch(o)' = Branch(o)
    BY <2>1, BranchSame
  <2> QED BY <2>1, <2>2 DEF Recorded, Conditions
<1>5. ASSUME NEW o \in Ops, TakeResult(o)
      PROVE  Recorded'
  <2>1. rows' = rows
    BY <1>5 DEF TakeResult, TakeGone, TakeFailure, TakeFatal, TakeSkip, TakePause, TakeSuccess,
                TakeCondition, Take, End
  <2>2. \A p : Branch(p)' = Branch(p)
    BY <2>1, BranchSame
  <2>3. \A p \in DOMAIN results' : p \in DOMAIN results /\ results'[p] = results[p]
    BY <1>0, <1>5, TakenUp DEF TakeResult, TakeGone, TakeFatal, TakePause, End
  <2>4. \A p \in Conditions : status'[p] = "success" =>
          status[p] = "success" \/ (p = o /\ o \in DOMAIN results /\ results[o] \in {"then", "else"})
    <3>1. CASE TakeGone(o) \/ TakePause(o)
      BY <3>1 DEF TakeGone, TakePause
    <3>2. CASE TakeFatal(o) \/ TakeFailure(o)
      BY <3>2 DEF TakeFatal, TakeFailure, Take, Conditions, GInv, TypeOK
    <3>3. CASE TakeSkip(o)
      BY <3>3 DEF TakeSkip, Take, Conditions, GInv, TypeOK
    <3>4. CASE TakeSuccess(o)
      <4>1. o \in DOMAIN results /\ results[o] = "ok"
        BY <3>4 DEF TakeSuccess, Result
      <4>2. o \notin Conditions
        BY <4>1, OutcomeKinds DEF Unpaused
      <4>3. \A p \in Ops : status'[p] = IF p = o THEN "success" ELSE status[p]
        BY <3>4 DEF TakeSuccess, Take, GInv, TypeOK
      <4> QED BY <4>2, <4>3 DEF Conditions
    <3>5. CASE TakeCondition(o)
      <4>1. o \in DOMAIN results /\ results[o] \in {"then", "else"}
        BY <3>5 DEF TakeCondition, Result
      <4>2. \A p \in Ops : status'[p] = IF p \in SkippedWith(o) THEN "skipped"
                                        ELSE IF p = o THEN "success" ELSE status[p]
        BY <3>5 DEF TakeCondition, Take, SkippedWith, Unselected
      <4> QED BY <4>1, <4>2 DEF Conditions
    <3> QED BY <1>5, <3>1, <3>2, <3>3, <3>4, <3>5 DEF TakeResult
  <2>5. \A p \in Conditions : status'[p] = "success" => \E b \in {"then", "else"} : Branch(p)' = {b}
    BY <2>2, <2>4 DEF Recorded
  <2> QED BY <2>2, <2>3, <2>5 DEF Recorded, Conditions
<1>6. ~ \E o \in Ops : Resume(o) \/ ResumeFails(o)
  BY DEF Resume, ResumeFails, IsPause, Unpaused, Unsettled
<1>7. CASE UNCHANGED vars
  <2>1. \A o : Branch(o)' = Branch(o)
    BY <1>7, BranchSame DEF vars
  <2> QED BY <1>7, <2>1 DEF vars, Recorded, Conditions
<1> QED BY <1>1, <1>2, <1>3, <1>4, <1>5, <1>6, <1>7 DEF Next, Walk

\* What the outcomes of the promise say of the statuses.
Reads ==
  \A o \in Ops :
    /\ Outcome[o] \in {"unknown", "success", "then", "else", "failed", "skipped"}
    /\ Promise!Succeeded(Outcome[o]) <=> status[o] = "success"
    /\ \A s \in {"failed", "skipped", "unknown"} : Outcome[o] = s <=> status[o] = s
    /\ o \in Conditions /\ status[o] = "success" => Branch(o) = {Outcome[o]}
    /\ o \notin Conditions \/ status[o] # "success" => Outcome[o] = status[o]

\* They say so while the branches are recorded.
LEMMA OutcomeReads ==
  ASSUME GInv, Recorded
  PROVE  Reads
<1> SUFFICES ASSUME NEW o \in Ops
             PROVE  /\ Outcome[o] \in {"unknown", "success", "then", "else", "failed", "skipped"}
                    /\ Promise!Succeeded(Outcome[o]) <=> status[o] = "success"
                    /\ \A s \in {"failed", "skipped", "unknown"} : Outcome[o] = s <=> status[o] = s
                    /\ o \in Conditions /\ status[o] = "success" => Branch(o) = {Outcome[o]}
                    /\ o \notin Conditions \/ status[o] # "success" => Outcome[o] = status[o]
  BY DEF Reads
<1>1. status[o] \in {"success", "failed", "unknown", "skipped"}
  BY DEF GInv, TypeOK, Settled
<1>2. CASE o \in Conditions /\ status[o] = "success"
  <2>1. PICK b \in {"then", "else"} : Branch(o) = {b}
    BY <1>2 DEF Recorded
  <2>2. Outcome[o] = CHOOSE x \in Branch(o) : TRUE
    BY <1>2 DEF Outcome
  <2>3. Outcome[o] = b
    BY <2>1, <2>2
  <2> QED BY <1>2, <2>1, <2>3 DEF Promise!Succeeded
<1>3. CASE ~(o \in Conditions /\ status[o] = "success")
  <2>1. Outcome[o] = status[o]
    BY <1>3 DEF Outcome
  <2> QED BY <1>1, <1>3, <2>1 DEF Promise!Succeeded
<1> QED BY <1>2, <1>3

\* An operation whose status stands keeps its outcome.
LEMMA OutcomeKept ==
  ASSUME Reads, Reads', NEW o \in Ops, status'[o] = status[o], Branch(o) \subseteq Branch(o)'
  PROVE  Outcome'[o] = Outcome[o]
<1>1. CASE o \in Conditions /\ status[o] = "success"
  <2>1. Branch(o) = {Outcome[o]}
    BY <1>1 DEF Reads
  <2>2. Branch(o)' = {Outcome'[o]}
    BY <1>1 DEF Reads, Conditions
  <2> QED BY <2>1, <2>2
<1>2. CASE ~(o \in Conditions /\ status[o] = "success")
  BY <1>2 DEF Reads, Conditions
<1> QED BY <1>1, <1>2

\* The outcomes are given operation by operation.
LEMMA OutcomeEqual ==
  ASSUME \A o \in Ops : Outcome'[o] = Outcome[o]
  PROVE  Outcome' = Outcome
<1>1. Outcome = [o \in Ops |-> Outcome[o]]
  BY DEF Outcome
<1>2. Outcome' = [o \in Ops |-> Outcome'[o]]
  BY DEF Outcome
<1> HIDE DEF Outcome
<1>3. [o \in Ops |-> Outcome'[o]] = [o \in Ops |-> Outcome[o]]
  OBVIOUS
<1> QED BY <1>1, <1>2, <1>3

\* The promise calls an operation if and only if the statuses do.
LEMMA PromiseCalls ==
  ASSUME GInv, Reads, NEW o \in Ops
  PROVE  /\ Promise!Called(o, Outcome) <=> CalledByDefinition(o)
         /\ Promise!SourcesOver(o, Outcome) <=> SourcesOver(o)
         /\ Promise!Fired(o, Outcome) <=> Fired(o)
<1>1. Promise!Sources(o) = Sources(o) /\ Sources(o) \subseteq Ops /\ DependsOn[o] \subseteq Ops
  BY GraphAssumption DEF Promise!Sources, Sources
<1>2. \A p \in Ops : Outcome[p] # "unknown" <=> status[p] \in Over
  BY DEF Reads, GInv, TypeOK, Over, Settled
<1>3. Promise!SourcesOver(o, Outcome) <=> SourcesOver(o)
  BY <1>1, <1>2 DEF Promise!SourcesOver, SourcesOver
<1>4. \A p \in Ops : /\ Promise!Succeeded(Outcome[p]) <=> status[p] = "success"
                     /\ Outcome[p] = "failed" <=> status[p] = "failed"
  BY DEF Reads
<1>5. Promise!Fired(o, Outcome) <=> Fired(o)
  BY <1>1, <1>4 DEF Promise!Fired, Fired, Fires
<1> QED BY <1>1, <1>3, <1>4, <1>5 DEF Promise!Called, CalledByDefinition

\* What is decided in the promise stands, and with it a call and a follow-up
\* nobody fired.
LEMMA PromiseStands ==
  ASSUME NEW out, NEW new, NEW o \in Ops, \A p \in Ops : out[p] # "unknown" => new[p] = out[p]
  PROVE  /\ Promise!Called(o, out) => Promise!Called(o, new)
         /\ Promise!SourcesOver(o, out) /\ ~Promise!Fired(o, out) =>
              Promise!SourcesOver(o, new) /\ ~Promise!Fired(o, new)
<1>1. Promise!Sources(o) \subseteq Ops /\ DependsOn[o] \subseteq Ops
  BY GraphAssumption DEF Promise!Sources
<1>2. ASSUME Promise!SourcesOver(o, out)
      PROVE  Promise!SourcesOver(o, new) /\ (Promise!Fired(o, new) <=> Promise!Fired(o, out))
  <2>1. \A p \in Promise!Sources(o) : new[p] = out[p] /\ out[p] # "unknown"
    BY <1>1, <1>2 DEF Promise!SourcesOver
  <2> QED BY <2>1 DEF Promise!SourcesOver, Promise!Fired
<1>3. ASSUME Promise!Called(o, out)
      PROVE  \A d \in DependsOn[o] : Promise!Succeeded(new[d]) \/ (new[d] = "failed" /\ OnFailure[d] = o)
  <2> TAKE d \in DependsOn[o]
  <2>1. Promise!Succeeded(out[d]) \/ (out[d] = "failed" /\ OnFailure[d] = o)
    BY <1>3 DEF Promise!Called
  <2>2. out[d] # "unknown"
    BY <2>1 DEF Promise!Succeeded
  <2> QED BY <1>1, <2>1, <2>2
<1> QED BY <1>2, <1>3 DEF Promise!Called

\* A step that decides open operations, each for a reason, is promised.
LEMMA Decides ==
  ASSUME GInv, Calls, Reads, Reads', driver # "nobody", rows' = rows,
         run = "running", run' \in {"running", "failed"},
         run' = "failed" => \E o \in Ops : status'[o] = "failed" /\ OnFailure[o] = None,
         \A o \in Ops :
           \/ status'[o] = status[o]
           \/ /\ status[o] = "unknown"
              /\ IF status'[o] = "skipped" THEN Promise!LeftOut(o, Outcome') ELSE CalledByDefinition(o)
  PROVE  Promise!Decide
<1>1. Ended = "no" /\ Ended' = IF run' = "failed" THEN "failed" ELSE "no"
  BY DEF Ended
<1>2. \A o \in Ops : Promise!Fatal(o, Outcome) => FALSE
  <2> SUFFICES ASSUME NEW o \in Ops, Outcome[o] = "failed", OnFailure[o] \notin Ops
               PROVE  FALSE
    BY DEF Promise!Fatal
  <2>1. status[o] = "failed"
    BY DEF Reads
  <2>2. OnFailure[o] \in Ops \cup {None}
    BY GraphAssumption
  <2> QED BY <2>1, <2>2 DEF Calls
<1>3. Outcome' \in [Ops -> {"unknown", "success", "then", "else", "failed", "skipped"}]
  <2>1. \A o \in Ops : Outcome'[o] \in {"unknown", "success", "then", "else", "failed", "skipped"}
    BY DEF Reads
  <2>2. Outcome' = [o \in Ops |-> Outcome'[o]]
    BY DEF Outcome
  <2> HIDE DEF Outcome
  <2>3. [o \in Ops |-> Outcome'[o]] \in [Ops -> {"unknown", "success", "then", "else", "failed", "skipped"}]
    BY <2>1
  <2> QED BY <2>2, <2>3
<1>4. ASSUME NEW o \in Ops
      PROVE  \/ Outcome'[o] = Outcome[o]
             \/ /\ Outcome[o] = "unknown"
                /\ IF Outcome'[o] = "skipped" THEN Promise!LeftOut(o, Outcome') ELSE Promise!Called(o, Outcome)
  <2>1. CASE status'[o] = status[o]
    <3>1. Branch(o)' = Branch(o)
      BY BranchSame
    <3> QED BY <2>1, <3>1, OutcomeKept
  <2>2. CASE /\ status[o] = "unknown"
             /\ IF status'[o] = "skipped" THEN Promise!LeftOut(o, Outcome') ELSE CalledByDefinition(o)
    <3>1. Outcome[o] = "unknown" /\ (Outcome'[o] = "skipped" <=> status'[o] = "skipped")
      BY <2>2 DEF Reads
    <3>2. Promise!Called(o, Outcome) <=> CalledByDefinition(o)
      BY PromiseCalls
    <3> QED BY <2>2, <3>1, <3>2
  <2> QED BY <2>1, <2>2
<1>5. Ended' = "failed" => \E o \in Ops : Promise!Fatal(o, Outcome')
  <2> SUFFICES ASSUME Ended' = "failed"
               PROVE  \E o \in Ops : Promise!Fatal(o, Outcome')
    OBVIOUS
  <2>1. PICK o \in Ops : status'[o] = "failed" /\ OnFailure[o] = None
    BY <1>1
  <2>2. Outcome'[o] = "failed"
    BY <2>1 DEF Reads
  <2>3. OnFailure[o] \notin Ops
    BY <2>1, GraphAssumption
  <2> QED BY <2>2, <2>3 DEF Promise!Fatal
<1> QED BY <1>1, <1>2, <1>3, <1>4, <1>5 DEF Promise!Decide

\* A decision leaves what is decided.
LEMMA OutcomeStands ==
  ASSUME Reads, Reads', rows' = rows,
         \A p \in Ops : status[p] # "unknown" => status'[p] = status[p]
  PROVE  \A p \in Ops : Outcome[p] # "unknown" => Outcome'[p] = Outcome[p]
<1> SUFFICES ASSUME NEW p \in Ops, Outcome[p] # "unknown"
             PROVE  Outcome'[p] = Outcome[p]
  OBVIOUS
<1>1. status'[p] = status[p]
  BY DEF Reads
<1>2. Branch(p)' = Branch(p)
  BY BranchSame
<1> QED BY <1>1, <1>2, OutcomeKept

\* What a condition skips may be left out: it is on the branch not selected,
\* or all it depends on is left out, or nobody fired it.
LEMMA SkippedLeftOut ==
  ASSUME NEW B \in SUBSET Ops, OutOfReach(B), AddsNoObstacle(B),
         GInv, Recorded, Reads, Reads', rows' = rows, NEW o \in Conditions, TakeCondition(o),
         \A p \in Ops : status'[p] = IF p \in SkippedWith(o) THEN "skipped"
                                     ELSE IF p = o THEN "success" ELSE status[p],
         SkippedWith(o) \subseteq Ops, o \notin SkippedWith(o),
         NEW p \in SkippedWith(o)
  PROVE  Promise!LeftOut(p, Outcome')
<1> DEFINE S == Unselected(o)
           left == pending \ {o}
<1>0. o \in Ops /\ p \in Ops
  BY DEF Conditions
<1>1. o \in DOMAIN results /\ results[o] \in {"then", "else"}
  BY DEF TakeCondition, Result
<1>2. Outcome'[o] = results[o]
  <2>1. Branch(o)' = {results[o]}
    BY <1>1, BranchSame DEF Recorded
  <2>2. status'[o] = "success"
    BY <1>0
  <2>3. Branch(o)' = {Outcome'[o]}
    BY <1>0, <2>2 DEF Reads, Conditions
  <2> QED BY <2>1, <2>3
<1>3. \A q \in SkippedWith(o) : Outcome'[q] = "skipped"
  BY DEF Reads
<1>4. CASE p \in S
  <2>1. \/ results[o] = "then" /\ p \in Else[o]
        \/ results[o] = "else" /\ p \in Then[o]
    BY <1>1, <1>4 DEF Unselected
  <2> QED BY <1>0, <1>2, <2>1 DEF Promise!LeftOut
<1>5. CASE p \notin S
  <2>1. S \in SUBSET Ops /\ left \in SUBSET Ops
    BY <1>0, GraphAssumption DEF Unselected, GInv, TypeOK
  <2>2. SkippedWith(o) = ToSkip(S, left)
    BY DEF SkippedWith
  <2> HIDE DEF S, left
  <2>3. \A q \in ToSkip(S, left) \ S : deps[q] # {} /\ deps[q] \subseteq ToSkip(S, left)
    BY <2>1, ToSkipLeast
  <2>4. deps[p] # {} /\ deps[p] \subseteq SkippedWith(o)
    BY <1>5, <2>2, <2>3
  <2>5. DependsOn[p] \subseteq deps[p] /\ deps[p] \subseteq DependsOn[p] \cup Sources(p)
    BY <1>0 DEF GInv, Within
  <2>6. CASE DependsOn[p] # {}
    <3>1. \A d \in DependsOn[p] : Outcome'[d] = "skipped"
      BY <1>3, <2>4, <2>5
    <3> QED BY <2>6, <3>1 DEF Promise!LeftOut
  <2>7. CASE DependsOn[p] = {}
    <3>1. PICK d \in deps[p] : d \in Sources(p) \ DependsOn[p] /\ d \in SkippedWith(o)
      BY <2>4, <2>5, <2>7
    <3>2. d \notin B
      BY <1>0, <3>1, OutOfReachStays
    <3>3. Sources(p) = {d}
      BY <1>0, <3>1, <3>2 DEF AddsNoObstacle
    <3>4. Promise!Sources(p) = {d}
      BY <3>3 DEF Promise!Sources, Sources
    <3>5. Outcome'[d] = "skipped"
      BY <1>3, <3>1
    <3>6. Promise!SourcesOver(p, Outcome') /\ ~Promise!Fired(p, Outcome')
      BY <3>4, <3>5 DEF Promise!SourcesOver, Promise!Fired, Promise!Succeeded
    <3> QED BY <3>4, <3>6 DEF Promise!LeftOut
  <2> QED BY <2>6, <2>7
<1> QED BY <1>4, <1>5

\* A result taken up decides its operation, as promised.
LEMMA TakeDecides ==
  ASSUME WaitOps = {}, BranchesAfter, NEW B \in SUBSET Ops, OutOfReach(B), AddsNoObstacle(B),
         GInv, Unpaused, Calls, Recorded, Reads, Reads', Unpaused', NEW o \in Ops, TakeResult(o)
  PROVE  Promise!Decide
<1>1. o \in DOMAIN results
  BY DEF TakeResult, TakeGone, TakeFailure, TakeFatal, TakeSkip, TakePause, TakeSuccess, TakeCondition, Result
<1>2. driver = "worker" /\ run = "running" /\ results[o] \in Outcomes(o)
  BY <1>1 DEF Unpaused
<1>3. /\ o \in pending /\ CalledByDefinition(o) /\ status[o] = "unknown"
      /\ \A p \in Ops : p \in pending <=> status[p] = "unknown"
  BY <1>1, <1>2 DEF Calls
<1>4. results[o] # "waiting" /\ (results[o] = "skipped" => o \in SkipOps)
      /\ (results[o] \in {"then", "else"} => o \in Conditions)
  BY <1>2, OutcomeKinds
<1>5. rows' = rows
  BY DEF TakeResult, TakeGone, TakeFailure, TakeFatal, TakeSkip, TakePause, TakeSuccess,
         TakeCondition, Take, End
<1>6. ~TakeGone(o) /\ ~TakePause(o)
  BY <1>3, <1>4 DEF TakeGone, TakePause, Result
<1>7. CASE TakeFatal(o)
  <2>1. run' = "failed" /\ OnFailure[o] = None
    BY <1>2, <1>7 DEF TakeFatal, End
  <2>2. \A p \in Ops : status'[p] = IF p = o THEN "failed" ELSE status[p]
    BY <1>7 DEF TakeFatal, GInv, TypeOK
  <2>3. \A p \in Ops :
          \/ status'[p] = status[p]
          \/ /\ status[p] = "unknown"
             /\ IF status'[p] = "skipped" THEN Promise!LeftOut(p, Outcome') ELSE CalledByDefinition(p)
    BY <1>3, <2>2
  <2> QED BY <1>2, <1>5, <2>1, <2>2, <2>3, Decides
<1>8. CASE TakeFailure(o) \/ TakeSuccess(o)
  <2>1. run' = "running"
    BY <1>2, <1>8, TakenUp
  <2>2. \A p \in Ops : status'[p] = status[p] \/ (p = o /\ status'[p] # "skipped")
    BY <1>8 DEF TakeFailure, TakeSuccess, Take, GInv, TypeOK
  <2>3. \A p \in Ops :
          \/ status'[p] = status[p]
          \/ /\ status[p] = "unknown"
             /\ IF status'[p] = "skipped" THEN Promise!LeftOut(p, Outcome') ELSE CalledByDefinition(p)
    BY <1>3, <2>2
  <2> QED BY <1>2, <1>5, <2>1, <2>3, Decides
<1>9. CASE TakeSkip(o)
  <2>1. run' = "running"
    BY <1>2, <1>9, TakenUp
  <2>2. \A p \in Ops : status'[p] = IF p = o THEN "skipped" ELSE status[p]
    BY <1>9 DEF TakeSkip, Take, GInv, TypeOK
  <2>3. o \in SkipOps
    BY <1>4, <1>9 DEF TakeSkip, Result
  <2>4. \A p \in Ops : Outcome[p] # "unknown" => Outcome'[p] = Outcome[p]
    BY <1>3, <1>5, <2>2, OutcomeStands
  <2>5. Promise!Called(o, Outcome)
    BY <1>3, PromiseCalls
  <2>6. Promise!Called(o, Outcome')
    BY <2>4, <2>5, PromiseStands
  <2>7. Promise!LeftOut(o, Outcome')
    BY <2>3, <2>6 DEF Promise!LeftOut
  <2>8. \A p \in Ops :
          \/ status'[p] = status[p]
          \/ /\ status[p] = "unknown"
             /\ IF status'[p] = "skipped" THEN Promise!LeftOut(p, Outcome') ELSE CalledByDefinition(p)
    BY <1>3, <2>2, <2>7
  <2> QED BY <1>2, <1>5, <2>1, <2>8, Decides
<1>10. CASE TakeCondition(o)
  <2>1. run' = "running"
    BY <1>2, <1>10, TakenUp
  <2>2. /\ status' = [p \in Ops |-> IF p \in SkippedWith(o) THEN "skipped"
                                    ELSE IF p = o THEN "success" ELSE status[p]]
        /\ SkippedWith(o) \subseteq Ops /\ o \notin SkippedWith(o)
        /\ \A p \in SkippedWith(o) : status[p] \in {"unknown", "skipped"}
    BY <1>2, <1>10, ConditionSkips
  <2>3. \A p \in Ops : status'[p] = IF p \in SkippedWith(o) THEN "skipped"
                                    ELSE IF p = o THEN "success" ELSE status[p]
    BY <2>2
  <2>4. o \in Conditions
    BY <1>4, <1>10 DEF TakeCondition, Result
  <2>5. \A p \in SkippedWith(o) : Promise!LeftOut(p, Outcome')
    BY <1>5, <1>10, <2>2, <2>3, <2>4, SkippedLeftOut
  <2> HIDE DEF SkippedWith
  <2>6. \A p \in Ops :
          \/ status'[p] = status[p]
          \/ /\ status[p] = "unknown"
             /\ IF status'[p] = "skipped" THEN Promise!LeftOut(p, Outcome') ELSE CalledByDefinition(p)
    BY <1>3, <2>2, <2>3, <2>5
  <2> QED BY <1>2, <1>5, <2>1, <2>6, Decides
<1> QED BY <1>6, <1>7, <1>8, <1>9, <1>10 DEF TakeResult

\* Every step of the graph is one of the promise, or changes nothing it sees.
LEMMA PromiseStep ==
  ASSUME WaitOps = {}, BranchesAfter, NEW B \in SUBSET Ops, OutOfReach(B), AddsNoObstacle(B),
         GInv, Unpaused, Permits(B), Calls, Recorded, Reads, Reads', Unpaused', [Next]_vars
  PROVE  [Promise!Decide \/ Promise!Succeed \/ Promise!GiveUp \/ Promise!Again]_<<Outcome, Ended>>
<1>1. CASE Start
  <2>1. status' = Unknown /\ run' = "running" /\ driver = "nobody"
    BY <1>1 DEF Start, Begin
  <2>2. \A o \in Ops : Outcome'[o] = "unknown"
    BY <2>1 DEF Reads, Unknown
  <2>3. Outcome' = [o \in Ops |-> "unknown"]
    <3>1. Outcome' = [o \in Ops |-> Outcome'[o]]
      BY DEF Outcome
    <3> HIDE DEF Outcome
    <3> QED BY <2>2, <3>1
  <2>4. CASE run = "absent"
    <3>1. \A o \in Ops : Outcome[o] = "unknown"
      BY <2>4 DEF Unpaused, Reads, Unknown
    <3>2. Outcome' = Outcome
      BY <2>2, <3>1, OutcomeEqual
    <3>3. Ended' = Ended
      BY <2>1, <2>4 DEF Ended
    <3> QED BY <3>2, <3>3
  <2>5. CASE run \in {"success", "failed"}
    <3>1. Ended # "no" /\ Ended' = "no"
      BY <2>1, <2>5 DEF Ended
    <3> QED BY <2>3, <3>1 DEF Promise!Again
  <2> QED BY <2>1, <2>4, <2>5 DEF Unpaused
<1>2. CASE Gather
  <2>1. status' = status /\ driver' = driver /\ driver # "nobody"
    BY <1>2 DEF Gather, Looping
  <2>2. run = "running" /\ run' = "running"
    BY <2>1 DEF Unpaused
  <2>3. \A i \in DOMAIN rows : i \in DOMAIN rows' /\ rows'[i] = rows[i]
    BY <1>2, RoundRows
  <2>4. \A o \in Ops : Branch(o) \subseteq Branch(o)'
    BY <2>3 DEF Branch
  <2>5. Outcome' = Outcome
    BY <2>1, <2>4, OutcomeKept, OutcomeEqual
  <2> QED BY <2>2, <2>5 DEF Ended
<1>3. CASE DropDead
  <2>1. rows' = rows /\ driver = "worker" /\ run = "running" /\ run' = run
    BY <1>3 DEF DropDead, Looping, Unpaused
  <2>2. \A p \in Ops : status'[p] = IF p \in Dead THEN "skipped" ELSE status[p]
    BY <1>3 DEF DropDead
  <2>3. \A p \in Dead : p \in Ops /\ status[p] = "unknown" /\ Sources(p) # {} /\ SourcesOver(p) /\ ~Fired(p)
    BY <2>1 DEF Dead, FollowupBranchDead, Calls, GInv, TypeOK
  <2>4. \A p \in Ops : Outcome[p] # "unknown" => Outcome'[p] = Outcome[p]
    BY <2>1, <2>2, <2>3, OutcomeStands
  <2>5. \A p \in Dead : Promise!LeftOut(p, Outcome')
    <3> TAKE p \in Dead
    <3>1. Promise!SourcesOver(p, Outcome) /\ ~Promise!Fired(p, Outcome)
      BY <2>3, PromiseCalls
    <3>2. Promise!SourcesOver(p, Outcome') /\ ~Promise!Fired(p, Outcome')
      BY <2>3, <2>4, <3>1, PromiseStands
    <3>3. Promise!Sources(p) # {}
      BY <2>3 DEF Promise!Sources, Sources
    <3> QED BY <3>2, <3>3 DEF Promise!LeftOut
  <2>6. \A p \in Ops :
          \/ status'[p] = status[p]
          \/ /\ status[p] = "unknown"
             /\ IF status'[p] = "skipped" THEN Promise!LeftOut(p, Outcome') ELSE CalledByDefinition(p)
    BY <2>2, <2>3, <2>5
  <2>7. Promise!Decide
    BY <2>1, <2>6, Decides
  <2> QED BY <2>7
<1>4. CASE Complete \/ Stuck
  <2>1. driver = "worker" /\ run = "running" /\ status' = status /\ rows' = rows
    BY <1>4 DEF Complete, Stuck, End, Looping, Unpaused
  <2>2. \A o \in Ops : Branch(o) \subseteq Branch(o)'
    BY <2>1, BranchSame
  <2>3. Outcome' = Outcome /\ Ended = "no"
    BY <2>1, <2>2, OutcomeKept, OutcomeEqual DEF Ended
  <2>4. CASE Complete
    <3>1. Ended' = "success" /\ pending = {}
      BY <2>4 DEF Complete, End, Ended
    <3>2. ASSUME NEW o \in Ops
          PROVE  Outcome[o] # "unknown" /\ ~Promise!Fatal(o, Outcome)
      <4>1. status[o] # "unknown" /\ (status[o] = "failed" => OnFailure[o] # None)
        BY <2>1, <3>1 DEF Calls
      <4>2. OnFailure[o] \in Ops \cup {None}
        BY GraphAssumption
      <4> QED BY <4>1, <4>2 DEF Promise!Fatal, Reads
    <3>3. Promise!Succeed
      BY <2>3, <3>1, <3>2 DEF Promise!Succeed
    <3> QED BY <3>3
  <2>5. CASE Stuck
    <3>1. Ended' = "failed" /\ pending # {} /\ Ready = {}
      BY <2>1, <2>5 DEF Stuck, End, Ended
    <3>2. \E o \in Ops : Outcome[o] = "unknown"
      BY <2>1, <3>1 DEF Calls, Reads, GInv, TypeOK
    <3>3. ASSUME NEW o \in Ops, Outcome[o] = "unknown"
          PROVE  ~Promise!Called(o, Outcome)
      <4>1. o \in pending
        BY <2>1, <3>3 DEF Calls, Reads
      <4>2. ~CalledByDefinition(o)
        BY <2>1, <3>1, <4>1, CalledIsReady
      <4> QED BY <4>2, PromiseCalls
    <3>4. Promise!GiveUp
      BY <2>3, <3>1, <3>2, <3>3 DEF Promise!GiveUp
    <3> QED BY <3>4
  <2> QED BY <1>4, <2>4, <2>5
<1>5. CASE \E o \in Ops : TakeResult(o)
  BY <1>5, TakeDecides
<1>6. ~ \E o \in Ops : Resume(o) \/ ResumeFails(o)
  BY DEF Resume, ResumeFails, IsPause, Unpaused, Unsettled
<1>7. CASE UNCHANGED vars
  <2>1. \A o \in Ops : Branch(o) \subseteq Branch(o)'
    BY <1>7, BranchSame DEF vars
  <2>2. Outcome' = Outcome
    BY <1>7, <2>1, OutcomeKept, OutcomeEqual DEF vars
  <2> QED BY <1>7, <2>2 DEF vars, Ended
<1> QED BY <1>1, <1>2, <1>3, <1>4, <1>5, <1>6, <1>7 DEF Next, Walk

\* In a workflow without pauses, in which every branch depends on its condition
\* and no follow-up is kept back by what earlier executions have added to the
\* graph, every run executes, leaves out and ends with what the definition of
\* the workflow promises.
THEOREM PromiseIsKept ==
  WaitOps = {} /\ BranchesAfter /\ Rerunnable => (Spec => KeepsPromise)
<1> SUFFICES ASSUME WaitOps = {}, BranchesAfter, Rerunnable PROVE Spec => KeepsPromise
  OBVIOUS
<1>0. PICK B \in SUBSET Ops : OutOfReach(B) /\ AddsNoObstacle(B)
  BY DEF Rerunnable
<1> DEFINE Inv == GInv /\ Once /\ Unpaused /\ Permits(B) /\ Calls /\ Recorded
<1>1. Init => Inv
  <2> SUFFICES ASSUME Init PROVE Inv
    OBVIOUS
  <2>1. DOMAIN results = {} /\ driver = "nobody" /\ status = Unknown /\ rows = <<>> /\ run = "absent"
    BY DEF Init, NoResults
  <2>2. Once /\ Unpaused
    BY <2>1 DEF Once, NothingTwice, Unsettled, Unpaused
  <2>3. Permits(B) /\ Calls
    BY <2>1 DEF Permits, Calls
  <2>4. Recorded
    BY <2>1 DEF Recorded, Conditions, Unknown
  <2> QED BY <2>2, <2>3, <2>4, InitStep
<1>2. Inv /\ [Next]_vars => Inv'
  <2>1. PausesOrdered
    BY DEF PausesOrdered
  <2> QED BY <1>0, <2>1, GraphStep, OnceStep, UnpausedStep, PermitsStep, CallsStep, RecordedStep
<1>3. Inv => Reads
  BY OutcomeReads
<1>4. Init => Promise!Init
  <2> SUFFICES ASSUME Init PROVE Promise!Init
    OBVIOUS
  <2>1. Outcome = [o \in Ops |-> "unknown"]
    BY DEF Init, Outcome, Unknown
  <2> QED BY <2>1 DEF Init, Ended, Promise!Init
<1>5. Inv /\ Inv' /\ Reads /\ Reads' /\ [Next]_vars =>
        [Promise!Decide \/ Promise!Succeed \/ Promise!GiveUp \/ Promise!Again]_<<Outcome, Ended>>
  BY <1>0, PromiseStep
<1> QED BY <1>1, <1>2, <1>3, <1>4, <1>5, PTL DEF Spec, KeepsPromise, Promise!Spec
=============================================================================
