---------------------------- MODULE Schedules_proofs ----------------------------
(***************************************************************************)
(* Proofs about Schedules, for any processes, workflows, schedules and     *)
(* bounds.  The invariant is inductive with TypeOK: a due time is found    *)
(* only while it has no run, by processes that are at most all of them;    *)
(* an insert then turns a process that has found it into a run.            *)
(*                                                                         *)
(* That no due time is missed is a matter of time.  Whatever process p is  *)
(* in the middle of, NextLook(p, w) bounds when it will next have looked   *)
(* at w: it never moves into the future while w is open, and the clock     *)
(* never passes it.                                                        *)
(***************************************************************************)
EXTENDS Schedules, FiniteSetTheorems, TLAPS

USE SchedulesAssumption

LEMMA Remainder ==
  ASSUME NEW c \in Nat, NEW e \in Nat \ {0}
  PROVE  c - (c % e) \in 0..c
OBVIOUS

LEMMA PreviousDueType ==
  ASSUME TypeOK, NEW w \in Workflows
  PROVE  PreviousDue(w) \in Times
<1>1. clock \in Nat /\ Every[w] \in Nat \ {0} /\ clock <= Horizon
  BY DEF TypeOK, WorldOK, Times
<1>2. clock - (clock % Every[w]) \in 0..clock
  BY <1>1, Remainder
<1> QED BY <1>1, <1>2 DEF PreviousDue, Times

LEMMA NextTaskType ==
  ASSUME TypeOK, NEW p \in Processes, task[p] \in Tasks, NextTask(p)
  PROVE  /\ task' \in [Processes -> 1..(LastTask + 1)]
         /\ \A q \in Processes \ {p} : task'[q] = task[q]
BY DEF TypeOK, SchedulerOK, NextTask, Tasks

LEMMA AbortType ==
  ASSUME TypeOK, NEW p \in Processes, pc[p] = "listing", Abort(p),
         UNCHANGED <<clock, flow, mark, tickAt, last, crashes>>
  PROVE  TypeOK'
<1> USE DEF Drops, Goes, flow
<1>1. WorldOK'
  <2>1. \A w \in Workflows : PreviousDue(w) \in Times
    BY PreviousDueType
  <2> QED BY <2>1 DEF TypeOK, WorldOK, Abort
<1>2. SchedulerOK'
  <2>1. task[p] \in Tasks /\ NextTask(p)
    BY DEF TypeOK, SchedulerOK, Abort
  <2> QED BY <2>1, NextTaskType DEF TypeOK, SchedulerOK, Abort
<1>3. ListOK'
  BY DEF TypeOK, SchedulerOK, ListOK, Abort
<1> QED BY <1>1, <1>2, <1>3 DEF TypeOK

LEMMA StepType == TypeOK /\ [Next]_vars => TypeOK'
<1> SUFFICES ASSUME TypeOK, [Next]_vars PROVE TypeOK'
  OBVIOUS
<1> USE DEF Goes, Marks, flow, sched, tick
<1>1. ASSUME NEW p \in Processes, Wake(p) PROVE TypeOK'
  <2>1. WorldOK'
    BY <1>1 DEF TypeOK, WorldOK, Wake, Times, Tasks
  <2>2. SchedulerOK'
    BY <1>1 DEF TypeOK, WorldOK, SchedulerOK, Wake, Times, Tasks
  <2>3. ListOK'
    BY <1>1 DEF TypeOK, SchedulerOK, ListOK, Wake, Times, Tasks
  <2> QED BY <2>1, <2>2, <2>3 DEF TypeOK
<1>2. ASSUME NEW p \in Processes, SkipTask(p) PROVE TypeOK'
  <2>1. WorldOK'
    BY <1>2 DEF TypeOK, WorldOK, SkipTask
  <2>4. task[p] \in Tasks /\ NextTask(p)
    BY <1>2 DEF TypeOK, SchedulerOK, SkipTask
  <2>2. SchedulerOK'
    <3>1. /\ task' \in [Processes -> 1..(LastTask + 1)]
          /\ \A q \in Processes \ {p} : task'[q] = task[q]
      BY <2>4, NextTaskType
    <3>2. last' \in [Processes -> [Tasks -> {None} \cup Times]]
      BY <1>2, <2>4 DEF TypeOK, SchedulerOK, SkipTask
    <3> QED BY <1>2, <3>1, <3>2 DEF TypeOK, SchedulerOK, SkipTask
  <2>3. ListOK'
    BY <1>2 DEF TypeOK, SchedulerOK, ListOK, SkipTask
  <2> QED BY <2>1, <2>2, <2>3 DEF TypeOK
<1>3. ASSUME NEW p \in Processes, RunTask(p) PROVE TypeOK'
  <2>1. WorldOK'
    BY <1>3 DEF TypeOK, WorldOK, RunTask
  <2>2. SchedulerOK'
    <3>1. last' \in [Processes -> [Tasks -> {None} \cup Times]]
      BY <1>3 DEF TypeOK, WorldOK, SchedulerOK, RunTask
    <3>5. clock \in Nat /\ mark \in [Processes -> Nat]
      BY DEF TypeOK, WorldOK, SchedulerOK, Times
    <3>2. mark' \in [Processes -> Nat]
      BY <1>3, <3>5 DEF RunTask
    <3>4. pc' \in [Processes -> {"asleep", "walking", "listing", "busy", "down"}]
      BY <1>3 DEF TypeOK, SchedulerOK, RunTask
    <3>3. \A q \in Processes : pc'[q] \in {"listing", "busy"} => task'[q] \in Tasks
      BY <1>3 DEF TypeOK, SchedulerOK, RunTask
    <3> QED BY <1>3, <3>1, <3>2, <3>3, <3>4 DEF TypeOK, SchedulerOK, RunTask
  <2>3. ListOK'
    <3>1. todo' \in [Processes -> SUBSET Workflows] /\ refreshed' \in [Processes -> BOOLEAN]
      BY <1>3 DEF TypeOK, ListOK, RunTask
    <3>2. \A q \in Processes : todo'[q] # {} \/ found'[q] # None => pc'[q] = "listing"
      BY <1>3 DEF TypeOK, SchedulerOK, ListOK, RunTask
    <3> QED BY <1>3, <3>1, <3>2 DEF TypeOK, ListOK, RunTask
  <2> QED BY <2>1, <2>2, <2>3 DEF TypeOK
<1>4. ASSUME NEW p \in Processes, TaskEnds(p) PROVE TypeOK'
  <2>1. WorldOK'
    BY <1>4 DEF TypeOK, WorldOK, TaskEnds
  <2>4. task[p] \in Tasks /\ NextTask(p)
    BY <1>4 DEF TypeOK, SchedulerOK, TaskEnds
  <2>2. SchedulerOK'
    BY <1>4, <2>4, NextTaskType DEF TypeOK, SchedulerOK, TaskEnds
  <2>3. ListOK'
    BY <1>4 DEF TypeOK, SchedulerOK, ListOK, TaskEnds
  <2> QED BY <2>1, <2>2, <2>3 DEF TypeOK
<1>5. ASSUME NEW p \in Processes, Sleep(p) PROVE TypeOK'
  <2>1. WorldOK'
    BY <1>5 DEF TypeOK, WorldOK, Sleep, Times
  <2>2. SchedulerOK'
    BY <1>5 DEF TypeOK, WorldOK, SchedulerOK, Sleep, Times
  <2>3. ListOK'
    BY <1>5 DEF TypeOK, SchedulerOK, ListOK, Sleep, Times
  <2> QED BY <2>1, <2>2, <2>3 DEF TypeOK
<1>6. ASSUME NEW p \in Processes, Examine(p) PROVE TypeOK'
  <2> DEFINE find(w) == [workflow |-> w, due |-> PreviousDue(w),
                         seen |-> IF refreshed[p] THEN state[w] ELSE "enabled"]
  <2>1. PICK w \in todo[p] :
          \/ Abort(p)
          \/ found' = [found EXCEPT ![p] = find(w)]
             /\ UNCHANGED <<runs, cut, todo, refreshed, pc, task>>
          \/ todo' = [todo EXCEPT ![p] = @ \ {w}]
             /\ UNCHANGED <<runs, cut, found, refreshed, pc, task>>
    BY <1>6 DEF Examine
  <2>2. CASE Abort(p)
    BY <1>6, <2>2, AbortType DEF Examine
  <2>3. CASE ~Abort(p)
    <3>1. WorldOK'
      BY <1>6, <2>1, <2>3 DEF TypeOK, WorldOK, Examine
    <3>2. SchedulerOK'
      BY <1>6, <2>1, <2>3 DEF TypeOK, SchedulerOK, Examine
    <3>3. find(w) \in Finds
      <4>1. w \in Workflows /\ state[w] \in States
        BY DEF TypeOK, WorldOK, ListOK
      <4>2. PreviousDue(w) \in Times
        BY <4>1, PreviousDueType
      <4> QED BY <4>1, <4>2 DEF Finds, States
    <3> HIDE DEF find
    <3>4. ListOK'
      <4>1. todo' \in [Processes -> SUBSET Workflows] /\ refreshed' \in [Processes -> BOOLEAN]
        BY <1>6, <2>1, <2>3 DEF TypeOK, ListOK, Examine
      <4>2. found' \in [Processes -> {None} \cup Finds]
        BY <1>6, <2>1, <2>3, <3>3 DEF TypeOK, ListOK, Examine
      <4>3. \A q \in Processes : todo'[q] # {} \/ found'[q] # None => pc'[q] = "listing"
        BY <1>6, <2>1, <2>3 DEF TypeOK, ListOK, Examine
      <4> QED BY <4>1, <4>2, <4>3 DEF ListOK
    <3> QED BY <3>1, <3>2, <3>4 DEF TypeOK
  <2> QED BY <2>2, <2>3
<1>7. ASSUME NEW p \in Processes, Enqueue(p) PROVE TypeOK'
  <2> DEFINE w == found[p].workflow
             o == found[p].due
  <2>1. CASE Abort(p)
    BY <1>7, <2>1, AbortType DEF Enqueue
  <2>2. CASE ~Abort(p)
    <3>1. found[p] \in Finds
      BY <1>7 DEF TypeOK, ListOK, Enqueue
    <3>2. w \in Workflows /\ o \in Times
      BY <3>1 DEF Finds
    <3>3. runs' = [runs EXCEPT ![w][o] = @ + 1]
      BY <1>7, <2>2 DEF Enqueue
    <3> HIDE DEF w, o
    <3>4. WorldOK'
      <4>1. runs' \in [Workflows -> [Times -> Nat]]
        <5>1. runs \in [Workflows -> [Times -> Nat]]
          BY DEF TypeOK, WorldOK
        <5>2. [runs[w] EXCEPT ![o] = @ + 1] \in [Times -> Nat]
          BY <3>2, <5>1
        <5> QED BY <3>2, <3>3, <5>1, <5>2
      <4>2. UNCHANGED <<clock, flow, crashes, cut>>
        BY <1>7, <2>2 DEF Enqueue
      <4> QED BY <4>1, <4>2 DEF TypeOK, WorldOK
    <3>5. SchedulerOK'
      BY <1>7, <2>2 DEF TypeOK, SchedulerOK, Enqueue
    <3>6. ListOK'
      <4>1. todo' \in [Processes -> SUBSET Workflows]
        BY <1>7, <2>2 DEF TypeOK, ListOK, Enqueue
      <4>4. refreshed' \in [Processes -> BOOLEAN]
        BY <1>7, <2>2 DEF TypeOK, ListOK, Enqueue
      <4>2. found' \in [Processes -> {None} \cup Finds]
        BY <1>7, <2>2 DEF TypeOK, ListOK, Enqueue
      <4>3. \A q \in Processes : todo'[q] # {} \/ found'[q] # None => pc'[q] = "listing"
        BY <1>7, <2>2 DEF TypeOK, ListOK, Enqueue
      <4> QED BY <4>1, <4>2, <4>3, <4>4 DEF ListOK
    <3> QED BY <3>4, <3>5, <3>6 DEF TypeOK
  <2> QED BY <2>1, <2>2
<1>8. ASSUME NEW p \in Processes, Listed(p) PROVE TypeOK'
  <2>1. WorldOK'
    BY <1>8 DEF TypeOK, WorldOK, Listed
  <2>4. task[p] \in Tasks /\ NextTask(p)
    BY <1>8 DEF TypeOK, SchedulerOK, Listed
  <2>2. SchedulerOK'
    BY <1>8, <2>4, NextTaskType DEF TypeOK, SchedulerOK, Listed
  <2>3. ListOK'
    BY <1>8 DEF TypeOK, SchedulerOK, ListOK, Listed
  <2> QED BY <2>1, <2>2, <2>3 DEF TypeOK
<1>9. ASSUME NEW p \in Processes, Start(p) PROVE TypeOK'
  <2>1. WorldOK'
    BY <1>9 DEF TypeOK, WorldOK, Start, Times
  <2>2. SchedulerOK'
    BY <1>9 DEF TypeOK, WorldOK, SchedulerOK, Start, Times
  <2>3. ListOK'
    BY <1>9 DEF TypeOK, SchedulerOK, ListOK, Start, Times
  <2> QED BY <2>1, <2>2, <2>3 DEF TypeOK
<1>10. ASSUME NEW p \in Processes, Crash(p) PROVE TypeOK'
  <2>1. WorldOK'
    BY <1>10 DEF TypeOK, WorldOK, Crash, Drops
  <2>2. SchedulerOK'
    <3>1. last' \in [Processes -> [Tasks -> {None} \cup Times]]
      BY <1>10 DEF TypeOK, SchedulerOK, Crash
    <3>2. mark' \in [Processes -> Nat]
      BY <1>10 DEF TypeOK, WorldOK, SchedulerOK, Crash, Times
    <3> QED BY <1>10, <3>1, <3>2 DEF TypeOK, SchedulerOK, Crash
  <2>3. ListOK'
    BY <1>10 DEF TypeOK, SchedulerOK, ListOK, Crash, Drops
  <2> QED BY <2>1, <2>2, <2>3 DEF TypeOK
<1>11. ASSUME NEW w \in Workflows, Edit(w) PROVE TypeOK'
  <2>1. WorldOK'
    BY <1>11 DEF TypeOK, WorldOK, Edit, States
  <2>2. SchedulerOK'
    BY <1>11 DEF TypeOK, WorldOK, SchedulerOK, Edit, States
  <2>3. ListOK'
    BY <1>11 DEF TypeOK, SchedulerOK, ListOK, Edit, States
  <2> QED BY <2>1, <2>2, <2>3 DEF TypeOK
<1>12. ASSUME Advance PROVE TypeOK'
  <2>1. WorldOK'
    BY <1>12 DEF TypeOK, WorldOK, Advance, Times
  <2>2. SchedulerOK'
    BY <1>12 DEF TypeOK, WorldOK, SchedulerOK, Advance, Times
  <2>3. ListOK'
    BY <1>12 DEF TypeOK, SchedulerOK, ListOK, Advance, Times
  <2> QED BY <2>1, <2>2, <2>3 DEF TypeOK
<1>13. ASSUME UNCHANGED vars PROVE TypeOK'
  <2>1. WorldOK'
    BY <1>13 DEF TypeOK, WorldOK, vars
  <2>2. SchedulerOK'
    BY <1>13 DEF TypeOK, WorldOK, SchedulerOK, vars
  <2>3. ListOK'
    BY <1>13 DEF TypeOK, SchedulerOK, ListOK, vars
  <2> QED BY <2>1, <2>2, <2>3 DEF TypeOK
<1> QED
  BY <1>1, <1>2, <1>3, <1>4, <1>5, <1>6, <1>7, <1>8, <1>9, <1>10, <1>11, <1>12, <1>13
  DEF Next, Step, Over

LEMMA InitType == Init => TypeOK
BY DEF Init, TypeOK, WorldOK, SchedulerOK, ListOK, Times, Tasks, States

\* Every reachable state has its type: a process examines workflows or has a due
\* time in hand only inside its tick, and its tick never passes the last task.
THEOREM TypeCorrect == Spec => []TypeOK
BY InitType, StepType, PTL DEF Spec

--------------------------------------------------------------------------------
LEMMA FiringFinite ==
  ASSUME NEW w, NEW o
  PROVE  /\ IsFiniteSet(Firing(w, o)) /\ Cardinality(Firing(w, o)) \in Nat
         /\ Cardinality(Firing(w, o)) <= Cardinality(Processes)
         /\ Cardinality(Processes) \in Nat
<1>1. Firing(w, o) \in SUBSET Processes
  BY DEF Firing
<1> QED BY <1>1, FS_Subset, FS_CardinalityType

\* A step that adds no run and finds nothing new keeps the bound.
LEMMA FiringShrinks ==
  ASSUME TypeOK, OncePerProcess, UNCHANGED runs,
         \A p \in Processes : found'[p] \in {None, found[p]}
  PROVE  OncePerProcess'
<1> SUFFICES ASSUME NEW w \in Workflows, NEW o \in Times
             PROVE  runs[w][o] + Cardinality(Firing(w, o)') <= Cardinality(Processes)
  BY DEF OncePerProcess
<1>1. Firing(w, o)' \in SUBSET Firing(w, o)
  BY DEF Firing
<1>2. Cardinality(Firing(w, o)') <= Cardinality(Firing(w, o)) /\ Cardinality(Firing(w, o)') \in Nat
  BY <1>1, FiringFinite, FS_Subset, FS_CardinalityType
<1>3. runs[w][o] \in Nat /\ runs[w][o] + Cardinality(Firing(w, o)) <= Cardinality(Processes)
  BY DEF OncePerProcess, TypeOK, WorldOK
<1> QED BY <1>2, <1>3, FiringFinite

LEMMA ExamineOnce ==
  ASSUME TypeOK, OncePerProcess, NEW p \in Processes, Examine(p)
  PROVE  OncePerProcess'
<1>1. CASE found'[p] = None \/ UNCHANGED found
  <2>1. UNCHANGED runs /\ \A q \in Processes : found'[q] \in {None, found[q]}
    BY <1>1 DEF Examine, Abort, Drops, TypeOK, ListOK
  <2> QED BY <2>1, FiringShrinks
<1>2. CASE ~(found'[p] = None \/ UNCHANGED found)
  <2>1. PICK v \in todo[p] :
          /\ ~Fired(v) /\ UNCHANGED runs
          /\ found' = [found EXCEPT ![p] =
               [workflow |-> v, due |-> PreviousDue(v),
                seen |-> IF refreshed[p] THEN state[v] ELSE "enabled"]]
    BY <1>2 DEF Examine, Abort, Drops, TypeOK, ListOK
  <2>2. v \in Workflows
    BY <2>1 DEF TypeOK, ListOK
  <2>3. runs[v][PreviousDue(v)] = 0
    BY <2>1, <2>2, PreviousDueType DEF Fired, TypeOK, WorldOK
  <2> SUFFICES ASSUME NEW w \in Workflows, NEW o \in Times
               PROVE  runs'[w][o] + Cardinality(Firing(w, o)') <= Cardinality(Processes)
    BY DEF OncePerProcess
  <2>4. Firing(w, o)' \in SUBSET Processes
    BY DEF Firing
  <2>5. Cardinality(Firing(w, o)') \in Nat /\ Cardinality(Firing(w, o)') <= Cardinality(Processes)
    BY <2>4, FS_Subset, FS_CardinalityType
  <2>6. CASE w = v /\ o = PreviousDue(v)
    BY <2>1, <2>3, <2>5, <2>6, FiringFinite
  <2>7. CASE ~(w = v /\ o = PreviousDue(v))
    <3>1. Firing(w, o)' \in SUBSET Firing(w, o)
      BY <2>1, <2>7 DEF Firing, TypeOK, ListOK
    <3>2. Cardinality(Firing(w, o)') <= Cardinality(Firing(w, o))
      BY <3>1, FiringFinite, FS_Subset
    <3>3. runs[w][o] \in Nat
      BY DEF TypeOK, WorldOK
    <3>4. runs[w][o] + Cardinality(Firing(w, o)) <= Cardinality(Processes)
      BY DEF OncePerProcess
    <3> QED BY <2>1, <2>5, <3>2, <3>3, <3>4, FiringFinite
  <2> QED BY <2>6, <2>7
<1> QED BY <1>1, <1>2

LEMMA EnqueueOnce ==
  ASSUME TypeOK, OncePerProcess, NEW p \in Processes, Enqueue(p)
  PROVE  OncePerProcess'
<1> DEFINE v == found[p].workflow
           d == found[p].due
<1>1. found' = [found EXCEPT ![p] = None]
  BY DEF Enqueue, Abort, Drops
<1>2. CASE UNCHANGED runs
  <2>1. \A q \in Processes : found'[q] \in {None, found[q]}
    BY <1>1 DEF TypeOK, ListOK
  <2> QED BY <1>2, <2>1, FiringShrinks
<1>3. CASE runs' = [runs EXCEPT ![v][d] = @ + 1]
  <2>1. found[p] \in Finds /\ found[p] # None
    BY DEF Enqueue, TypeOK, ListOK
  <2>2. v \in Workflows /\ d \in Times
    BY <2>1 DEF Finds
  <2> SUFFICES ASSUME NEW w \in Workflows, NEW o \in Times
               PROVE  runs'[w][o] + Cardinality(Firing(w, o)') <= Cardinality(Processes)
    BY DEF OncePerProcess
  <2>3. runs[w][o] \in Nat /\ runs[w][o] + Cardinality(Firing(w, o)) <= Cardinality(Processes)
    BY DEF OncePerProcess, TypeOK, WorldOK
  <2>4. Firing(w, o)' = Firing(w, o) \ {p}
    BY <1>1 DEF Firing, TypeOK, ListOK
  <2>5. CASE w = v /\ o = d
    <3>1. p \in Firing(w, o)
      BY <2>1, <2>5 DEF Firing
    <3>2. Cardinality(Firing(w, o)') = Cardinality(Firing(w, o)) - 1
      BY <2>4, <3>1, FiringFinite, FS_RemoveElement
    <3>3. runs'[w][o] = runs[w][o] + 1
      BY <1>3, <2>2, <2>5 DEF TypeOK, WorldOK
    <3> QED BY <2>3, <3>2, <3>3, FiringFinite
  <2>6. CASE ~(w = v /\ o = d)
    <3>1. runs'[w][o] = runs[w][o]
      BY <1>3, <2>2, <2>6 DEF TypeOK, WorldOK
    <3>2. Firing(w, o)' \in SUBSET Firing(w, o)
      BY <2>4
    <3>3. Cardinality(Firing(w, o)') <= Cardinality(Firing(w, o)) /\ Cardinality(Firing(w, o)') \in Nat
      BY <3>2, FiringFinite, FS_Subset, FS_CardinalityType
    <3> QED BY <2>3, <3>1, <3>3, FiringFinite
  <2> QED BY <2>5, <2>6
<1> QED BY <1>2, <1>3 DEF Enqueue, Abort

\* exists_scheduled_run and the insert are not atomic: a due time has at most
\* as many runs as processes look for it, whatever their number.
THEOREM BoundedRuns == Spec => []OncePerProcess
<1>1. Init => OncePerProcess
  <2> SUFFICES ASSUME Init, NEW w \in Workflows, NEW o \in Times
               PROVE  runs[w][o] + Cardinality(Firing(w, o)) <= Cardinality(Processes)
    BY DEF OncePerProcess
  <2> QED BY FiringFinite DEF Init
<1>2. TypeOK /\ OncePerProcess /\ [Next]_vars => OncePerProcess'
  <2> SUFFICES ASSUME TypeOK, OncePerProcess, [Next]_vars PROVE OncePerProcess'
    OBVIOUS
  <2>1. CASE UNCHANGED runs /\ \A p \in Processes : found'[p] \in {None, found[p]}
    BY <2>1, FiringShrinks
  <2>2. ASSUME NEW p \in Processes, Crash(p) PROVE OncePerProcess'
    <3>1. UNCHANGED runs /\ \A q \in Processes : found'[q] \in {None, found[q]}
      BY <2>2 DEF Crash, Drops, TypeOK, ListOK
    <3> QED BY <3>1, FiringShrinks
  <2>3. ASSUME NEW p \in Processes, Step(p) PROVE OncePerProcess'
    <3>1. Examine(p) \/ Enqueue(p) \/ UNCHANGED <<runs, found>>
      BY <2>3 DEF Step, Wake, SkipTask, RunTask, TaskEnds, Sleep, Listed, Start, tick
    <3> QED BY <2>1, <3>1, ExamineOnce, EnqueueOnce
  <2>4. (\E w \in Workflows : Edit(w)) \/ Advance \/ Over \/ UNCHANGED vars => UNCHANGED <<runs, found>>
    BY DEF Edit, Advance, Over, vars, tick
  <2> QED BY <2>1, <2>2, <2>3, <2>4 DEF Next
<1> QED BY <1>1, <1>2, TypeCorrect, PTL DEF Spec

--------------------------------------------------------------------------------
(* No due time is missed.                                                  *)

HIDE SchedulesAssumption

\* What is left of a tick from task t on, and of the time that may be spent down.
Walk(t) == (LastTask + 1 - t) * MaxBusy
Rest == (Crashes - crashes) * MaxDown
AllDown == Crashes * MaxDown

\* When process p will have looked at an enabled workflow w, at the latest.
NextLook(p, w) ==
  CASE pc[p] = "asleep" -> mark[p] + Rest
    [] pc[p] = "walking" /\ task[p] = 1 -> clock + Rest
    [] pc[p] = "walking" /\ task[p] # 1 -> clock + Walk(task[p]) + Tick + Rest
    [] pc[p] = "listing" /\ w \in todo[p] -> clock + Rest
    [] pc[p] = "listing" /\ w \notin todo[p] -> clock + Walk(2) + Tick + Rest
    [] pc[p] = "busy" -> mark[p] + Walk(task[p]) + Tick + Rest
    [] pc[p] = "down" -> mark[p] + MaxDown + Rest

\* What a process is in the middle of, and since when.
Clocks(p) ==
  /\ last[p][1] = None \/ last[p][1] <= clock
  /\ pc[p] = "asleep" =>
       /\ clock <= mark[p] /\ mark[p] <= clock + Tick
       /\ last[p][1] = None \/ mark[p] - last[p][1] >= Interval[1]
  /\ pc[p] = "walking" /\ task[p] = 1 => DueTask(p, 1)
  /\ pc[p] = "listing" => task[p] = 1
  /\ pc[p] = "busy" => task[p] # 1 /\ mark[p] <= clock /\ clock <= mark[p] + MaxBusy
  /\ pc[p] = "down" =>
       /\ mark[p] <= clock /\ clock <= mark[p] + MaxDown
       /\ crashes > 0 /\ last[p][1] = None
  /\ found[p] # None => found[p].workflow \in todo[p] /\ found[p].due = PreviousDue(found[p].workflow)

\* A due time of w that is to have a run and has none.
StillOpen(w, o) ==
  /\ o % Every[w] = 0 /\ state[w] = "enabled" /\ since[w] <= o /\ o <= clock
  /\ runs[w][o] = 0 /\ o \notin cut[w]

OnTime ==
  \A p \in Processes :
    /\ Clocks(p)
    /\ \A w \in Workflows, o \in Times : StillOpen(w, o) => NextLook(p, w) <= o + MaxGap

\* Products of naturals.
LEMMA Products ==
  ASSUME NEW a \in Nat, NEW b \in Nat, NEW c \in Nat, a <= c
  PROVE  /\ a * b \in Nat /\ c * b \in Nat /\ a * b <= c * b
         /\ (a + 1) * b = a * b + b
<1>1. a * b \in Nat /\ c * b \in Nat
  OBVIOUS
<1>2. PICK d \in Nat : c = a + d
  <2>1. c - a \in Nat /\ c = a + (c - a)
    OBVIOUS
  <2> QED BY <2>1
<1>3. c * b = a * b + d * b /\ d * b \in Nat
  BY <1>2
<1>4. (a + 1) * b = a * b + b
  OBVIOUS
<1> QED BY <1>1, <1>3, <1>4

\* The way from a task to the end of the tick.
LEMMA WalkFacts ==
  /\ \A t \in 1..(LastTask + 1) : Walk(t) \in Nat /\ (t # 1 => Walk(t) <= Walk(2))
  /\ \A t \in Tasks :
       /\ t \in Nat /\ t + 1 \in 1..(LastTask + 1) /\ t + 1 # 1
       /\ Walk(t + 1) \in Nat /\ Walk(t) = MaxBusy + Walk(t + 1)
  /\ Walk(LastTask + 1) = 0
  /\ Walk(2) = (LastTask - 1) * MaxBusy /\ Walk(2) \in Nat
<1> USE SchedulesAssumption
<1>1. ASSUME NEW t \in 1..(LastTask + 1) PROVE Walk(t) \in Nat
  <2>1. LastTask + 1 - t \in Nat
    OBVIOUS
  <2> QED BY <2>1, Products DEF Walk
<1>2. Walk(2) = (LastTask - 1) * MaxBusy
  <2>1. LastTask + 1 - 2 = LastTask - 1
    OBVIOUS
  <2> QED BY <2>1 DEF Walk
<1>3. Walk(2) \in Nat
  <2>1. LastTask - 1 \in Nat
    OBVIOUS
  <2> QED BY <1>2, <2>1, Products
<1>4. ASSUME NEW t \in 1..(LastTask + 1), t # 1 PROVE Walk(t) <= Walk(2)
  <2>1. LastTask + 1 - t \in Nat /\ LastTask - 1 \in Nat /\ LastTask + 1 - t <= LastTask - 1
    BY <1>4
  <2>2. (LastTask + 1 - t) * MaxBusy <= (LastTask - 1) * MaxBusy
    BY <2>1, Products
  <2> QED BY <1>2, <2>2 DEF Walk
<1>5. ASSUME NEW t \in Tasks PROVE t \in Nat /\ t + 1 \in 1..(LastTask + 1) /\ t + 1 # 1
  BY DEF Tasks
<1>6. ASSUME NEW t \in Tasks PROVE Walk(t) = MaxBusy + Walk(t + 1)
  <2> DEFINE n == LastTask + 1 - (t + 1)
  <2>1. n \in Nat /\ LastTask + 1 - t = n + 1
    BY DEF Tasks
  <2>2. (n + 1) * MaxBusy = n * MaxBusy + MaxBusy
    BY <2>1, Products
  <2>3. Walk(t) = (n + 1) * MaxBusy /\ Walk(t + 1) = n * MaxBusy
    BY <2>1 DEF Walk
  <2>4. n * MaxBusy \in Nat
    BY <2>1, Products
  <2> HIDE DEF n
  <2> QED BY <2>2, <2>3, <2>4
<1>7. Walk(LastTask + 1) = 0
  <2>1. LastTask + 1 - (LastTask + 1) = 0 /\ 0 * MaxBusy = 0
    OBVIOUS
  <2> QED BY <2>1 DEF Walk
<1> QED BY <1>1, <1>2, <1>3, <1>4, <1>6, <1>7, <1>5

\* The time that may still be spent down.
LEMMA RestFacts ==
  ASSUME TypeOK
  PROVE  /\ Rest \in Nat /\ AllDown \in Nat /\ Rest <= AllDown
         /\ crashes > 0 => Rest + MaxDown <= AllDown
         /\ MaxGap \in Nat /\ MaxGap = Tick + Walk(2) + AllDown
<1>0. Crashes \in Nat /\ MaxDown \in Nat /\ Tick \in Nat
  BY SchedulesAssumption
<1>1. crashes \in 0..Crashes
  BY DEF TypeOK, WorldOK
<1>2. Crashes - crashes \in Nat /\ Crashes - crashes <= Crashes
  BY <1>0, <1>1
<1>3. Rest \in Nat /\ AllDown \in Nat /\ Rest <= AllDown
  BY <1>0, <1>2, Products DEF Rest, AllDown
<1>4. ASSUME crashes > 0 PROVE Rest + MaxDown <= AllDown
  <2>1. Crashes - crashes + 1 \in Nat /\ Crashes - crashes + 1 <= Crashes
    BY <1>0, <1>1, <1>4
  <2>2. (Crashes - crashes + 1) * MaxDown = Rest + MaxDown
    BY <1>0, <1>2, Products DEF Rest
  <2>3. (Crashes - crashes + 1) * MaxDown <= Crashes * MaxDown
    BY <1>0, <2>1, Products
  <2> QED BY <2>2, <2>3 DEF AllDown
<1>5. MaxGap = Tick + Walk(2) + AllDown
  <2>1. Walk(2) = (LastTask - 1) * MaxBusy
    BY WalkFacts
  <2> QED BY <2>1 DEF MaxGap, AllDown
<1>6. MaxGap \in Nat
  BY <1>0, <1>3, <1>5, WalkFacts
<1> QED BY <1>3, <1>4, <1>5, <1>6

\* The same of the next state.
LEMMA RestFactsNext ==
  ASSUME TypeOK'
  PROVE  Rest' \in Nat
<1>0. Crashes \in Nat /\ MaxDown \in Nat
  BY SchedulesAssumption
<1>1. crashes' \in 0..Crashes
  BY DEF TypeOK, WorldOK
<1> DEFINE n == Crashes - crashes'
<1>2. n \in Nat /\ n <= Crashes
  <2>1. \A x \in 0..Crashes : Crashes - x \in Nat /\ Crashes - x <= Crashes
    BY <1>0
  <2> QED BY <1>1, <2>1
<1>3. n * MaxDown \in Nat
  BY <1>0, <1>2, Products
<1>4. Rest' = n * MaxDown
  BY DEF Rest
<1> QED BY <1>3, <1>4

\* A crash takes its time down from what is left.
LEMMA RestDrops ==
  ASSUME TypeOK, TypeOK', crashes' = crashes + 1
  PROVE  Rest \in Nat /\ Rest' \in Nat /\ Rest = Rest' + MaxDown /\ MaxDown \in Nat
<1>0. Crashes \in Nat /\ MaxDown \in Nat
  BY SchedulesAssumption
<1>1. crashes \in 0..Crashes /\ crashes' \in 0..Crashes
  BY DEF TypeOK, WorldOK
<1> DEFINE n == Crashes - crashes'
<1>2. n \in Nat /\ Crashes - crashes = n + 1
  BY <1>0, <1>1
<1>3. (n + 1) * MaxDown = n * MaxDown + MaxDown
  BY <1>0, <1>2, Products
<1>4. Rest = (n + 1) * MaxDown
  BY <1>2 DEF Rest
<1>5. Rest' = n * MaxDown
  BY DEF Rest
<1>6. n * MaxDown \in Nat
  BY <1>0, <1>2, Products
<1> HIDE DEF n
<1> QED BY <1>0, <1>3, <1>4, <1>5, <1>6

\* What is known of the time.
LEMMA TimeTypes ==
  ASSUME TypeOK, NEW p \in Processes
  PROVE  /\ clock \in Nat /\ mark[p] \in Nat /\ tickAt[p] \in Nat /\ task[p] \in 1..(LastTask + 1)
         /\ last[p][1] \in {None} \cup Nat
         /\ pc[p] \in {"asleep", "walking", "listing", "busy", "down"}
         /\ pc[p] \in {"listing", "busy"} => task[p] \in Tasks
         /\ 1 \in Tasks /\ Tick \in Nat /\ MaxDown \in Nat /\ MaxBusy \in Nat /\ Interval[1] \in Nat
<1>1. 1 \in Tasks
  BY SchedulesAssumption DEF Tasks
<1>2. Interval[1] \in Nat
  BY <1>1, SchedulesAssumption DEF Tasks
<1> QED BY <1>1, <1>2, SchedulesAssumption DEF TypeOK, WorldOK, SchedulerOK, Times

\* NextLook, case by case.
LEMMA NextLookCases ==
  ASSUME NEW p, NEW w
  PROVE  /\ pc[p] = "asleep" => NextLook(p, w) = mark[p] + Rest
         /\ pc[p] = "walking" /\ task[p] = 1 => NextLook(p, w) = clock + Rest
         /\ pc[p] = "walking" /\ task[p] # 1 => NextLook(p, w) = clock + Walk(task[p]) + Tick + Rest
         /\ pc[p] = "listing" /\ w \in todo[p] => NextLook(p, w) = clock + Rest
         /\ pc[p] = "listing" /\ w \notin todo[p] => NextLook(p, w) = clock + Walk(2) + Tick + Rest
         /\ pc[p] = "busy" => NextLook(p, w) = mark[p] + Walk(task[p]) + Tick + Rest
         /\ pc[p] = "down" => NextLook(p, w) = mark[p] + MaxDown + Rest
BY DEF NextLook

\* The next look is neither in the past nor further away than the longest gap.
LEMMA LookBounds ==
  ASSUME TypeOK, NEW p \in Processes, Clocks(p), NEW w \in Workflows
  PROVE  /\ NextLook(p, w) \in Nat
         /\ clock <= NextLook(p, w) /\ NextLook(p, w) <= clock + MaxGap
<1>1. Rest \in Nat /\ AllDown \in Nat /\ Rest <= AllDown /\ (crashes > 0 => Rest + MaxDown <= AllDown)
  BY RestFacts
<1>2. Walk(2) \in Nat /\ MaxGap \in Nat /\ MaxGap = Tick + Walk(2) + AllDown
  BY WalkFacts, RestFacts
<1>3. Walk(task[p]) \in Nat /\ (task[p] # 1 => Walk(task[p]) <= Walk(2))
  BY WalkFacts, TimeTypes
<1>4. CASE pc[p] = "asleep"
  <2>1. clock <= mark[p] /\ mark[p] <= clock + Tick
    BY <1>4 DEF Clocks
  <2>2. NextLook(p, w) = mark[p] + Rest
    BY <1>4, NextLookCases
  <2>3. clock \in Nat /\ mark[p] \in Nat /\ Tick \in Nat
    BY TimeTypes
  <2> QED BY <1>1, <1>2, <2>1, <2>2, <2>3
<1>5. CASE pc[p] = "walking"
  BY <1>1, <1>2, <1>3, <1>5, TimeTypes, NextLookCases
<1>6. CASE pc[p] = "listing"
  BY <1>1, <1>2, <1>6, TimeTypes, NextLookCases
<1>7. CASE pc[p] = "busy"
  <2>1. NextLook(p, w) = mark[p] + Walk(task[p]) + Tick + Rest /\ task[p] # 1 /\ task[p] \in Tasks
    BY <1>7, TimeTypes, NextLookCases DEF Clocks
  <2>2. Walk(task[p]) = MaxBusy + Walk(task[p] + 1) /\ Walk(task[p] + 1) \in Nat
    BY <2>1, WalkFacts
  <2> QED BY <1>1, <1>2, <1>3, <1>7, <2>1, <2>2, TimeTypes DEF Clocks
<1>8. CASE pc[p] = "down"
  BY <1>1, <1>2, <1>8, TimeTypes, NextLookCases DEF Clocks
<1> QED BY <1>4, <1>5, <1>6, <1>7, <1>8, TimeTypes

\* What is due and open is the last due time, and in the window.
LEMMA OpenIsPrevious ==
  ASSUME Timely, TypeOK, OnTime, NEW w \in Workflows, NEW o \in Times, StillOpen(w, o)
  PROVE  PreviousDue(w) = o /\ InWindow(w)
<1>1. PICK p \in Processes : TRUE
  BY SchedulesAssumption
<1>2. clock <= o + MaxGap
  <2>1. NextLook(p, w) <= o + MaxGap /\ clock <= NextLook(p, w) /\ NextLook(p, w) \in Nat
    BY LookBounds DEF OnTime
  <2>2. MaxGap \in Nat /\ o \in Nat /\ clock \in Nat
    BY RestFacts, TimeTypes, SchedulesAssumption DEF Times
  <2> QED BY <2>1, <2>2
<1>3. /\ MaxGap \in Nat /\ o \in Nat /\ clock \in Nat /\ Lookback \in Nat
      /\ Every[w] \in Nat \ {0} /\ MaxGap < Every[w] /\ MaxGap <= Lookback
  BY RestFacts, TimeTypes, SchedulesAssumption DEF Times, Timely
<1>4. clock < o + Every[w] /\ o <= clock /\ o % Every[w] = 0
  BY <1>2, <1>3 DEF StillOpen
<1>5. clock - (clock % Every[w]) = o
  <2> SUFFICES ASSUME NEW e \in Nat \ {0}, NEW c \in Nat, NEW x \in Nat, x % e = 0, x <= c, c < x + e
               PROVE  c - (c % e) = x
    BY <1>3, <1>4
  <2>1. PICK k \in Nat : x = k * e
    <3>1. x = (x \div e) * e + (x % e) /\ x \div e \in Nat
      OBVIOUS
    <3> QED BY <3>1
  <2>2. c = (c \div e) * e + (c % e) /\ c \div e \in Nat /\ c % e \in 0..(e - 1)
    OBVIOUS
  <2>3. c \div e = k
    <3> DEFINE m == c \div e
    <3>1. m * e <= c /\ c < (m + 1) * e
      <4>1. m \in Nat /\ m * e \in Nat /\ (m + 1) * e = m * e + e
        BY <2>2, Products
      <4> QED BY <2>2, <4>1
    <3>2. k * e <= c /\ c < (k + 1) * e
      <4>1. (k + 1) * e = k * e + e
        BY Products
      <4> QED BY <2>1, <4>1
    <3>3. m \in Nat
      BY <2>2
    <3> HIDE DEF m
    <3>4. ~(m + 1 <= k)
      <4>1. m + 1 <= k => (m + 1) * e <= k * e
        BY <3>3, Products
      <4>2. (m + 1) * e \in Nat /\ k * e \in Nat
        BY <3>3, Products
      <4> QED BY <3>1, <3>2, <4>1, <4>2
    <3>5. ~(k + 1 <= m)
      <4>1. k + 1 <= m => (k + 1) * e <= m * e
        BY <3>3, Products
      <4>2. (k + 1) * e \in Nat /\ m * e \in Nat
        BY <3>3, Products
      <4> QED BY <3>1, <3>2, <4>1, <4>2
    <3>6. m = k
      BY <3>3, <3>4, <3>5
    <3> QED BY <3>6 DEF m
  <2> QED BY <2>1, <2>2, <2>3
<1>6. PreviousDue(w) = o
  BY <1>5 DEF PreviousDue
<1> QED BY <1>2, <1>3, <1>6 DEF InWindow

--------------------------------------------------------------------------------
\* The other processes stay where they are.
Others(p) ==
  \A q \in Processes \ {p} :
    /\ pc'[q] = pc[q] /\ mark'[q] = mark[q] /\ task'[q] = task[q] /\ tickAt'[q] = tickAt[q]
    /\ last'[q] = last[q] /\ todo'[q] = todo[q] /\ found'[q] = found[q]

\* A process whose own variables do not change, while the clock stands still.
LEMMA OtherProcess ==
  ASSUME TypeOK, TypeOK', OnTime, NEW q \in Processes,
         clock' = clock, crashes' \in {crashes, crashes + 1},
         pc'[q] = pc[q], mark'[q] = mark[q], task'[q] = task[q], tickAt'[q] = tickAt[q],
         last'[q] = last[q], todo'[q] = todo[q], found'[q] = found[q]
  PROVE  /\ Clocks(q)'
         /\ \A w \in Workflows : NextLook(q, w)' \in Nat /\ NextLook(q, w)' <= NextLook(q, w)
<1>1. Clocks(q)
  BY DEF OnTime
<1>2. crashes \in Nat /\ clock \in Nat
  BY DEF TypeOK, WorldOK, Times
<1>3. \A w : PreviousDue(w)' = PreviousDue(w)
  BY DEF PreviousDue
<1>4. DueTask(q, 1)' <=> DueTask(q, 1)
  BY DEF DueTask
<1>5. Clocks(q)'
  BY <1>1, <1>2, <1>3, <1>4 DEF Clocks
<1>6. Rest \in Nat /\ Rest' \in Nat /\ Rest' <= Rest
  <2>1. Rest \in Nat /\ Rest' \in Nat
    BY RestFacts, RestFactsNext
  <2>2. CASE crashes' = crashes
    BY <2>1, <2>2 DEF Rest
  <2>3. CASE crashes' = crashes + 1
    BY <2>1, <2>3, RestDrops
  <2> QED BY <2>1, <2>2, <2>3
<1>7. ASSUME NEW w \in Workflows PROVE NextLook(q, w)' \in Nat /\ NextLook(q, w)' <= NextLook(q, w)
  <2>1. Walk(task[q]) \in Nat /\ Walk(2) \in Nat
    BY WalkFacts, TimeTypes
  <2>2. NextLook(q, w)' = CASE pc[q] = "asleep" -> mark[q] + Rest'
    [] pc[q] = "walking" /\ task[q] = 1 -> clock + Rest'
    [] pc[q] = "walking" /\ task[q] # 1 -> clock + Walk(task[q]) + Tick + Rest'
    [] pc[q] = "listing" /\ w \in todo[q] -> clock + Rest'
    [] pc[q] = "listing" /\ w \notin todo[q] -> clock + Walk(2) + Tick + Rest'
    [] pc[q] = "busy" -> mark[q] + Walk(task[q]) + Tick + Rest'
    [] pc[q] = "down" -> mark[q] + MaxDown + Rest'
    BY DEF NextLook, Walk
  <2> QED BY <1>6, <2>1, <2>2, TimeTypes DEF NextLook
<1> QED BY <1>5, <1>7

\* A step of process p that keeps its own promise keeps everyone's.
LEMMA ProcessStep ==
  ASSUME TypeOK, TypeOK', OnTime, NEW p \in Processes,
         clock' = clock, crashes' \in {crashes, crashes + 1}, state' = state, since' = since,
         Others(p),
         \A w \in Workflows, o \in Times : StillOpen(w, o)' => StillOpen(w, o),
         Clocks(p)',
         \A w \in Workflows, o \in Times : StillOpen(w, o) /\ StillOpen(w, o)' =>
           NextLook(p, w)' \in Nat /\ NextLook(p, w)' <= NextLook(p, w)
  PROVE  OnTime'
<1>1. ASSUME NEW q \in Processes
      PROVE  /\ Clocks(q)'
             /\ \A w \in Workflows, o \in Times : StillOpen(w, o)' => NextLook(q, w)' <= o + MaxGap
  <2>0. q # p => Clocks(q)' /\ \A w \in Workflows : NextLook(q, w)' \in Nat /\ NextLook(q, w)' <= NextLook(q, w)
    BY OtherProcess DEF Others
  <2>1. Clocks(q)'
    BY <2>0
  <2>2. ASSUME NEW w \in Workflows, NEW o \in Times, StillOpen(w, o)'
        PROVE  NextLook(q, w)' <= o + MaxGap
    <3>1. StillOpen(w, o) /\ NextLook(q, w) <= o + MaxGap /\ Clocks(q)
      BY <2>2 DEF OnTime
    <3>2. NextLook(q, w) \in Nat /\ MaxGap \in Nat /\ o \in Nat
      BY <3>1, LookBounds, RestFacts DEF Times
    <3>3. NextLook(q, w)' \in Nat /\ NextLook(q, w)' <= NextLook(q, w)
      BY <2>0, <2>2, <3>1
    <3> QED BY <3>1, <3>2, <3>3
  <2> QED BY <2>1, <2>2
<1> QED BY <1>1 DEF OnTime

\* A process wakes and begins its tick with the workflows.
LEMMA WakeOnTime ==
  ASSUME TypeOK, TypeOK', OnTime, NEW p \in Processes, Wake(p)
  PROVE  OnTime'
<1>1. /\ pc[p] = "asleep" /\ clock >= mark[p] /\ UNCHANGED <<clock, state, since, runs, cut, mark, last, todo, found, crashes>>
      /\ tickAt' = [tickAt EXCEPT ![p] = clock] /\ task' = [task EXCEPT ![p] = 1] /\ pc' = [pc EXCEPT ![p] = "walking"]
  BY DEF Wake, Goes, flow, tick
<1>2. pc'[p] = "walking" /\ task'[p] = 1 /\ tickAt'[p] = clock
  BY <1>1 DEF TypeOK, SchedulerOK
<1>3. Clocks(p) /\ clock = mark[p]
  BY <1>1, TimeTypes DEF OnTime, Clocks
<1>4. Clocks(p)'
  <2>1. DueTask(p, 1)'
    BY <1>1, <1>2, <1>3, TimeTypes DEF Clocks, DueTask
  <2>2. found[p] = None
    BY <1>1 DEF TypeOK, ListOK
  <2> QED BY <1>1, <1>2, <1>3, <2>1, <2>2 DEF Clocks
<1>5. \A w \in Workflows : NextLook(p, w)' = clock + Rest /\ NextLook(p, w) = mark[p] + Rest
  <2>1. Rest' = Rest
    BY <1>1 DEF Rest
  <2> QED BY <1>1, <1>2, <2>1 DEF NextLook
<1>6. \A w \in Workflows : NextLook(p, w)' \in Nat /\ NextLook(p, w)' <= NextLook(p, w)
  BY <1>3, <1>5, TimeTypes, RestFacts
<1>7. \A w \in Workflows, o \in Times : StillOpen(w, o)' => StillOpen(w, o)
  BY <1>1 DEF StillOpen
<1>8. Others(p)
  BY <1>1 DEF Others, TypeOK, SchedulerOK
<1> QED BY <1>1, <1>4, <1>6, <1>7, <1>8, ProcessStep

\* NextLook of the next state, case by case.
LEMMA NextLookCasesNext ==
  ASSUME NEW p \in Processes, NEW w \in Workflows
  PROVE  /\ pc'[p] = "asleep" => NextLook(p, w)' = mark'[p] + Rest'
         /\ pc'[p] = "walking" /\ task'[p] = 1 => NextLook(p, w)' = clock' + Rest'
         /\ pc'[p] = "walking" /\ task'[p] # 1 => NextLook(p, w)' = clock' + Walk(task'[p]) + Tick + Rest'
         /\ pc'[p] = "listing" /\ w \in todo'[p] => NextLook(p, w)' = clock' + Rest'
         /\ pc'[p] = "listing" /\ w \notin todo'[p] => NextLook(p, w)' = clock' + Walk(2) + Tick + Rest'
         /\ pc'[p] = "busy" => NextLook(p, w)' = mark'[p] + Walk(task'[p]) + Tick + Rest'
         /\ pc'[p] = "down" => NextLook(p, w)' = mark'[p] + MaxDown + Rest'
BY DEF NextLook, Walk

\* A task that is not due is skipped: never the first.
LEMMA SkipOnTime ==
  ASSUME TypeOK, TypeOK', OnTime, NEW p \in Processes, SkipTask(p)
  PROVE  OnTime'
<1>1. /\ pc[p] = "walking" /\ task[p] \in Tasks /\ ~DueTask(p, task[p])
      /\ UNCHANGED <<clock, state, since, runs, cut, pc, mark, tickAt, todo, found, crashes>>
      /\ task' = [task EXCEPT ![p] = @ + 1]
      /\ last' = [last EXCEPT ![p][task[p]] = IF @ = None THEN tickAt[p] ELSE @]
  BY DEF SkipTask, NextTask, flow, tick
<1>2. Clocks(p) /\ task[p] # 1
  BY <1>1 DEF OnTime, Clocks
<1>3. task'[p] = task[p] + 1 /\ task'[p] # 1 /\ last'[p][1] = last[p][1] /\ pc'[p] = "walking"
  BY <1>1, <1>2, WalkFacts, TimeTypes DEF TypeOK, SchedulerOK
<1>4. Clocks(p)'
  <2>1. found[p] = None
    BY <1>1 DEF TypeOK, ListOK
  <2> QED BY <1>1, <1>2, <1>3, <2>1 DEF Clocks
<1>5. \A w \in Workflows : NextLook(p, w)' \in Nat /\ NextLook(p, w)' <= NextLook(p, w)
  <2>1. Rest' = Rest /\ Rest \in Nat
    BY <1>1, RestFacts DEF Rest
  <2>2. Walk(task[p] + 1) \in Nat /\ Walk(task[p]) = MaxBusy + Walk(task[p] + 1)
    BY <1>1, WalkFacts
  <2>3. \A w \in Workflows : /\ NextLook(p, w)' = clock + Walk(task[p] + 1) + Tick + Rest
                             /\ NextLook(p, w) = clock + Walk(task[p]) + Tick + Rest
    BY <1>1, <1>2, <1>3, <2>1, NextLookCases, NextLookCasesNext
  <2> QED BY <2>1, <2>2, <2>3, TimeTypes
<1>7. \A w \in Workflows, o \in Times : StillOpen(w, o)' => StillOpen(w, o)
  BY <1>1 DEF StillOpen
<1>8. Others(p)
  BY <1>1 DEF Others, TypeOK, SchedulerOK
<1> QED BY <1>1, <1>4, <1>5, <1>7, <1>8, ProcessStep

\* The workflow tick lists every enabled workflow; another task makes it busy.
LEMMA RunOnTime ==
  ASSUME TypeOK, TypeOK', OnTime, NEW p \in Processes, RunTask(p)
  PROVE  OnTime'
<1>1. /\ pc[p] = "walking" /\ task[p] \in Tasks
      /\ UNCHANGED <<clock, state, since, runs, cut, tickAt, task, found, crashes>>
      /\ last' = [last EXCEPT ![p][task[p]] = clock]
  BY DEF RunTask, flow
<1>2. Clocks(p) /\ found[p] = None
  BY <1>1 DEF OnTime, TypeOK, ListOK
<1>3. /\ \A w \in Workflows, o \in Times : StillOpen(w, o)' => StillOpen(w, o)
      /\ Rest' = Rest /\ Rest \in Nat
  BY <1>1, RestFacts DEF StillOpen, Rest
<1>4. CASE task[p] = 1
  <2>1. /\ todo' = [todo EXCEPT ![p] = {w \in Workflows : state[w] = "enabled"}]
        /\ pc' = [pc EXCEPT ![p] = "listing"] /\ UNCHANGED mark
    BY <1>4 DEF RunTask, Goes
  <2>2. pc'[p] = "listing" /\ last'[p][1] = clock /\ task'[p] = 1 /\ clock' = clock
    BY <1>1, <1>4, <2>1 DEF TypeOK, SchedulerOK
  <2>3. Clocks(p)'
    BY <1>1, <1>2, <2>2, TimeTypes DEF Clocks
  <2>4. ASSUME NEW w \in Workflows, NEW o \in Times, StillOpen(w, o)
        PROVE  NextLook(p, w)' \in Nat /\ NextLook(p, w)' <= NextLook(p, w)
    <3>1. w \in todo'[p]
      BY <2>1, <2>4 DEF TypeOK, ListOK, StillOpen
    <3>2. NextLook(p, w)' = clock + Rest /\ NextLook(p, w) = clock + Rest
      BY <1>1, <1>3, <1>4, <2>2, <3>1, NextLookCases, NextLookCasesNext
    <3> QED BY <1>3, <3>2, TimeTypes
  <2>5. Others(p)
    BY <1>1, <2>1 DEF Others, TypeOK, SchedulerOK, ListOK
  <2> QED BY <1>1, <1>3, <2>3, <2>4, <2>5, ProcessStep
<1>5. CASE task[p] # 1
  <2>1. /\ mark' = [mark EXCEPT ![p] = clock] /\ pc' = [pc EXCEPT ![p] = "busy"] /\ UNCHANGED todo
    BY <1>5 DEF RunTask, Goes, Marks
  <2>2. pc'[p] = "busy" /\ last'[p][1] = last[p][1] /\ task'[p] = task[p] /\ mark'[p] = clock /\ clock' = clock
    BY <1>1, <1>5, <2>1, TimeTypes DEF TypeOK, SchedulerOK
  <2>3. Clocks(p)'
    BY <1>1, <1>2, <1>5, <2>2, TimeTypes DEF Clocks
  <2>4. ASSUME NEW w \in Workflows
        PROVE  NextLook(p, w)' \in Nat /\ NextLook(p, w)' <= NextLook(p, w)
    <3>1. NextLook(p, w) = clock + Walk(task[p]) + Tick + Rest
      BY <1>1, <1>5, NextLookCases
    <3>2. NextLook(p, w)' = clock + Walk(task[p]) + Tick + Rest
      BY <1>3, <2>2, NextLookCasesNext
    <3>3. Walk(task[p]) \in Nat
      BY WalkFacts, TimeTypes
    <3> QED BY <1>3, <3>1, <3>2, <3>3, TimeTypes
  <2>5. Others(p)
    BY <1>1, <2>1 DEF Others, TypeOK, SchedulerOK, ListOK
  <2> QED BY <1>1, <1>3, <2>3, <2>4, <2>5, ProcessStep
<1> QED BY <1>4, <1>5

\* A task took no longer than it may.
LEMMA TaskEndsOnTime ==
  ASSUME TypeOK, TypeOK', OnTime, NEW p \in Processes, TaskEnds(p)
  PROVE  OnTime'
<1>1. /\ pc[p] = "busy" /\ UNCHANGED <<clock, state, since, runs, cut, mark, tickAt, last, todo, found, crashes>>
      /\ task' = [task EXCEPT ![p] = @ + 1] /\ pc' = [pc EXCEPT ![p] = "walking"]
  BY DEF TaskEnds, Goes, NextTask, flow, tick
<1>2. Clocks(p) /\ found[p] = None
  BY <1>1 DEF OnTime, TypeOK, ListOK
<1>3. pc'[p] = "walking" /\ task'[p] = task[p] + 1 /\ task'[p] # 1 /\ clock' = clock
  BY <1>1, WalkFacts, TimeTypes DEF TypeOK, SchedulerOK
<1>4. Clocks(p)'
  BY <1>1, <1>2, <1>3 DEF Clocks
<1>5. \A w \in Workflows : NextLook(p, w)' \in Nat /\ NextLook(p, w)' <= NextLook(p, w)
  <2>1. Rest' = Rest /\ Rest \in Nat
    BY <1>1, RestFacts DEF Rest
  <2>2. Walk(task[p] + 1) \in Nat /\ Walk(task[p]) = MaxBusy + Walk(task[p] + 1)
    BY <1>1, WalkFacts, TimeTypes
  <2>3. \A w \in Workflows : NextLook(p, w)' = clock + Walk(task[p] + 1) + Tick + Rest
    BY <1>3, <2>1, NextLookCasesNext
  <2>4. \A w \in Workflows : NextLook(p, w) = mark[p] + Walk(task[p]) + Tick + Rest
    BY <1>1, NextLookCases
  <2>5. clock <= mark[p] + MaxBusy
    BY <1>1, <1>2 DEF Clocks
  <2> QED BY <2>1, <2>2, <2>3, <2>4, <2>5, TimeTypes
<1>7. \A w \in Workflows, o \in Times : StillOpen(w, o)' => StillOpen(w, o)
  BY <1>1 DEF StillOpen
<1>8. Others(p)
  BY <1>1 DEF Others, TypeOK, SchedulerOK
<1> QED BY <1>1, <1>4, <1>5, <1>7, <1>8, ProcessStep

\* A sleep is a tick long, so the workflow tick is due when it ends.
LEMMA SleepOnTime ==
  ASSUME Timely, TypeOK, TypeOK', OnTime, NEW p \in Processes, Sleep(p)
  PROVE  OnTime'
<1>1. /\ pc[p] = "walking" /\ task[p] \notin Tasks
      /\ UNCHANGED <<clock, state, since, runs, cut, tickAt, task, last, todo, found, crashes>>
      /\ mark' = [mark EXCEPT ![p] = clock + Tick] /\ pc' = [pc EXCEPT ![p] = "asleep"]
  BY DEF Sleep, Goes, Marks, flow, tick
<1>2. Clocks(p) /\ found[p] = None
  BY <1>1 DEF OnTime, TypeOK, ListOK
<1>3. pc'[p] = "asleep" /\ mark'[p] = clock + Tick /\ clock' = clock
  BY <1>1 DEF TypeOK, SchedulerOK
<1>4. task[p] = LastTask + 1 /\ task[p] # 1
  BY <1>1, TimeTypes, SchedulesAssumption DEF Tasks
<1>5. Interval[1] <= Tick
  BY DEF Timely
<1>6. Clocks(p)'
  <2>1. last[p][1] = None \/ (clock + Tick) - last[p][1] >= Interval[1]
    BY <1>2, <1>5, TimeTypes DEF Clocks
  <2>2. clock <= clock + Tick /\ clock + Tick <= clock + Tick
    BY TimeTypes
  <2>3. last[p][1] = None \/ last[p][1] <= clock
    BY <1>2 DEF Clocks
  <2>4. last'[p][1] = last[p][1] /\ found'[p] = None
    BY <1>1, <1>2
  <2> QED BY <1>3, <2>1, <2>2, <2>3, <2>4 DEF Clocks
<1>7. \A w \in Workflows : NextLook(p, w)' \in Nat /\ NextLook(p, w)' <= NextLook(p, w)
  <2>1. Rest' = Rest /\ Rest \in Nat
    BY <1>1, RestFacts DEF Rest
  <2>2. Walk(task[p]) = 0
    BY <1>4, WalkFacts
  <2>3. \A w \in Workflows : NextLook(p, w)' = (clock + Tick) + Rest
    BY <1>3, <2>1, NextLookCasesNext
  <2>4. \A w \in Workflows : NextLook(p, w) = clock + 0 + Tick + Rest
    BY <1>1, <1>4, <2>2, NextLookCases
  <2> QED BY <2>1, <2>3, <2>4, TimeTypes
<1>8. \A w \in Workflows, o \in Times : StillOpen(w, o)' => StillOpen(w, o)
  BY <1>1 DEF StillOpen
<1>9. Others(p)
  BY <1>1 DEF Others, TypeOK, SchedulerOK
<1> QED BY <1>1, <1>6, <1>7, <1>8, <1>9, ProcessStep

\* A process that is down starts within the time it may be.
LEMMA StartOnTime ==
  ASSUME TypeOK, TypeOK', OnTime, NEW p \in Processes, Start(p)
  PROVE  OnTime'
<1>1. /\ pc[p] = "down"
      /\ UNCHANGED <<clock, state, since, runs, cut, tickAt, task, last, todo, found, crashes>>
      /\ mark' = [mark EXCEPT ![p] = clock] /\ pc' = [pc EXCEPT ![p] = "asleep"]
  BY DEF Start, Goes, Marks, flow, tick
<1>2. Clocks(p) /\ found[p] = None /\ last[p][1] = None
  BY <1>1 DEF OnTime, TypeOK, ListOK, Clocks
<1>3. pc'[p] = "asleep" /\ mark'[p] = clock /\ clock' = clock
  BY <1>1 DEF TypeOK, SchedulerOK
<1>4. Clocks(p)'
  BY <1>1, <1>2, <1>3, TimeTypes DEF Clocks
<1>5. \A w \in Workflows : NextLook(p, w)' \in Nat /\ NextLook(p, w)' <= NextLook(p, w)
  <2>1. Rest' = Rest /\ Rest \in Nat
    BY <1>1, RestFacts DEF Rest
  <2>2. \A w \in Workflows : NextLook(p, w)' = clock + Rest
    BY <1>3, <2>1, NextLookCasesNext
  <2>3. \A w \in Workflows : NextLook(p, w) = mark[p] + MaxDown + Rest
    BY <1>1, NextLookCases
  <2>4. clock <= mark[p] + MaxDown
    BY <1>1, <1>2 DEF Clocks
  <2> QED BY <2>1, <2>2, <2>3, <2>4, TimeTypes
<1>7. \A w \in Workflows, o \in Times : StillOpen(w, o)' => StillOpen(w, o)
  BY <1>1 DEF StillOpen
<1>8. Others(p)
  BY <1>1 DEF Others, TypeOK, SchedulerOK
<1> QED BY <1>1, <1>4, <1>5, <1>7, <1>8, ProcessStep

\* The tick is over: whatever is still open waits for the next one.
LEMMA ListedOnTime ==
  ASSUME TypeOK, TypeOK', OnTime, NEW p \in Processes, Listed(p)
  PROVE  OnTime'
<1>1. /\ pc[p] = "listing" /\ todo[p] = {} /\ found[p] = None
      /\ UNCHANGED <<clock, state, since, runs, cut, mark, tickAt, last, todo, found, crashes>>
      /\ task' = [task EXCEPT ![p] = @ + 1] /\ pc' = [pc EXCEPT ![p] = "walking"]
  BY DEF Listed, Goes, NextTask, flow, tick
<1>2. Clocks(p) /\ task[p] = 1
  BY <1>1 DEF OnTime, Clocks
<1>3. pc'[p] = "walking" /\ task'[p] = 2 /\ clock' = clock
  BY <1>1, <1>2 DEF TypeOK, SchedulerOK
<1>4. Clocks(p)'
  BY <1>1, <1>2, <1>3 DEF Clocks
<1>5. \A w \in Workflows : NextLook(p, w)' \in Nat /\ NextLook(p, w)' <= NextLook(p, w)
  <2>1. Rest' = Rest /\ Rest \in Nat
    BY <1>1, RestFacts DEF Rest
  <2>2. \A w \in Workflows : /\ NextLook(p, w)' = clock + Walk(2) + Tick + Rest
                             /\ NextLook(p, w) = clock + Walk(2) + Tick + Rest
    BY <1>1, <1>3, <2>1, NextLookCases, NextLookCasesNext
  <2>3. Walk(2) \in Nat
    BY WalkFacts
  <2> QED BY <2>1, <2>2, <2>3, TimeTypes
<1>7. \A w \in Workflows, o \in Times : StillOpen(w, o)' => StillOpen(w, o)
  BY <1>1 DEF StillOpen
<1>8. Others(p)
  BY <1>1 DEF Others, TypeOK, SchedulerOK
<1> QED BY <1>1, <1>4, <1>5, <1>7, <1>8, ProcessStep

\* A tick that an exception cuts short has nothing more to look at: what was open
\* among it is cut.
LEMMA AbortOnTime ==
  ASSUME Timely, TypeOK, TypeOK', OnTime, NEW p \in Processes, pc[p] = "listing", Abort(p),
         UNCHANGED <<clock, flow, mark, tickAt, last, crashes>>
  PROVE  OnTime'
<1>1. /\ UNCHANGED <<clock, state, since, runs, mark, tickAt, last, crashes>>
      /\ todo' = [todo EXCEPT ![p] = {}] /\ found' = [found EXCEPT ![p] = None]
      /\ task' = [task EXCEPT ![p] = @ + 1] /\ pc' = [pc EXCEPT ![p] = "walking"]
      /\ cut' = [w \in Workflows |->
                   IF w \in todo[p] /\ InWindow(w) THEN cut[w] \cup {PreviousDue(w)} ELSE cut[w]]
  BY DEF Abort, Drops, Goes, NextTask, flow
<1>2. Clocks(p) /\ task[p] = 1
  BY DEF OnTime, Clocks
<1>3. pc'[p] = "walking" /\ task'[p] = 2 /\ clock' = clock /\ found'[p] = None
  BY <1>1, <1>2 DEF TypeOK, SchedulerOK, ListOK
<1>4. Clocks(p)'
  BY <1>1, <1>2, <1>3 DEF Clocks
<1>5. \A w \in Workflows, o \in Times : StillOpen(w, o)' => StillOpen(w, o)
  BY <1>1 DEF StillOpen
<1>6. ASSUME NEW w \in Workflows, NEW o \in Times, StillOpen(w, o), StillOpen(w, o)'
      PROVE  NextLook(p, w)' \in Nat /\ NextLook(p, w)' <= NextLook(p, w)
  <2>1. w \notin todo[p]
    <3>1. PreviousDue(w) = o /\ InWindow(w) /\ o \notin cut'[w]
      BY <1>6, OpenIsPrevious DEF StillOpen
    <3> QED BY <1>1, <3>1
  <2>2. Rest' = Rest /\ Rest \in Nat
    BY <1>1, RestFacts DEF Rest
  <2>3. /\ NextLook(p, w)' = clock + Walk(2) + Tick + Rest
        /\ NextLook(p, w) = clock + Walk(2) + Tick + Rest
    BY <1>3, <2>1, <2>2, NextLookCases, NextLookCasesNext
  <2>4. Walk(2) \in Nat
    BY WalkFacts
  <2> QED BY <2>2, <2>3, <2>4, TimeTypes
<1>8. Others(p)
  BY <1>1 DEF Others, TypeOK, SchedulerOK, ListOK
<1> QED BY <1>1, <1>4, <1>5, <1>6, <1>8, ProcessStep

\* A workflow leaves the list when it has fired, or is found.
LEMMA ExamineOnTime ==
  ASSUME Timely, TypeOK, TypeOK', OnTime, NEW p \in Processes, Examine(p)
  PROVE  OnTime'
<1> DEFINE find(w) == [workflow |-> w, due |-> PreviousDue(w),
                       seen |-> IF refreshed[p] THEN state[w] ELSE "enabled"]
<1>1. pc[p] = "listing" /\ found[p] = None /\ UNCHANGED <<clock, flow, mark, tickAt, last, crashes>>
  BY DEF Examine
<1>2. PICK x \in todo[p] :
        \/ Abort(p)
        \/ found' = [found EXCEPT ![p] = find(x)] /\ UNCHANGED <<runs, cut, todo, refreshed, pc, task>>
        \/ /\ InWindow(x) => Fired(x)
           /\ todo' = [todo EXCEPT ![p] = @ \ {x}]
           /\ UNCHANGED <<runs, cut, found, refreshed, pc, task>>
  BY DEF Examine
<1>3. Clocks(p) /\ task[p] = 1
  BY <1>1 DEF OnTime, Clocks
<1>4. Rest' = Rest /\ Rest \in Nat
  BY <1>1, RestFacts DEF Rest
<1>5. UNCHANGED <<clock, state, since, mark, tickAt, last, crashes>>
  BY <1>1 DEF flow
<1>6. CASE Abort(p)
  BY <1>1, <1>6, AbortOnTime
<1>7. CASE found' = [found EXCEPT ![p] = find(x)] /\ UNCHANGED <<runs, cut, todo, refreshed, pc, task>>
  <2>1. found'[p].workflow = x /\ found'[p].due = PreviousDue(x)
    BY <1>7 DEF TypeOK, ListOK
  <2>2. \A w : PreviousDue(w)' = PreviousDue(w)
    BY <1>5 DEF PreviousDue
  <2>3. Clocks(p)'
    <3>1. found'[p].workflow \in todo'[p] /\ (found[p].due = PreviousDue(found[p].workflow))'
      BY <1>2, <1>5, <1>7, <2>1 DEF PreviousDue
    <3> HIDE DEF find
    <3> QED BY <1>1, <1>3, <1>5, <1>7, <3>1 DEF Clocks
  <2> HIDE DEF find
  <2>4. \A w \in Workflows, o \in Times : StillOpen(w, o)' => StillOpen(w, o)
    BY <1>5, <1>7 DEF StillOpen
  <2>5. ASSUME NEW w \in Workflows PROVE NextLook(p, w)' \in Nat /\ NextLook(p, w)' <= NextLook(p, w)
    <3>1. NextLook(p, w)' = NextLook(p, w)
      BY <1>1, <1>4, <1>5, <1>7, NextLookCases, NextLookCasesNext
    <3> QED BY <1>3, <3>1, LookBounds
  <2>6. Others(p)
    BY <1>5, <1>7 DEF Others, TypeOK, ListOK
  <2> QED BY <1>5, <2>3, <2>4, <2>5, <2>6, ProcessStep
<1>8. CASE /\ InWindow(x) => Fired(x)
           /\ todo' = [todo EXCEPT ![p] = @ \ {x}]
           /\ UNCHANGED <<runs, cut, found, refreshed, pc, task>>
  <2>1. Clocks(p)'
    BY <1>1, <1>3, <1>5, <1>8 DEF Clocks
  <2>2. \A w \in Workflows, o \in Times : StillOpen(w, o)' => StillOpen(w, o)
    BY <1>5, <1>8 DEF StillOpen
  <2>3. ASSUME NEW w \in Workflows, NEW o \in Times, StillOpen(w, o)
        PROVE  NextLook(p, w)' \in Nat /\ NextLook(p, w)' <= NextLook(p, w)
    <3>1. w # x
      <4>1. PreviousDue(w) = o /\ InWindow(w) /\ runs[w][o] = 0
        BY <2>3, OpenIsPrevious DEF StillOpen
      <4> QED BY <1>8, <4>1 DEF Fired
    <3>2. w \in todo'[p] <=> w \in todo[p]
      BY <1>8, <3>1 DEF TypeOK, ListOK
    <3>3. NextLook(p, w)' = NextLook(p, w)
      BY <1>1, <1>4, <1>5, <1>8, <3>2, NextLookCases, NextLookCasesNext
    <3> QED BY <1>3, <3>3, LookBounds
  <2>4. Others(p)
    BY <1>5, <1>8 DEF Others, TypeOK, ListOK
  <2> QED BY <1>5, <2>1, <2>2, <2>3, <2>4, ProcessStep
<1> QED BY <1>2, <1>6, <1>7, <1>8

\* A run is enqueued for the due time that was open.
LEMMA EnqueueOnTime ==
  ASSUME Timely, TypeOK, TypeOK', OnTime, NEW p \in Processes, Enqueue(p)
  PROVE  OnTime'
<1>1. pc[p] = "listing" /\ found[p] # None /\ UNCHANGED <<clock, flow, mark, tickAt, last, crashes>>
  BY DEF Enqueue
<1> DEFINE x == found[p].workflow
           d == found[p].due
<1>2. \/ Abort(p)
      \/ /\ runs' = [runs EXCEPT ![x][d] = @ + 1]
         /\ todo' = [todo EXCEPT ![p] = @ \ {x}] /\ found' = [found EXCEPT ![p] = None]
         /\ UNCHANGED <<cut, pc, task>>
  BY DEF Enqueue
<1>3. Clocks(p) /\ task[p] = 1 /\ d = PreviousDue(x) /\ x \in Workflows /\ d \in Times
  BY <1>1 DEF OnTime, Clocks, TypeOK, ListOK, Finds
<1> HIDE DEF x, d
<1>4. Rest' = Rest /\ Rest \in Nat
  BY <1>1, RestFacts DEF Rest
<1>5. UNCHANGED <<clock, state, since, mark, tickAt, last, crashes>>
  BY <1>1 DEF flow
<1>6. CASE Abort(p)
  BY <1>1, <1>6, AbortOnTime
<1>7. CASE ~Abort(p)
  <2>0. /\ runs' = [runs EXCEPT ![x][d] = @ + 1]
        /\ todo' = [todo EXCEPT ![p] = @ \ {x}] /\ found' = [found EXCEPT ![p] = None]
        /\ UNCHANGED <<cut, pc, task>>
    BY <1>2, <1>7
  <2>1. Clocks(p)'
    <3>1. found'[p] = None
      BY <2>0 DEF TypeOK, ListOK
    <3> QED BY <1>1, <1>3, <1>5, <2>0, <3>1 DEF Clocks
  <2>2. /\ runs \in [Workflows -> [Times -> Nat]] /\ runs[x][d] \in Nat
        /\ \A w \in Workflows, o \in Times : runs'[w][o] = IF w = x /\ o = d THEN runs[x][d] + 1 ELSE runs[w][o]
    BY <1>3, <2>0 DEF TypeOK, WorldOK
  <2>3. ASSUME NEW w \in Workflows, NEW o \in Times, StillOpen(w, o)'
        PROVE  StillOpen(w, o) /\ (w # x \/ o # d)
    <3>1. runs'[w][o] = 0 /\ (w # x \/ o # d)
      BY <2>2, <2>3 DEF StillOpen
    <3>2. runs[w][o] = 0
      BY <2>2, <3>1
    <3> QED BY <1>5, <2>0, <2>3, <3>1, <3>2 DEF StillOpen
  <2>4. ASSUME NEW w \in Workflows, NEW o \in Times, StillOpen(w, o), StillOpen(w, o)'
        PROVE  NextLook(p, w)' \in Nat /\ NextLook(p, w)' <= NextLook(p, w)
    <3>1. w # x
      <4>1. PreviousDue(w) = o
        BY <2>4, OpenIsPrevious
      <4> QED BY <1>3, <2>3, <2>4, <4>1
    <3>2. w \in todo'[p] <=> w \in todo[p]
      BY <2>0, <3>1 DEF TypeOK, ListOK
    <3>3. NextLook(p, w)' = NextLook(p, w)
      BY <1>1, <1>4, <1>5, <2>0, <3>2, NextLookCases, NextLookCasesNext
    <3> QED BY <1>3, <3>3, LookBounds
  <2>5. Others(p)
    BY <1>5, <2>0 DEF Others, TypeOK, ListOK
  <2> QED BY <1>5, <2>1, <2>3, <2>4, <2>5, ProcessStep
<1> QED BY <1>6, <1>7

\* A crash costs at most the time a process may be down.
LEMMA CrashOnTime ==
  ASSUME TypeOK, TypeOK', OnTime, NEW p \in Processes, Crash(p)
  PROVE  OnTime'
<1>1. /\ pc[p] # "down" /\ crashes' = crashes + 1
      /\ UNCHANGED <<clock, state, since, runs, cut, tickAt, task>>
      /\ mark' = [mark EXCEPT ![p] = clock] /\ pc' = [pc EXCEPT ![p] = "down"]
      /\ last' = [last EXCEPT ![p] = [t \in Tasks |-> None]]
      /\ todo' = [todo EXCEPT ![p] = {}] /\ found' = [found EXCEPT ![p] = None]
  BY DEF Crash, Drops, Goes, Marks, flow
<1>2. Clocks(p)
  BY DEF OnTime
<1>3. pc'[p] = "down" /\ mark'[p] = clock /\ clock' = clock /\ last'[p][1] = None /\ found'[p] = None
  BY <1>1, TimeTypes DEF TypeOK, SchedulerOK, ListOK
<1>4. Clocks(p)'
  <2>1. crashes' > 0
    BY <1>1 DEF TypeOK, WorldOK
  <2>2. clock <= clock + MaxDown /\ clock <= clock
    BY TimeTypes
  <2> QED BY <1>3, <2>1, <2>2 DEF Clocks
<1>5. ASSUME NEW w \in Workflows PROVE NextLook(p, w)' \in Nat /\ NextLook(p, w)' <= NextLook(p, w)
  <2>1. Rest \in Nat /\ Rest' \in Nat /\ Rest = Rest' + MaxDown
    BY <1>1, RestDrops
  <2>2. NextLook(p, w)' = clock + MaxDown + Rest'
    BY <1>3, NextLookCasesNext
  <2>3. Walk(task[p]) \in Nat /\ Walk(2) \in Nat
    BY WalkFacts, TimeTypes
  <2>4. clock + Rest <= NextLook(p, w)
    <3>1. CASE pc[p] = "asleep"
      BY <1>2, <2>1, <3>1, TimeTypes, NextLookCases DEF Clocks
    <3>2. CASE pc[p] = "walking"
      BY <2>1, <2>3, <3>2, TimeTypes, NextLookCases
    <3>3. CASE pc[p] = "listing"
      BY <2>1, <2>3, <3>3, TimeTypes, NextLookCases
    <3>4. CASE pc[p] = "busy"
      <4>1. Walk(task[p]) = MaxBusy + Walk(task[p] + 1) /\ Walk(task[p] + 1) \in Nat
        BY <3>4, WalkFacts, TimeTypes
      <4>2. clock <= mark[p] + MaxBusy /\ NextLook(p, w) = mark[p] + Walk(task[p]) + Tick + Rest
        BY <1>2, <3>4, NextLookCases DEF Clocks
      <4> QED BY <2>1, <4>1, <4>2, TimeTypes
    <3> QED BY <1>1, <3>1, <3>2, <3>3, <3>4, TimeTypes
  <2>5. NextLook(p, w) \in Nat
    BY <1>2, LookBounds
  <2> QED BY <2>1, <2>2, <2>4, <2>5, TimeTypes
<1>7. \A w \in Workflows, o \in Times : StillOpen(w, o)' => StillOpen(w, o)
  BY <1>1 DEF StillOpen
<1>8. Others(p)
  BY <1>1 DEF Others, TypeOK, SchedulerOK, ListOK
<1> QED BY <1>1, <1>4, <1>5, <1>7, <1>8, ProcessStep

\* A workflow that is enabled is due no earlier than now.
LEMMA EditOnTime ==
  ASSUME TypeOK, TypeOK', OnTime, NEW x \in Workflows, Edit(x)
  PROVE  OnTime'
<1>1. UNCHANGED <<clock, runs, cut, pc, mark, tickAt, task, last, todo, found, crashes>>
  BY DEF Edit, sched, tick
<1>2. PICK s \in States \ {state[x]} :
        /\ state' = [state EXCEPT ![x] = s]
        /\ since' = IF s = "enabled" THEN [since EXCEPT ![x] = clock] ELSE since
  BY DEF Edit
<1>3. ASSUME NEW p \in Processes, NEW w \in Workflows
      PROVE  Clocks(p)' /\ NextLook(p, w)' = NextLook(p, w)
  <2>1. /\ \A v : PreviousDue(v)' = PreviousDue(v)
        /\ Rest' = Rest
        /\ DueTask(p, 1)' <=> DueTask(p, 1)
    BY <1>1 DEF PreviousDue, Rest, DueTask
  <2>2. Clocks(p)
    BY DEF OnTime
  <2>3. Clocks(p)'
    BY <1>1, <2>1, <2>2 DEF Clocks
  <2>4. NextLook(p, w)' = NextLook(p, w)
    BY <1>1, <2>1, TimeTypes, NextLookCases, NextLookCasesNext
  <2> QED BY <2>3, <2>4
<1>4. ASSUME NEW p \in Processes, NEW w \in Workflows, NEW o \in Times, StillOpen(w, o)'
      PROVE  NextLook(p, w)' <= o + MaxGap
  <2>1. CASE StillOpen(w, o)
    BY <1>3, <2>1 DEF OnTime
  <2>2. CASE ~StillOpen(w, o)
    <3>1. w = x /\ since'[x] = clock /\ clock <= o /\ o <= clock
      <4>1. since[w] > o \/ state[w] # "enabled"
        BY <1>1, <1>4, <2>2, TimeTypes DEF StillOpen, TypeOK, WorldOK, Times
      <4>2. w = x
        BY <1>2, <1>4, <4>1 DEF StillOpen, TypeOK, WorldOK, Times
      <4>3. s = "enabled"
        BY <1>2, <1>4, <4>1, <4>2 DEF StillOpen, TypeOK, WorldOK, Times
      <4> QED BY <1>1, <1>2, <1>4, <4>2, <4>3 DEF StillOpen, TypeOK, WorldOK
    <3>2. NextLook(p, w) <= clock + MaxGap /\ NextLook(p, w) \in Nat /\ MaxGap \in Nat
      BY LookBounds, RestFacts DEF OnTime
    <3> QED BY <1>3, <3>1, <3>2, TimeTypes DEF Times
  <2> QED BY <2>1, <2>2
<1> QED BY <1>3, <1>4 DEF OnTime

\* Time passes only while every process may wait, none beyond what is left to it.
LEMMA AdvanceOnTime ==
  ASSUME TypeOK, TypeOK', OnTime, Advance
  PROVE  OnTime'
<1>1. /\ UNCHANGED <<state, since, runs, cut, pc, mark, tickAt, task, last, todo, found, crashes>>
      /\ clock' = clock + 1 /\ \A p \in Processes : MayWait(p)
  BY DEF Advance, flow, sched, tick
<1>2. ASSUME NEW p \in Processes
      PROVE  Clocks(p)' /\ \A w \in Workflows : NextLook(p, w)' = NextLook(p, w)
  <2>1. Clocks(p) /\ Rest' = Rest
    BY <1>1 DEF OnTime, Rest
  <2>2. MayWait(p)
    BY <1>1
  <2>3. pc[p] \in {"asleep", "busy", "down"}
    BY <2>2 DEF MayWait
  <2>4. found[p] = None
    BY <2>3 DEF TypeOK, ListOK
  <2>5. Clocks(p)'
    BY <1>1, <2>1, <2>2, <2>3, <2>4, TimeTypes DEF Clocks, MayWait
  <2>6. \A w \in Workflows : NextLook(p, w)' = NextLook(p, w)
    BY <1>1, <2>1, <2>3, NextLookCases, NextLookCasesNext
  <2> QED BY <2>5, <2>6
<1>3. ASSUME NEW p \in Processes, NEW w \in Workflows, NEW o \in Times, StillOpen(w, o)'
      PROVE  NextLook(p, w)' <= o + MaxGap
  <2>1. CASE StillOpen(w, o)
    BY <1>2, <2>1 DEF OnTime
  <2>2. CASE ~StillOpen(w, o)
    <3>1. clock <= o
      BY <1>1, <1>3, <2>2, TimeTypes DEF StillOpen, Times
    <3>2. NextLook(p, w) <= clock + MaxGap /\ NextLook(p, w) \in Nat /\ MaxGap \in Nat
      BY LookBounds, RestFacts DEF OnTime
    <3> QED BY <1>2, <3>1, <3>2, TimeTypes DEF Times
  <2> QED BY <2>1, <2>2
<1> QED BY <1>2, <1>3 DEF OnTime

\* At the start everyone wakes within a tick.
LEMMA InitOnTime ==
  ASSUME Timely, Init
  PROVE  OnTime
<1>1. TypeOK
  BY InitType
<1>2. ASSUME NEW p \in Processes PROVE Clocks(p)
  BY <1>1, <1>2, TimeTypes DEF Init, Clocks
<1>3. ASSUME NEW p \in Processes, NEW w \in Workflows, NEW o \in Times
      PROVE  NextLook(p, w) <= o + MaxGap
  <2>1. NextLook(p, w) <= 0 + MaxGap /\ NextLook(p, w) \in Nat /\ MaxGap \in Nat
    BY <1>1, <1>2, LookBounds, RestFacts DEF Init
  <2> QED BY <2>1 DEF Times
<1> QED BY <1>2, <1>3 DEF OnTime

\* Every step keeps the schedule.
LEMMA StepOnTime ==
  ASSUME Timely, TypeOK, OnTime, [Next]_vars
  PROVE  OnTime'
<1>1. TypeOK'
  BY StepType
<1>2. ASSUME NEW p \in Processes, Step(p) PROVE OnTime'
  BY <1>1, <1>2, WakeOnTime, SkipOnTime, RunOnTime, TaskEndsOnTime, SleepOnTime, ExamineOnTime,
     EnqueueOnTime, ListedOnTime, StartOnTime DEF Step
<1>3. ASSUME UNCHANGED vars PROVE OnTime'
  <2>1. UNCHANGED <<clock, state, since, runs, cut, pc, mark, tickAt, task, last, todo, found, crashes>>
    BY <1>3 DEF vars, flow, sched, tick
  <2>2. \A p \in Processes : Clocks(p) => Clocks(p)'
    BY <2>1 DEF Clocks, PreviousDue, DueTask
  <2>3. \A p \in Processes, w \in Workflows : NextLook(p, w)' = NextLook(p, w)
    <3>1. Rest' = Rest
      BY <2>1 DEF Rest
    <3> QED BY <2>1, <3>1, TimeTypes, NextLookCases, NextLookCasesNext
  <2>4. \A w \in Workflows, o \in Times : StillOpen(w, o)' => StillOpen(w, o)
    BY <2>1 DEF StillOpen
  <2> QED BY <2>2, <2>3, <2>4 DEF OnTime
<1> QED BY <1>1, <1>2, <1>3, CrashOnTime, EditOnTime, AdvanceOnTime DEF Next, Over

\* Over crashes, long tasks and workflows enabled at any time, the loop of any one
\* process comes back to an enabled workflow before the lookback or the next due
\* time has passed: no due time is missed, unless a tick was cut short.
THEOREM NoneIsMissed == Timely => (Spec => []NoneMissed)
<1> SUFFICES ASSUME Timely PROVE Spec => []NoneMissed
  OBVIOUS
<1>1. Init => TypeOK /\ OnTime
  BY InitType, InitOnTime
<1>2. TypeOK /\ OnTime /\ [Next]_vars => (TypeOK /\ OnTime)'
  BY StepType, StepOnTime
<1>3. TypeOK /\ OnTime => NoneMissed
  <2> SUFFICES ASSUME TypeOK, OnTime, NEW w \in Workflows, NEW o \in Times,
                      Due(w, o), ~(runs[w][o] > 0), o \notin cut[w]
               PROVE  FALSE
    BY DEF NoneMissed
  <2>1. /\ MaxGap \in Nat /\ o \in Nat /\ clock \in Nat /\ Lookback \in Nat
        /\ Every[w] \in Nat \ {0} /\ MaxGap < Every[w] /\ MaxGap <= Lookback
    <3>1. clock \in Nat /\ o \in Nat
      BY DEF Times, TypeOK, WorldOK
    <3> QED BY <3>1, RestFacts, SchedulesAssumption DEF Timely
  <2>2. o <= clock
    BY <2>1 DEF Due
  <2>3. StillOpen(w, o)
    <3>1. runs[w][o] \in Nat
      BY DEF TypeOK, WorldOK
    <3> QED BY <2>2, <3>1 DEF Due, StillOpen
  <2>4. PICK p \in Processes : TRUE
    BY SchedulesAssumption
  <2>5. NextLook(p, w) <= o + MaxGap /\ clock <= NextLook(p, w) /\ NextLook(p, w) \in Nat
    BY <2>3, LookBounds DEF OnTime
  <2> QED BY <2>1, <2>5 DEF Due
<1> QED BY <1>1, <1>2, <1>3, PTL DEF Spec
================================================================================
