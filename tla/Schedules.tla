------------------------------- MODULE Schedules -------------------------------
(***************************************************************************)
(* The scheduler loop of every server process, and the tick in which it    *)
(* enqueues the runs of the workflows whose cron schedule is due.          *)
(*                                                                         *)
(* Each process runs its own DynamicScheduler over the one database.  Time *)
(* is a clock that advances only when no process has work to do at once:   *)
(* what takes time is a sleep, a long task, and a process being down.      *)
(***************************************************************************)
EXTENDS Integers, FiniteSets

CONSTANTS
  Processes,
  Workflows,   \* numbers, in the order the query lists them
  Invalid,     \* those whose cron expression croniter rejects
  Every,       \* Every[w]: w is due at the multiples of this
  LastTask,    \* number of registered tasks, the workflow tick being the first
  Interval,    \* interval_seconds of each
  Tick,        \* tick_seconds
  Lookback,    \* lookback_seconds
  MaxBusy,     \* how long a task other than the first may take
  MaxDown,     \* how long a process may be down
  Crashes, Edits, Horizon,  \* bounds
  None         \* no time, no due time

ASSUME SchedulesAssumption ==
  /\ IsFiniteSet(Processes) /\ Processes # {}
  /\ Workflows \subseteq Nat /\ IsFiniteSet(Workflows) /\ Invalid \subseteq Workflows
  /\ Every \in [Workflows -> Nat \ {0}]
  /\ LastTask \in Nat \ {0} /\ Interval \in [1..LastTask -> Nat]
  /\ Tick \in Nat /\ Lookback \in Nat /\ MaxBusy \in Nat /\ MaxDown \in Nat
  /\ Crashes \in Nat /\ Edits \in Nat /\ Horizon \in Nat

VARIABLES
  clock,
  state,      \* of every workflow: enabled, disabled or deleted
  since,      \* history: when it was last enabled
  runs,       \* runs[w][o]: the cron runs of w for its due time o
  cut,        \* history: for every workflow, due times a tick could have fired, had it not been cut short
  pc,         \* where every scheduler is
  mark,       \* when it wakes, or since when it is busy or down
  tickAt,     \* now, as the tick read it
  task,       \* the task the tick has come to
  last,       \* last_run_ts of the tasks
  todo,       \* the workflows this tick has listed and not examined
  found,      \* the due time it is about to enqueue a run for
  refreshed,  \* whether a commit has made it reread what it listed
  crashes, edits

flow  == <<state, since, edits>>
sched == <<pc, mark, tickAt, task, last>>
tick  == <<todo, found, refreshed>>
vars  == <<clock, flow, runs, cut, sched, tick, crashes>>

Times == 0..Horizon
Tasks == 1..LastTask
States == {"enabled", "disabled", "deleted"}
Finds == [workflow : Workflows, due : Times, seen : States]

WorldOK ==
  /\ clock \in Times
  /\ state \in [Workflows -> States] /\ since \in [Workflows -> Times]
  /\ runs \in [Workflows -> [Times -> Nat]] /\ cut \in [Workflows -> SUBSET Times]
  /\ crashes \in 0..Crashes /\ edits \in 0..Edits

SchedulerOK ==
  /\ pc \in [Processes -> {"asleep", "walking", "listing", "busy", "down"}]
  /\ mark \in [Processes -> Nat] /\ tickAt \in [Processes -> Times]
  /\ task \in [Processes -> 1..(LastTask + 1)]
  /\ \A p \in Processes : pc[p] \in {"listing", "busy"} => task[p] \in Tasks
  /\ last \in [Processes -> [Tasks -> {None} \cup Times]]

ListOK ==
  /\ todo \in [Processes -> SUBSET Workflows]
  /\ found \in [Processes -> {None} \cup Finds]
  /\ \A p \in Processes : todo[p] # {} \/ found[p] # None => pc[p] = "listing"
  /\ refreshed \in [Processes -> BOOLEAN]

TypeOK == WorldOK /\ SchedulerOK /\ ListOK

Init ==
  /\ clock = 0
  /\ state = [w \in Workflows |-> "enabled"] /\ since = [w \in Workflows |-> 0]
  /\ runs = [w \in Workflows |-> [o \in Times |-> 0]] /\ cut = [w \in Workflows |-> {}]
  /\ pc = [p \in Processes |-> "asleep"] /\ mark \in [Processes -> 0..Tick]
  /\ tickAt = [p \in Processes |-> 0] /\ task = [p \in Processes |-> 1]
  /\ last = [p \in Processes |-> [t \in Tasks |-> None]]
  /\ todo = [p \in Processes |-> {}] /\ found = [p \in Processes |-> None]
  /\ refreshed = [p \in Processes |-> FALSE]
  /\ crashes = 0 /\ edits = 0

--------------------------------------------------------------------------------
(* DynamicScheduler.                                                       *)

Goes(p, where) == pc' = [pc EXCEPT ![p] = where]
Marks(p, t)    == mark' = [mark EXCEPT ![p] = t]
NextTask(p)    == task' = [task EXCEPT ![p] = @ + 1]

Wake(p) ==
  /\ pc[p] = "asleep" /\ clock >= mark[p]
  /\ tickAt' = [tickAt EXCEPT ![p] = clock] /\ task' = [task EXCEPT ![p] = 1]
  /\ Goes(p, "walking")
  /\ UNCHANGED <<clock, flow, runs, cut, mark, last, tick, crashes>>

\* Only the first task, the workflow tick, has run_immediately.
DueTask(p, t) ==
  IF last[p][t] = None THEN t = 1 ELSE tickAt[p] - last[p][t] >= Interval[t]

SkipTask(p) ==
  /\ pc[p] = "walking" /\ task[p] \in Tasks /\ ~DueTask(p, task[p])
  /\ last' = [last EXCEPT ![p][task[p]] = IF @ = None THEN tickAt[p] ELSE @]
  /\ NextTask(p)
  /\ UNCHANGED <<clock, flow, runs, cut, pc, mark, tickAt, tick, crashes>>

\* _run_task: the workflow tick lists what is enabled, any other is busy a while.
RunTask(p) ==
  /\ pc[p] = "walking" /\ task[p] \in Tasks /\ DueTask(p, task[p])
  /\ last' = [last EXCEPT ![p][task[p]] = clock]
  /\ \/ /\ task[p] = 1
        /\ todo' = [todo EXCEPT ![p] = {w \in Workflows : state[w] = "enabled"}]
        /\ refreshed' = [refreshed EXCEPT ![p] = FALSE]
        /\ Goes(p, "listing")
        /\ UNCHANGED mark
     \/ /\ task[p] # 1
        /\ Marks(p, clock)
        /\ Goes(p, "busy")
        /\ UNCHANGED <<todo, refreshed>>
  /\ UNCHANGED <<clock, flow, runs, cut, tickAt, task, found, crashes>>

\* It returns or raises, all the same to the scheduler.
TaskEnds(p) ==
  /\ pc[p] = "busy"
  /\ Goes(p, "walking") /\ NextTask(p)
  /\ UNCHANGED <<clock, flow, runs, cut, mark, tickAt, last, tick, crashes>>

Sleep(p) ==
  /\ pc[p] = "walking" /\ task[p] \notin Tasks
  /\ Goes(p, "asleep") /\ Marks(p, clock + Tick)
  /\ UNCHANGED <<clock, flow, runs, cut, tickAt, task, last, tick, crashes>>

--------------------------------------------------------------------------------
(* WorkflowFactory.tick.                                                   *)

\* croniter.get_prev.
PreviousDue(w) == clock - (clock % Every[w])

InWindow(w) == clock - PreviousDue(w) <= Lookback

Drops(p) == todo' = [todo EXCEPT ![p] = {}] /\ found' = [found EXCEPT ![p] = None]

\* An exception leaves the loop: what is still to be examined is not.
Abort(p) ==
  /\ Drops(p)
  /\ cut' = [w \in Workflows |->
               IF w \in todo[p] /\ InWindow(w) THEN cut[w] \cup {PreviousDue(w)} ELSE cut[w]]
  /\ Goes(p, "walking") /\ NextTask(p)
  /\ UNCHANGED <<runs, refreshed>>

\* Slip: a run is enqueued without looking for one that exists.
FiredIgnored(w) == FALSE

\* Slip: any earlier cron run of the workflow counts.
FiredEver(w) == \E o \in Times : runs[w][o] > 0

\* exists_scheduled_run.
Fired(w) == runs[w][PreviousDue(w)] > 0

Examine(p) ==
  /\ pc[p] = "listing" /\ found[p] = None
  /\ \E w \in todo[p] :
       /\ \A x \in todo[p] : w <= x
       /\ \/ w \in Invalid /\ Abort(p)
          \/ /\ w \notin Invalid /\ InWindow(w) /\ ~Fired(w)
             /\ found' = [found EXCEPT ![p] =
                            [workflow |-> w, due |-> PreviousDue(w),
                             seen |-> IF refreshed[p] THEN state[w] ELSE "enabled"]]
             /\ UNCHANGED <<runs, cut, todo, refreshed, pc, task>>
          \/ /\ w \notin Invalid /\ (InWindow(w) => Fired(w))
             /\ todo' = [todo EXCEPT ![p] = @ \ {w}]
             /\ UNCHANGED <<runs, cut, found, refreshed, pc, task>>
  /\ UNCHANGED <<clock, flow, mark, tickAt, last, crashes>>

\* enqueue_run for w, seen in state s: 404 if it is deleted, 409 if it is
\* disabled as far as the session knows.
Enqueue(p) ==
  /\ pc[p] = "listing" /\ found[p] # None
  /\ LET w == found[p].workflow
         o == found[p].due
         s == found[p].seen
     IN  \/ (state[w] = "deleted" \/ s # "enabled") /\ Abort(p)
         \/ /\ state[w] # "deleted" /\ s = "enabled"
            /\ runs' = [runs EXCEPT ![w][o] = @ + 1]
            /\ todo' = [todo EXCEPT ![p] = @ \ {w}]
            /\ found' = [found EXCEPT ![p] = None]
            /\ refreshed' = [refreshed EXCEPT ![p] = TRUE]
            /\ UNCHANGED <<cut, pc, task>>
  /\ UNCHANGED <<clock, flow, mark, tickAt, last, crashes>>

Listed(p) ==
  /\ pc[p] = "listing" /\ todo[p] = {} /\ found[p] = None
  /\ Goes(p, "walking") /\ NextTask(p)
  /\ UNCHANGED <<clock, flow, runs, cut, mark, tickAt, last, tick, crashes>>

--------------------------------------------------------------------------------
(* What happens around them.                                               *)

Crash(p) ==
  /\ pc[p] # "down" /\ crashes < Crashes /\ crashes' = crashes + 1
  /\ Goes(p, "down") /\ Marks(p, clock)
  /\ last' = [last EXCEPT ![p] = [t \in Tasks |-> None]]
  /\ Drops(p)
  /\ UNCHANGED <<clock, flow, runs, cut, tickAt, task, refreshed>>

\* The lifespan of the application starts a scheduler, which ticks at once.
Start(p) ==
  /\ pc[p] = "down"
  /\ Goes(p, "asleep") /\ Marks(p, clock)
  /\ UNCHANGED <<clock, flow, runs, cut, tickAt, task, last, tick, crashes>>

\* A workflow is enabled, disabled or deleted.
Edit(w) ==
  /\ edits < Edits /\ edits' = edits + 1
  /\ state[w] # "deleted"
  /\ \E s \in States \ {state[w]} :
       /\ state' = [state EXCEPT ![w] = s]
       /\ since' = IF s = "enabled" THEN [since EXCEPT ![w] = clock] ELSE since
  /\ UNCHANGED <<clock, runs, cut, sched, tick, crashes>>

MayWait(p) ==
  \/ pc[p] = "asleep" /\ clock < mark[p]
  \/ pc[p] = "busy" /\ clock - mark[p] < MaxBusy
  \/ pc[p] = "down" /\ clock - mark[p] < MaxDown

Advance ==
  /\ clock < Horizon /\ \A p \in Processes : MayWait(p)
  /\ clock' = clock + 1
  /\ UNCHANGED <<flow, runs, cut, sched, tick, crashes>>

Over == clock = Horizon /\ UNCHANGED vars

Step(p) ==
  \/ Wake(p) \/ SkipTask(p) \/ RunTask(p) \/ TaskEnds(p) \/ Sleep(p)
  \/ Examine(p) \/ Enqueue(p) \/ Listed(p) \/ Start(p)

Next ==
  \/ \E p \in Processes : Step(p) \/ Crash(p)
  \/ \E w \in Workflows : Edit(w)
  \/ Advance \/ Over

Spec == Init /\ [][Next]_vars

--------------------------------------------------------------------------------
\* exists_scheduled_run and the insert are two steps, of several processes: a due
\* time has at most as many runs as there are processes, however their ticks
\* interleave, and whoever crashes and starts again.  With one process that is
\* once.
Firing(w, o) == {p \in Processes : found[p] # None /\ found[p].workflow = w /\ found[p].due = o}

OncePerProcess ==
  \A w \in Workflows, o \in Times :
    runs[w][o] + Cardinality(Firing(w, o)) <= Cardinality(Processes)

\* w was enabled at o and since, and the time in which a tick could have fired
\* it is over.
Due(w, o) ==
  /\ o % Every[w] = 0 /\ state[w] = "enabled" /\ since[w] <= o
  /\ clock > o + Lookback \/ clock >= o + Every[w]

\* The longest a process goes without a look at the workflows: a sleep, the other
\* tasks of a tick and the time it is down.  The schedules and the lookback leave
\* room for that.
MaxGap == Tick + (LastTask - 1) * MaxBusy + Crashes * MaxDown
Timely ==
  /\ Interval[1] <= Tick
  /\ MaxGap <= Lookback /\ \A w \in Workflows : MaxGap < Every[w]

\* A due time is not missed, over crashes, tasks that hold up the loop and
\* workflows disabled in the middle of a tick, unless a tick was cut short by an
\* exception about another workflow before it came to it.  This needs Timely.
NoneMissed ==
  \A w \in Workflows, o \in Times : Due(w, o) => runs[w][o] > 0 \/ o \in cut[w]

\* docs/guide/workflows.md, "A workflow can run on a cron schedule (Schedule
\* modal) so it fires automatically": every due time of an enabled workflow with
\* a valid expression.
FiresAutomatically ==
  \A w \in Workflows \ Invalid, o \in Times : Due(w, o) => runs[w][o] > 0
================================================================================
