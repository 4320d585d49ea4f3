------------------------------- MODULE Transfers -------------------------------
(***************************************************************************)
(* The Transfer Hub: what moves the files of the routes.  The pollers are  *)
(* the transfer_poll ticks of the server processes, in threads; requesters *)
(* run a route by hand.  Each works in a session of its own, whose changes *)
(* to the records are written when its pass commits.                       *)
(*                                                                         *)
(* A file is a path of one FROM endpoint, and its content the number of    *)
(* the time it was put there.  The names of files differ, so that one is   *)
(* not written over another at a TO endpoint.                              *)
(***************************************************************************)
EXTENDS Naturals

CONSTANTS
  Pollers, Requesters,
  Routes,      \* numbers, in the order the queries list them
  Crons,       \* those with a schedule_cron
  Invalid,     \* those whose schedule_cron croniter rejects
  Bare,        \* routes without a FROM or a TO endpoint
  Files,       \* numbers, in the order iter_files lists them
  Froms, Tos,  \* numbers of FROM and TO endpoints of the other routes
  Source,      \* Source[f]: route and FROM endpoint of f
  Blind,       \* files whose connector lists them whether they exist or not
  Fixed,       \* files whose connector has no delete()
  Puts, Mishaps, Requests, Boundaries,   \* bounds
  None

ASSUME TransfersAssumption ==
  /\ Routes \subseteq Nat /\ Crons \subseteq Routes /\ Invalid \subseteq Crons
  /\ Bare \subseteq Routes /\ Files \subseteq Nat
  /\ Froms \in Nat \ {0} /\ Tos \in Nat \ {0}
  /\ Source \in [Files -> (Routes \ Bare) \X (1..Froms)]
  /\ Blind \subseteq Files /\ Fixed \subseteq Files
  /\ Puts \in Nat /\ Mishaps \in Nat /\ Requests \in Nat /\ Boundaries \in Nat
  /\ None \notin Nat

VARIABLES
  overwrites,  \* whether files are put over files that wait
  file,        \* content of every file, 0 if there is none
  made,        \* how many times it was put
  got,         \* history: the TO endpoints that got f as it was last put
  lost,        \* history: files deleted that not every TO endpoint had got
  status,      \* of every record; "deleted" when there is none
  lastRun,     \* last_run_at, the number of cron boundaries by then
  now,         \* cron boundaries passed
  pc, mode,    \* where an actor is, and what it does
  recs,        \* the records its query returned and it has not come to
  rec, from,   \* the record and FROM endpoint it is at
  listed,      \* the files of the endpoint it has not come to
  cur, data,   \* the file it has read, and its content
  to,          \* the TO endpoint it comes to
  errs, ran,   \* records it will commit as ERROR, and as run
  seenNow,     \* now, as it read it
  shared,      \* history: the routes that two actors were at at once
  puts, faults, crashes, requests

world  == <<file, made, got, lost>>
table  == <<status, lastRun>>
at     == <<rec, from, listed, cur, data, to>>
sess   == <<errs, ran, seenNow>>
bounds == <<shared, puts, crashes, requests>>
vars   == <<overwrites, world, table, now, pc, mode, recs, at, sess, faults, bounds>>

Actors   == Pollers \cup Requesters
Contents == 0..Puts

TypeOK ==
  /\ overwrites \in BOOLEAN /\ shared \subseteq Routes
  /\ puts \in Contents /\ made \in [Files -> 0..puts]
  /\ file \in [Files -> Contents]
  /\ \A f \in Files : file[f] \in {0, made[f]}
  /\ got \in [Files -> SUBSET (1..Tos)] /\ lost \subseteq Files
  /\ status \in [Routes -> {"ACTIVE", "INACTIVE", "ERROR", "deleted"}]
  /\ lastRun \in [Routes -> {None} \cup 0..Boundaries] /\ now \in 0..Boundaries
  /\ pc \in [Actors -> {"idle", "pick", "list", "read", "write", "delete", "commit"}]
  /\ mode \in [Actors -> {"cron", "watch", "manual"}]
  /\ recs \in [Actors -> SUBSET Routes] /\ rec \in [Actors -> Routes \cup {None}]
  /\ \A x \in Actors : pc[x] \in {"list", "read", "write", "delete"} => rec[x] \in Routes
  /\ from \in [Actors -> 1..Froms] /\ listed \in [Actors -> SUBSET Files]
  /\ cur \in [Actors -> Files \cup {None}]
  /\ \A x \in Actors : pc[x] \in {"write", "delete"} => cur[x] \in listed[x]
  /\ data \in [Actors -> Contents] /\ to \in [Actors -> 1..Tos]
  /\ errs \in [Actors -> SUBSET Routes] /\ ran \in [Actors -> SUBSET Routes]
  /\ seenNow \in [Actors -> 0..Boundaries]
  /\ faults \in Nat /\ crashes \in Nat /\ faults + crashes <= Mishaps /\ requests \in 0..Requests

Init ==
  /\ overwrites \in BOOLEAN /\ shared = {}
  /\ file = [f \in Files |-> 0] /\ made = [f \in Files |-> 0]
  /\ got = [f \in Files |-> {}] /\ lost = {}
  /\ status = [r \in Routes |-> "ACTIVE"] /\ lastRun = [r \in Routes |-> None] /\ now = 0
  /\ pc = [x \in Actors |-> "idle"] /\ mode = [x \in Actors |-> "manual"]
  /\ recs = [x \in Actors |-> {}] /\ rec = [x \in Actors |-> None]
  /\ from = [x \in Actors |-> 1] /\ listed = [x \in Actors |-> {}]
  /\ cur = [x \in Actors |-> None] /\ data = [x \in Actors |-> 0] /\ to = [x \in Actors |-> 1]
  /\ errs = [x \in Actors |-> {}] /\ ran = [x \in Actors |-> {}]
  /\ seenNow = [x \in Actors |-> 0]
  /\ puts = 0 /\ faults = 0 /\ crashes = 0 /\ requests = 0

--------------------------------------------------------------------------------
Goes(x, where) == pc' = [pc EXCEPT ![x] = where]
IsFirst(n, S)  == n \in S /\ \A m \in S : n <= m
Fault          == faults + crashes < Mishaps /\ faults' = faults + 1
Request        == requests < Requests /\ requests' = requests + 1
Active(S)      == {r \in S : status[r] = "ACTIVE"}

\* The actor comes to a record.
Enters(x, r) ==
  /\ Goes(x, "list") /\ rec' = [rec EXCEPT ![x] = r]
  /\ shared' = IF \E y \in Actors \ {x} : rec[y] = r THEN shared \cup {r} ELSE shared

\* A pass forgets the record it was at.
Leaves(x) ==
  /\ rec' = [rec EXCEPT ![x] = None] /\ from' = [from EXCEPT ![x] = 1]
  /\ listed' = [listed EXCEPT ![x] = {}] /\ cur' = [cur EXCEPT ![x] = None]
  /\ data' = [data EXCEPT ![x] = 0] /\ to' = [to EXCEPT ![x] = 1]

\* run_scheduled: what it arms and what is due follows from the rows it read; an
\* invalid cron is armed, and never due.
BeginTick(x) ==
  /\ pc[x] = "idle" /\ x \in Pollers
  /\ Goes(x, "pick") /\ mode' = [mode EXCEPT ![x] = "cron"]
  /\ seenNow' = [seenNow EXCEPT ![x] = now]
  /\ ran' = [ran EXCEPT ![x] = {r \in Active(Crons) : lastRun[r] = None}]
  /\ recs' = [recs EXCEPT ![x] = {r \in Active(Crons) : r \notin Invalid /\ lastRun[r] \notin {None, now}}]
  /\ UNCHANGED <<overwrites, world, table, now, at, errs, faults, bounds>>

\* run_record, by hand, whatever the status.
BeginRun(x, r) ==
  /\ pc[x] = "idle" /\ x \in Requesters /\ status[r] # "deleted"
  /\ Enters(x, r) /\ mode' = [mode EXCEPT ![x] = "manual"]
  /\ Request
  /\ UNCHANGED <<overwrites, world, table, now, recs, from, listed, cur, data, to, sess, puts, faults, crashes>>

Pick(x) ==
  /\ pc[x] = "pick"
  /\ \E r \in Routes :
       /\ IsFirst(r, recs[x])
       /\ recs' = [recs EXCEPT ![x] = @ \ {r}]
       /\ Enters(x, r)
  /\ UNCHANGED <<overwrites, world, table, now, mode, from, listed, cur, data, to, sess, puts, faults, crashes, requests>>

AfterRecord(x) == IF mode[x] = "manual" THEN "commit" ELSE "pick"

\* The except clauses: the record is to become ERROR.
Raises(x) ==
  /\ errs' = [errs EXCEPT ![x] = @ \cup {rec[x]}]
  /\ Goes(x, AfterRecord(x)) /\ Leaves(x)
  /\ UNCHANGED <<world, ran>>

\* poll_record returned: a scheduled record has run.
RecordDone(x) ==
  /\ ran' = IF mode[x] = "cron" THEN [ran EXCEPT ![x] = @ \cup {rec[x]}] ELSE ran
  /\ Goes(x, AfterRecord(x)) /\ Leaves(x)
  /\ UNCHANGED errs

\* A route without a FROM or a TO endpoint is skipped.
Skip(x) ==
  /\ pc[x] = "list" /\ rec[x] \in Bare
  /\ RecordDone(x)
  /\ UNCHANGED <<overwrites, world, table, now, mode, recs, seenNow, faults, bounds>>

Here(x) == {f \in Files : Source[f] = <<rec[x], from[x]>>}

\* Slip: what the endpoint may hold is taken to be there.
Expected(x) == Here(x)

\* iter_files.
Waiting(x) == {f \in Here(x) : file[f] # 0 \/ f \in Blind}

List(x) ==
  /\ pc[x] = "list" /\ rec[x] \notin Bare
  /\ \/ Fault /\ Raises(x)
     \/ /\ listed' = [listed EXCEPT ![x] = Waiting(x)]
        /\ Goes(x, "read")
        /\ UNCHANGED <<world, rec, from, cur, data, to, errs, ran, faults>>
  /\ UNCHANGED <<overwrites, table, now, mode, recs, seenNow, bounds>>

Read(x) ==
  /\ pc[x] = "read"
  /\ \E f \in Files :
       /\ IsFirst(f, listed[x])
       /\ \/ (Fault \/ (file[f] = 0 /\ UNCHANGED faults)) /\ Raises(x)
          \/ /\ file[f] # 0
             /\ cur' = [cur EXCEPT ![x] = f] /\ data' = [data EXCEPT ![x] = file[f]]
             /\ Goes(x, "write")
             /\ UNCHANGED <<world, rec, from, listed, to, errs, ran, faults>>
  /\ UNCHANGED <<overwrites, table, now, mode, recs, seenNow, bounds>>

\* This file is done.
NextFile(x) ==
  /\ listed' = [listed EXCEPT ![x] = @ \ {cur[x]}]
  /\ cur' = [cur EXCEPT ![x] = None] /\ data' = [data EXCEPT ![x] = 0]
  /\ Goes(x, "read")

\* Slip: what follows the first FROM endpoint is not looked at.
AnyFrom(x) == TRUE

LastFrom(x) == from[x] = Froms

\* The files of this endpoint are done.
NextFrom(x) ==
  /\ pc[x] = "read" /\ listed[x] = {}
  /\ \/ /\ ~LastFrom(x)
        /\ from' = [from EXCEPT ![x] = @ + 1]
        /\ Goes(x, "list")
        /\ UNCHANGED <<rec, listed, cur, data, to, errs, ran>>
     \/ LastFrom(x) /\ RecordDone(x)
  /\ UNCHANGED <<overwrites, world, table, now, mode, recs, seenNow, faults, bounds>>

\* Slip: the source is deleted once it has been written anywhere.
FirstTo(x) == to[x] = 1

LastTo(x) == to[x] = Tos

\* The content is at the TO endpoint.
Arrives(x) ==
  got' = IF data[x] = made[cur[x]] THEN [got EXCEPT ![cur[x]] = @ \cup {to[x]}] ELSE got

\* The next TO endpoint; after the last, a file is deleted unless run by hand.
NextTo(x) ==
  \/ /\ ~LastTo(x)
     /\ to' = [to EXCEPT ![x] = @ + 1]
     /\ UNCHANGED <<pc, listed, cur, data>>
  \/ /\ LastTo(x)
     /\ to' = [to EXCEPT ![x] = 1]
     /\ \/ mode[x] = "manual" /\ NextFile(x)
        \/ mode[x] # "manual" /\ Goes(x, "delete") /\ UNCHANGED <<listed, cur, data>>

Write(x) ==
  /\ pc[x] = "write"
  /\ \/ Fault /\ Raises(x)
     \/ Arrives(x) /\ NextTo(x) /\ UNCHANGED <<file, made, lost, rec, from, errs, ran, faults>>
  /\ UNCHANGED <<overwrites, table, now, mode, recs, seenNow, bounds>>

\* The source is gone.
Removes(x) ==
  /\ file' = [file EXCEPT ![cur[x]] = 0]
  /\ lost' = IF file[cur[x]] # 0 /\ got[cur[x]] # 1..Tos THEN lost \cup {cur[x]} ELSE lost

\* delete(): it may raise, on a file that is gone too, or fail unnoticed.
Delete(x) ==
  /\ pc[x] = "delete"
  /\ \/ cur[x] \in Fixed /\ RecordDone(x) /\ UNCHANGED <<world, faults>>
     \/ cur[x] \notin Fixed /\ (Fault \/ (file[cur[x]] = 0 /\ UNCHANGED faults)) /\ Raises(x)
     \/ /\ cur[x] \notin Fixed
        /\ (Fault /\ UNCHANGED <<file, lost>>) \/ (Removes(x) /\ UNCHANGED faults)
        /\ NextFile(x)
        /\ UNCHANGED <<made, got, rec, from, to, errs, ran>>
  /\ UNCHANGED <<overwrites, table, now, mode, recs, seenNow, bounds>>

\* A row that is gone fails the commit, and with it everything in the session.
Saves(x) == \A r \in errs[x] \cup ran[x] : status[r] # "deleted"

CommitRows(x) ==
  /\ status' = [r \in Routes |-> IF r \in errs[x] THEN "ERROR" ELSE status[r]]
  /\ lastRun' = [r \in Routes |-> IF r \in ran[x] THEN seenNow[x] ELSE lastRun[r]]

\* The pass ends; after run_scheduled comes poll_active, unless that raised.
Commit(x) ==
  /\ pc[x] = "commit" \/ (pc[x] = "pick" /\ recs[x] = {})
  /\ IF Saves(x) THEN CommitRows(x) ELSE UNCHANGED table
  /\ errs' = [errs EXCEPT ![x] = {}] /\ ran' = [ran EXCEPT ![x] = {}]
  /\ seenNow' = [seenNow EXCEPT ![x] = 0]
  /\ IF mode[x] = "cron" /\ Saves(x)
     THEN /\ mode' = [mode EXCEPT ![x] = "watch"]
          /\ recs' = [recs EXCEPT ![x] = {r \in Routes \ Crons : status'[r] = "ACTIVE"}]
          /\ Goes(x, "pick")
     ELSE /\ mode' = [mode EXCEPT ![x] = "manual"]
          /\ Goes(x, "idle")
          /\ UNCHANGED recs
  /\ UNCHANGED <<overwrites, world, now, at, faults, bounds>>

--------------------------------------------------------------------------------
(* What happens around them.                                               *)

Crash(x) ==
  /\ pc[x] # "idle" /\ faults + crashes < Mishaps /\ crashes' = crashes + 1
  /\ Goes(x, "idle") /\ mode' = [mode EXCEPT ![x] = "manual"]
  /\ recs' = [recs EXCEPT ![x] = {}] /\ Leaves(x)
  /\ errs' = [errs EXCEPT ![x] = {}] /\ ran' = [ran EXCEPT ![x] = {}]
  /\ seenNow' = [seenNow EXCEPT ![x] = 0]
  /\ UNCHANGED <<overwrites, world, table, now, puts, faults, shared, requests>>

\* A file arrives, where there is none or over one that waits.
Put(f) ==
  /\ puts < Puts /\ puts' = puts + 1
  /\ file[f] = 0 \/ overwrites
  /\ made' = [made EXCEPT ![f] = @ + 1] /\ file' = [file EXCEPT ![f] = made'[f]]
  /\ got' = [got EXCEPT ![f] = {}]
  /\ UNCHANGED <<overwrites, lost, table, now, pc, mode, recs, at, sess, faults, shared, crashes, requests>>

\* update_record, set_record_status and delete_record.
Edit(r) ==
  /\ Request
  /\ status[r] # "deleted"
  /\ \E s \in {"ACTIVE", "INACTIVE", "deleted"} : status' = [status EXCEPT ![r] = s]
  /\ UNCHANGED <<overwrites, world, lastRun, now, pc, mode, recs, at, sess, puts, faults, shared, crashes>>

Boundary ==
  /\ now < Boundaries /\ now' = now + 1
  /\ UNCHANGED <<overwrites, world, table, pc, mode, recs, at, sess, faults, bounds>>

Pass(x) ==
  \/ Pick(x) \/ Skip(x) \/ List(x) \/ Read(x) \/ NextFrom(x) \/ Write(x) \/ Delete(x) \/ Commit(x)

Next ==
  \/ \E x \in Actors : BeginTick(x) \/ Pass(x) \/ Crash(x) \/ \E r \in Routes : BeginRun(x, r)
  \/ \E f \in Files : Put(f)
  \/ \E r \in Routes : Edit(r)
  \/ Boundary

Spec == Init /\ [][Next]_vars

\* The scheduler runs the tick again and again, and what it calls returns.
Fairness == \A x \in Pollers : WF_vars(BeginTick(x)) /\ WF_vars(Pass(x))

FairSpec == Spec /\ Fairness

--------------------------------------------------------------------------------
OnePoller == \A x, y \in Pollers : x = y

\* transfer_engine.py, poll_record: "read -> write to every TO -> delete the
\* source".  With one process and no file put over one that waits, a file is
\* deleted only when every TO endpoint has got it, whatever fails, crashes, is
\* edited or run by hand in between.
NothingLost == OnePoller /\ ~overwrites => lost = {}

\* Any exception makes a route ERROR, that of a file that went between its listing
\* and its reading or deletion too.  So while no connector fails, and the connectors
\* list what exists, only a route that two passes were at at once becomes ERROR:
\* whatever the number of processes and manual runs, and whatever is edited.
ErrorForAReason ==
  Blind = {} /\ faults = 0 => \A r \in Routes \ shared : status[r] # "ERROR"

\* A file that waits on a watched route is moved, or the route is no longer
\* ACTIVE; but for one whose connector has no delete(), and those after it.
Behind(f) ==
  {g \in Files : Source[g][1] = Source[f][1] /\ g <= f}

Moves ==
  \A f \in Files :
    Source[f][1] \notin Crons /\ Behind(f) \cap Fixed = {} =>
      [](file[f] # 0 => <>(file[f] = 0 \/ status[Source[f][1]] # "ACTIVE"))

\* transfer_engine.py, "files = src.iter_files(fe.path)  # [] when nothing is
\* waiting": then a route on which nothing waits and no connector fails stays
\* ACTIVE.
QuietWhenEmpty ==
  faults = 0 => \A r \in Routes \ shared : status[r] # "ERROR"
================================================================================
