---------------------------- MODULE Transfers_proofs ----------------------------
(***************************************************************************)
(* Proofs about Transfers, for any routes, files and endpoints.            *)
(*                                                                         *)
(* That a deleted file has reached every TO endpoint is known only at the  *)
(* step before the delete.  Copying carries it there: what the poller has  *)
(* read is what was last put, and the endpoints before the one it comes to *)
(* have got it.                                                            *)
(***************************************************************************)
EXTENDS Transfers, TLAPS

\* TypeOK in parts.
WorldOK ==
  /\ overwrites \in BOOLEAN /\ shared \subseteq Routes
  /\ puts \in Contents /\ made \in [Files -> 0..puts]
  /\ file \in [Files -> Contents]
  /\ \A f \in Files : file[f] \in {0, made[f]}
  /\ got \in [Files -> SUBSET (1..Tos)] /\ lost \subseteq Files

TableOK ==
  /\ status \in [Routes -> {"ACTIVE", "INACTIVE", "ERROR", "deleted"}]
  /\ lastRun \in [Routes -> {None} \cup 0..Boundaries] /\ now \in 0..Boundaries
  /\ faults \in Nat /\ crashes \in Nat /\ faults + crashes <= Mishaps /\ requests \in 0..Requests
  /\ errs \in [Actors -> SUBSET Routes] /\ ran \in [Actors -> SUBSET Routes]
  /\ seenNow \in [Actors -> 0..Boundaries]

Steps == {"idle", "pick", "list", "read", "write", "delete", "commit"}

PassOK ==
  /\ pc \in [Actors -> Steps]
  /\ mode \in [Actors -> {"cron", "watch", "manual"}]
  /\ recs \in [Actors -> SUBSET Routes] /\ rec \in [Actors -> Routes \cup {None}]
  /\ \A x \in Actors : pc[x] \in {"list", "read", "write", "delete"} => rec[x] \in Routes

FileOK ==
  /\ from \in [Actors -> 1..Froms] /\ listed \in [Actors -> SUBSET Files]
  /\ cur \in [Actors -> Files \cup {None}]
  /\ \A x \in Actors : pc[x] \in {"write", "delete"} => cur[x] \in listed[x]
  /\ data \in [Actors -> Contents] /\ to \in [Actors -> 1..Tos]

\* Only a poller moves files, and the TO endpoints are gone through from the first.
Modes ==
  \A x \in Actors :
    /\ mode[x] # "manual" => x \in Pollers
    /\ pc[x] = "delete" => mode[x] # "manual"
    /\ pc[x] # "write" => to[x] = 1

Carried(x) ==
  /\ pc[x] \in {"write", "delete"} => data[x] = made[cur[x]] /\ file[cur[x]] # 0
  /\ pc[x] = "write" => 1..(to[x] - 1) \subseteq got[cur[x]]
  /\ pc[x] = "delete" => got[cur[x]] = 1..Tos

Copying == OnePoller /\ ~overwrites => lost = {} /\ \A x \in Pollers : Carried(x)

\* An actor is at a record from its first listing to its last file, and has only
\* files of that record.
Visits(x) ==
  /\ pc[x] \in {"idle", "pick", "commit"} => rec[x] = None
  /\ pc[x] \in {"idle", "pick", "commit", "list"} => listed[x] = {}
  /\ \A f \in listed[x] : Source[f][1] = rec[x]

Visiting == \A x \in Actors : Visits(x)

\* Two actors at one record share it.
Sharing ==
  \A x, y \in Actors : x # y /\ rec[x] = rec[y] => rec[x] = None \/ rec[x] \in shared

\* What an actor has listed is there until it has moved it, if it has the record
\* to itself.
Present ==
  Blind = {} =>
    \A x \in Actors : rec[x] \notin shared => \A f \in listed[x] : file[f] # 0

Undisturbed ==
  Blind = {} /\ faults = 0 =>
    /\ \A x \in Actors : errs[x] \subseteq shared
    /\ \A r \in Routes \ shared : status[r] # "ERROR"

IInv == TypeOK /\ Modes /\ Copying /\ Visiting /\ Sharing /\ Present /\ Undisturbed

--------------------------------------------------------------------------------
(* The initial states, and the types.                                      *)

LEMMA Parts == TypeOK <=> WorldOK /\ TableOK /\ PassOK /\ FileOK
BY DEF TypeOK, WorldOK, TableOK, PassOK, FileOK, Steps

LEMMA Initially == Init => IInv
<1> SUFFICES ASSUME Init PROVE IInv
  OBVIOUS
<1> USE TransfersAssumption
<1>1. WorldOK
  <2>1. 0 \in Contents /\ 0..0 = {0}
    BY DEF Contents
  <2>2. /\ file \in [Files -> Contents] /\ made \in [Files -> 0..puts]
        /\ \A f \in Files : file[f] \in {0, made[f]}
    BY <2>1 DEF Init
  <2> QED
    BY <2>1, <2>2 DEF Init, WorldOK
<1>2. TableOK
  BY DEF Init, TableOK
<1>3. PassOK
  BY DEF Init, PassOK, Steps
<1>4. FileOK
  BY DEF Init, FileOK, Contents
<1>5. Modes /\ Copying
  BY DEF Init, Modes, Copying, Carried, Actors
<1>6. Visiting /\ Sharing /\ Present /\ Undisturbed
  BY DEF Init, Visiting, Visits, Sharing, Present, Undisturbed
<1> QED
  BY <1>1, <1>2, <1>3, <1>4, <1>5, <1>6, Parts DEF IInv

\* Only these write the world.
LEMMA ArrivesWorld ==
  ASSUME WorldOK, FileOK, NEW x \in Actors, cur[x] \in Files, Arrives(x),
         UNCHANGED <<overwrites, shared, puts, file, made, lost>>
  PROVE  WorldOK'
<1>1. [got EXCEPT ![cur[x]] = got[cur[x]] \cup {to[x]}] \in [Files -> SUBSET (1..Tos)]
  BY DEF WorldOK, FileOK
<1>2. got' \in [Files -> SUBSET (1..Tos)]
  BY <1>1 DEF Arrives, WorldOK
<1> QED
  BY <1>2 DEF WorldOK, Contents

LEMMA RemovesWorld ==
  ASSUME WorldOK, NEW x \in Actors, cur[x] \in Files, Removes(x),
         UNCHANGED <<overwrites, shared, puts, made, got>>
  PROVE  WorldOK'
<1>1. 0 \in Contents
  BY TransfersAssumption DEF Contents
<1>2. file' \in [Files -> Contents] /\ \A f \in Files : file'[f] \in {0, made[f]}
  BY <1>1 DEF Removes, WorldOK
<1>3. lost' \subseteq Files
  BY DEF Removes, WorldOK
<1> QED
  BY <1>2, <1>3 DEF WorldOK, Contents

LEMMA PutWorld ==
  ASSUME WorldOK, NEW f \in Files, Put(f)
  PROVE  WorldOK'
<1>1. /\ puts' \in Contents /\ puts' = puts + 1
      /\ 0..puts \subseteq 0..puts' /\ 0..puts' \subseteq Contents
  BY TransfersAssumption DEF Put, WorldOK, Contents
<1>2. made[f] + 1 \in 0..puts'
  BY <1>1 DEF WorldOK, Contents
<1>3. made' \in [Files -> 0..puts'] /\ \A g \in Files : g # f => made'[g] = made[g]
  BY <1>1, <1>2 DEF Put, WorldOK
<1>4. file' \in [Files -> Contents] /\ \A g \in Files : file'[g] \in {0, made'[g]}
  <2>1. made'[f] \in Contents
    BY <1>1, <1>3
  <2>2. file' = [file EXCEPT ![f] = made'[f]]
    BY DEF Put
  <2> QED
    BY <1>3, <2>1, <2>2 DEF WorldOK
<1>5. got' \in [Files -> SUBSET (1..Tos)]
  BY DEF Put, WorldOK
<1>6. UNCHANGED <<overwrites, shared, lost>>
  BY DEF Put
<1> QED
  BY <1>1, <1>3, <1>4, <1>5, <1>6 DEF WorldOK, Contents

LEMMA WorldStep == IInv /\ [Next]_vars => WorldOK'
<1> SUFFICES ASSUME IInv, [Next]_vars PROVE WorldOK'
  OBVIOUS
<1>0. WorldOK /\ FileOK /\ PassOK
  BY Parts DEF IInv
<1> USE <1>0, TransfersAssumption DEF WorldOK, world, bounds, Contents
<1>1. ASSUME NEW x \in Actors, BeginTick(x) PROVE WorldOK'
  BY <1>1 DEF BeginTick
<1>2. ASSUME NEW x \in Actors, NEW r \in Routes, BeginRun(x, r) PROVE WorldOK'
  BY <1>2 DEF BeginRun, Enters, Request
<1>3. ASSUME NEW x \in Actors, Pick(x) PROVE WorldOK'
  BY <1>3 DEF Pick, Enters
<1>4. ASSUME NEW x \in Actors, List(x) PROVE WorldOK'
  BY <1>4 DEF List, Fault, Raises, Leaves
<1>5. ASSUME NEW x \in Actors, Read(x) PROVE WorldOK'
  BY <1>5 DEF Read, Fault, Raises, Leaves
<1>6. ASSUME NEW x \in Actors, NextFrom(x) PROVE WorldOK'
  BY <1>6 DEF NextFrom, RecordDone, Leaves, LastFrom
<1>7. ASSUME NEW x \in Actors, Write(x) PROVE WorldOK'
  <2>1. cur[x] \in Files
    BY <1>7 DEF Write, FileOK
  <2>2. UNCHANGED <<overwrites, shared, puts>>
    BY <1>7 DEF Write
  <2>3. CASE Raises(x)
    BY <2>2, <2>3 DEF Raises
  <2>4. CASE Arrives(x) /\ UNCHANGED <<file, made, lost>>
    BY <2>1, <2>2, <2>4, ArrivesWorld
  <2> QED
    BY <1>7, <2>3, <2>4 DEF Write
<1>8. ASSUME NEW x \in Actors, Delete(x) PROVE WorldOK'
  <2>1. cur[x] \in Files
    BY <1>8 DEF Delete, FileOK
  <2>2. UNCHANGED <<overwrites, shared, puts>>
    BY <1>8 DEF Delete
  <2>3. CASE UNCHANGED world
    BY <2>2, <2>3
  <2>4. CASE Removes(x) /\ UNCHANGED <<made, got>>
    BY <2>1, <2>2, <2>4, RemovesWorld
  <2> QED
    BY <1>8, <2>3, <2>4 DEF Delete, Raises
<1>9. ASSUME NEW x \in Actors, Commit(x) PROVE WorldOK'
  BY <1>9 DEF Commit, CommitRows
<1>10. ASSUME NEW x \in Actors, Crash(x) PROVE WorldOK'
  BY <1>10 DEF Crash, Leaves
<1>11. ASSUME NEW f \in Files, Put(f) PROVE WorldOK'
  BY <1>11, PutWorld
<1>12. ASSUME NEW r \in Routes, Edit(r) PROVE WorldOK'
  BY <1>12 DEF Edit, Request
<1>13. CASE Boundary
  BY <1>13 DEF Boundary
<1>14. CASE UNCHANGED vars
  BY <1>14 DEF vars
<1>15. ASSUME NEW x \in Actors, Skip(x) PROVE WorldOK'
  BY <1>15 DEF Skip, RecordDone, Leaves
<1> QED
  BY <1>1, <1>2, <1>3, <1>4, <1>5, <1>6, <1>7, <1>8, <1>9, <1>10, <1>11, <1>12, <1>13, <1>14, <1>15
  DEF Next, Pass

LEMMA TableStep == IInv /\ [Next]_vars => TableOK'
<1> SUFFICES ASSUME IInv, [Next]_vars PROVE TableOK'
  OBVIOUS
<1> USE TransfersAssumption, Parts DEF IInv, TableOK, PassOK, world, table, at, sess, bounds, Goes
<1>1. ASSUME NEW x \in Actors, BeginTick(x) PROVE TableOK'
  BY <1>1 DEF BeginTick, Active
<1>2. ASSUME NEW x \in Actors, NEW r \in Routes, BeginRun(x, r) PROVE TableOK'
  BY <1>2 DEF BeginRun, Enters, Request
<1>3. ASSUME NEW x \in Actors, Pick(x) PROVE TableOK'
  BY <1>3 DEF Pick, Enters
<1>4. ASSUME NEW x \in Actors, List(x) PROVE TableOK'
  BY <1>4 DEF List, Fault, Raises, Leaves
<1>5. ASSUME NEW x \in Actors, Read(x) PROVE TableOK'
  BY <1>5 DEF Read, Fault, Raises, Leaves
<1>6. ASSUME NEW x \in Actors, NextFrom(x) PROVE TableOK'
  BY <1>6 DEF NextFrom, RecordDone, Leaves, LastFrom
<1>7. ASSUME NEW x \in Actors, Write(x) PROVE TableOK'
  <2>1. UNCHANGED <<status, lastRun, now, crashes, requests, seenNow>>
    BY <1>7 DEF Write
  <2>2. faults' \in Nat /\ faults' + crashes' <= Mishaps
    BY <1>7, <2>1 DEF Write, Fault
  <2>3. rec[x] \in Routes
    BY <1>7 DEF Write
  <2>4. errs' \in [Actors -> SUBSET Routes] /\ ran' \in [Actors -> SUBSET Routes]
    BY <1>7, <2>3 DEF Write, Raises
  <2> QED
    BY <2>1, <2>2, <2>4
<1>8. ASSUME NEW x \in Actors, Delete(x) PROVE TableOK'
  <2>1. UNCHANGED <<status, lastRun, now, crashes, requests, seenNow>>
    BY <1>8 DEF Delete
  <2>2. faults' \in Nat /\ faults' + crashes' <= Mishaps
    BY <1>8, <2>1 DEF Delete, Fault
  <2>3. rec[x] \in Routes
    BY <1>8 DEF Delete
  <2>4. errs' \in [Actors -> SUBSET Routes] /\ ran' \in [Actors -> SUBSET Routes]
    BY <1>8, <2>3 DEF Delete, Raises, RecordDone
  <2> QED
    BY <2>1, <2>2, <2>4
<1>9. ASSUME NEW x \in Actors, Commit(x) PROVE TableOK'
  BY <1>9 DEF Commit, CommitRows
<1>10. ASSUME NEW x \in Actors, Crash(x) PROVE TableOK'
  BY <1>10 DEF Crash, Leaves
<1>11. ASSUME NEW f \in Files, Put(f) PROVE TableOK'
  BY <1>11 DEF Put
<1>12. ASSUME NEW r \in Routes, Edit(r) PROVE TableOK'
  BY <1>12 DEF Edit, Request
<1>13. CASE Boundary
  BY <1>13 DEF Boundary
<1>14. CASE UNCHANGED vars
  BY <1>14 DEF vars
<1>15. ASSUME NEW x \in Actors, Skip(x) PROVE TableOK'
  BY <1>15 DEF Skip, RecordDone, Leaves
<1> QED
  BY <1>1, <1>2, <1>3, <1>4, <1>5, <1>6, <1>7, <1>8, <1>9, <1>10, <1>11, <1>12, <1>13, <1>14, <1>15
  DEF Next, Pass

LEMMA PassStep == IInv /\ [Next]_vars => PassOK'
<1> SUFFICES ASSUME IInv, [Next]_vars PROVE PassOK'
  OBVIOUS
<1> USE TransfersAssumption, Parts DEF IInv, PassOK, Steps, Active, AfterRecord, world, table, at, sess, bounds, Goes
<1>1. ASSUME NEW x \in Actors, BeginTick(x) PROVE PassOK'
  BY <1>1 DEF BeginTick
<1>2. ASSUME NEW x \in Actors, NEW r \in Routes, BeginRun(x, r) PROVE PassOK'
  BY <1>2 DEF BeginRun, Enters, Request
<1>3. ASSUME NEW x \in Actors, Pick(x) PROVE PassOK'
  BY <1>3 DEF Pick, Enters
<1>4. ASSUME NEW x \in Actors, List(x) PROVE PassOK'
  BY <1>4 DEF List, Fault, Raises, Leaves
<1>5. ASSUME NEW x \in Actors, Read(x) PROVE PassOK'
  BY <1>5 DEF Read, Fault, Raises, Leaves
<1>6. ASSUME NEW x \in Actors, NextFrom(x) PROVE PassOK'
  BY <1>6 DEF NextFrom, RecordDone, Leaves, LastFrom
<1>7. ASSUME NEW x \in Actors, Write(x) PROVE PassOK'
  BY <1>7 DEF Write, Fault, Raises, Leaves, NextTo, NextFile, LastTo
<1>8. ASSUME NEW x \in Actors, Delete(x) PROVE PassOK'
  BY <1>8 DEF Delete, Fault, Raises, RecordDone, Leaves, Removes, NextFile
<1>9. ASSUME NEW x \in Actors, Commit(x) PROVE PassOK'
  BY <1>9 DEF Commit, CommitRows
<1>10. ASSUME NEW x \in Actors, Crash(x) PROVE PassOK'
  BY <1>10 DEF Crash, Leaves
<1>11. ASSUME NEW f \in Files, Put(f) PROVE PassOK'
  BY <1>11 DEF Put
<1>12. ASSUME NEW r \in Routes, Edit(r) PROVE PassOK'
  BY <1>12 DEF Edit, Request
<1>13. CASE Boundary
  BY <1>13 DEF Boundary
<1>14. CASE UNCHANGED vars
  BY <1>14 DEF vars
<1>15. ASSUME NEW x \in Actors, Skip(x) PROVE PassOK'
  BY <1>15 DEF Skip, RecordDone, Leaves
<1> QED
  BY <1>1, <1>2, <1>3, <1>4, <1>5, <1>6, <1>7, <1>8, <1>9, <1>10, <1>11, <1>12, <1>13, <1>14, <1>15
  DEF Next, Pass

\* What is left of a pass that ends with its record.
LEMMA LeftFile ==
  ASSUME FileOK, PassOK, NEW x \in Actors, Raises(x) \/ RecordDone(x)
  PROVE  FileOK'
<1>1. /\ from' = [from EXCEPT ![x] = 1] /\ listed' = [listed EXCEPT ![x] = {}]
      /\ cur' = [cur EXCEPT ![x] = None] /\ data' = [data EXCEPT ![x] = 0]
      /\ to' = [to EXCEPT ![x] = 1]
  BY DEF Raises, RecordDone, Leaves
<1>2. 1 \in 1..Froms /\ 1 \in 1..Tos /\ 0 \in Contents
  BY TransfersAssumption DEF Contents
<1>3. pc'[x] \in {"commit", "pick"} /\ \A y \in Actors \ {x} : pc'[y] = pc[y]
  BY DEF Raises, RecordDone, Goes, AfterRecord, PassOK
<1>4. \A y \in Actors : pc'[y] \in {"write", "delete"} => cur'[y] \in listed'[y]
  BY <1>1, <1>3 DEF FileOK
<1> QED
  BY <1>1, <1>2, <1>4 DEF FileOK

LEMMA FileStep == IInv /\ [Next]_vars => FileOK'
<1> SUFFICES ASSUME IInv, [Next]_vars PROVE FileOK'
  OBVIOUS
<1>b. Froms \in Nat \ {0} /\ Tos \in Nat \ {0}
  BY TransfersAssumption
<1>0. FileOK /\ PassOK /\ WorldOK /\ 1 \in 1..Froms /\ 1 \in 1..Tos /\ 0 \in Contents
  BY TransfersAssumption, Parts DEF IInv, Contents
<1> USE <1>0 DEF FileOK, PassOK, Steps, at, Goes
<1>1. ASSUME NEW x \in Actors, BeginTick(x) PROVE FileOK'
  BY <1>1 DEF BeginTick
<1>2. ASSUME NEW x \in Actors, NEW r \in Routes, BeginRun(x, r) PROVE FileOK'
  BY <1>2 DEF BeginRun, Enters, Request
<1>3. ASSUME NEW x \in Actors, Pick(x) PROVE FileOK'
  BY <1>3 DEF Pick, Enters
<1>4. ASSUME NEW x \in Actors, List(x) PROVE FileOK'
  <2>1. CASE Raises(x)
    BY <2>1, LeftFile
  <2>2. CASE ~Raises(x)
    <3>1. Waiting(x) \subseteq Files
      BY DEF Waiting, Here
    <3> QED
      BY <1>4, <2>2, <3>1 DEF List
  <2> QED
    BY <2>1, <2>2
<1>5. ASSUME NEW x \in Actors, Read(x) PROVE FileOK'
  <2>1. CASE Raises(x)
    BY <2>1, LeftFile
  <2>2. CASE ~Raises(x)
    <3>1. PICK f \in Files :
            /\ f \in listed[x]
            /\ cur' = [cur EXCEPT ![x] = f] /\ data' = [data EXCEPT ![x] = file[f]]
            /\ pc' = [pc EXCEPT ![x] = "write"]
            /\ UNCHANGED <<from, listed, to>>
      BY <1>5, <2>2 DEF Read, IsFirst
    <3>2. file[f] \in Contents
      BY DEF WorldOK
    <3> QED
      BY <3>1, <3>2
  <2> QED
    BY <2>1, <2>2
<1>6. ASSUME NEW x \in Actors, NextFrom(x) PROVE FileOK'
  <2>1. CASE RecordDone(x)
    BY <2>1, LeftFile
  <2>2. CASE ~RecordDone(x)
    <3>1. from[x] + 1 \in 1..Froms
      BY <1>b, <1>6, <2>2 DEF NextFrom, LastFrom
    <3> QED
      BY <1>6, <2>2, <3>1 DEF NextFrom
  <2> QED
    BY <2>1, <2>2
<1>7. ASSUME NEW x \in Actors, Write(x) PROVE FileOK'
  <2>1. CASE Raises(x)
    BY <2>1, LeftFile
  <2>2. CASE NextTo(x) /\ UNCHANGED from
    <3>1. CASE ~LastTo(x)
      <4>1. to[x] + 1 \in 1..Tos
        BY <1>b, <3>1 DEF LastTo
      <4> QED
        BY <2>2, <3>1, <4>1 DEF NextTo
    <3>2. CASE LastTo(x)
      BY <1>7, <2>2, <3>2 DEF NextTo, NextFile, Write
    <3> QED
      BY <3>1, <3>2
  <2> QED
    BY <1>7, <2>1, <2>2 DEF Write
<1>8. ASSUME NEW x \in Actors, Delete(x) PROVE FileOK'
  <2>1. CASE Raises(x) \/ RecordDone(x)
    BY <2>1, LeftFile
  <2>2. CASE NextFile(x) /\ UNCHANGED <<from, to>>
    BY <2>2 DEF NextFile
  <2> QED
    BY <1>8, <2>1, <2>2 DEF Delete
<1>9. ASSUME NEW x \in Actors, Commit(x) PROVE FileOK'
  BY <1>9 DEF Commit, CommitRows
<1>10. ASSUME NEW x \in Actors, Crash(x) PROVE FileOK'
  BY <1>10 DEF Crash, Leaves
<1>11. ASSUME NEW f \in Files, Put(f) PROVE FileOK'
  BY <1>11 DEF Put
<1>12. ASSUME NEW r \in Routes, Edit(r) PROVE FileOK'
  BY <1>12 DEF Edit, Request
<1>13. CASE Boundary
  BY <1>13 DEF Boundary
<1>14. CASE UNCHANGED vars
  BY <1>14 DEF vars
<1>15. ASSUME NEW x \in Actors, Skip(x) PROVE FileOK'
  BY <1>15, LeftFile DEF Skip
<1> QED
  BY <1>1, <1>2, <1>3, <1>4, <1>5, <1>6, <1>7, <1>8, <1>9, <1>10, <1>11, <1>12, <1>13, <1>14, <1>15
  DEF Next, Pass

LEMMA ModesStep == IInv /\ [Next]_vars => Modes'
<1> SUFFICES ASSUME IInv, [Next]_vars PROVE Modes'
  OBVIOUS
<1> USE TransfersAssumption, Parts DEF IInv, Modes, PassOK, FileOK, AfterRecord, world, table, at, sess, bounds, Goes
<1>1. ASSUME NEW x \in Actors, BeginTick(x) PROVE Modes'
  BY <1>1 DEF BeginTick
<1>2. ASSUME NEW x \in Actors, NEW r \in Routes, BeginRun(x, r) PROVE Modes'
  BY <1>2 DEF BeginRun, Enters, Request
<1>3. ASSUME NEW x \in Actors, Pick(x) PROVE Modes'
  BY <1>3 DEF Pick, Enters
<1>4. ASSUME NEW x \in Actors, List(x) PROVE Modes'
  BY <1>4 DEF List, Fault, Raises, Leaves
<1>5. ASSUME NEW x \in Actors, Read(x) PROVE Modes'
  BY <1>5 DEF Read, Fault, Raises, Leaves
<1>6. ASSUME NEW x \in Actors, NextFrom(x) PROVE Modes'
  BY <1>6 DEF NextFrom, RecordDone, Leaves, LastFrom
<1>7. ASSUME NEW x \in Actors, Write(x) PROVE Modes'
  BY <1>7 DEF Write, Fault, Raises, Leaves, NextTo, NextFile, LastTo
<1>8. ASSUME NEW x \in Actors, Delete(x) PROVE Modes'
  BY <1>8 DEF Delete, Fault, Raises, RecordDone, Leaves, Removes, NextFile
<1>9. ASSUME NEW x \in Actors, Commit(x) PROVE Modes'
  BY <1>9 DEF Commit, CommitRows
<1>10. ASSUME NEW x \in Actors, Crash(x) PROVE Modes'
  BY <1>10 DEF Crash, Leaves
<1>11. ASSUME NEW f \in Files, Put(f) PROVE Modes'
  BY <1>11 DEF Put
<1>12. ASSUME NEW r \in Routes, Edit(r) PROVE Modes'
  BY <1>12 DEF Edit, Request
<1>13. CASE Boundary
  BY <1>13 DEF Boundary
<1>14. CASE UNCHANGED vars
  BY <1>14 DEF vars
<1>15. ASSUME NEW x \in Actors, Skip(x) PROVE Modes'
  BY <1>15 DEF Skip, RecordDone, Leaves
<1> QED
  BY <1>1, <1>2, <1>3, <1>4, <1>5, <1>6, <1>7, <1>8, <1>9, <1>10, <1>11, <1>12, <1>13, <1>14, <1>15
  DEF Next, Pass

LEMMA TypeStep == IInv /\ [Next]_vars => TypeOK'
<1>1. TypeOK' <=> WorldOK' /\ TableOK' /\ PassOK' /\ FileOK'
  BY DEF TypeOK, WorldOK, TableOK, PassOK, FileOK, Steps
<1> QED
  BY <1>1, WorldStep, TableStep, PassStep, FileStep

--------------------------------------------------------------------------------
(* A file is deleted only after it has reached every TO endpoint.          *)

LEMMA CopyingStep == IInv /\ [Next]_vars => Copying'
<1> SUFFICES ASSUME IInv, [Next]_vars PROVE Copying'
  OBVIOUS
<1>0. WorldOK /\ PassOK /\ FileOK /\ Modes /\ Copying
  BY Parts DEF IInv
<1>a. OnePoller' <=> OnePoller
  BY DEF OnePoller
<1> USE <1>0, <1>a DEF world, at, bounds, Goes, Actors
<1>1. ASSUME NEW x \in Actors, BeginTick(x) PROVE Copying'
  <2>1. UNCHANGED <<overwrites, world>>
    BY <1>1 DEF BeginTick
  <2>2. ASSUME NEW y \in Pollers PROVE ~(pc'[y] \in {"write", "delete"}) \/ UNCHANGED <<pc[y], cur[y], data[y], to[y]>>
    BY <1>1, TransfersAssumption DEF BeginTick, PassOK, FileOK
  <2> QED
    BY <2>1, <2>2 DEF Copying, Carried
<1>2. ASSUME NEW x \in Actors, NEW r \in Routes, BeginRun(x, r) PROVE Copying'
  <2>1. UNCHANGED <<overwrites, world>>
    BY <1>2 DEF BeginRun
  <2>2. ASSUME NEW y \in Pollers PROVE ~(pc'[y] \in {"write", "delete"}) \/ UNCHANGED <<pc[y], cur[y], data[y], to[y]>>
    BY <1>2, TransfersAssumption DEF BeginRun, Enters, PassOK, FileOK
  <2> QED
    BY <2>1, <2>2 DEF Copying, Carried
<1>3. ASSUME NEW x \in Actors, Pick(x) PROVE Copying'
  <2>1. UNCHANGED <<overwrites, world>>
    BY <1>3 DEF Pick
  <2>2. ASSUME NEW y \in Pollers PROVE ~(pc'[y] \in {"write", "delete"}) \/ UNCHANGED <<pc[y], cur[y], data[y], to[y]>>
    BY <1>3, TransfersAssumption DEF Pick, Enters, PassOK, FileOK
  <2> QED
    BY <2>1, <2>2 DEF Copying, Carried
<1>4. ASSUME NEW x \in Actors, List(x) PROVE Copying'
  <2>1. UNCHANGED <<overwrites, world>>
    BY <1>4 DEF List, Raises, Leaves, AfterRecord
  <2>2. ASSUME NEW y \in Pollers PROVE ~(pc'[y] \in {"write", "delete"}) \/ UNCHANGED <<pc[y], cur[y], data[y], to[y]>>
    BY <1>4, TransfersAssumption DEF List, Raises, Leaves, AfterRecord, PassOK, FileOK
  <2> QED
    BY <2>1, <2>2 DEF Copying, Carried
<1>5. ASSUME NEW x \in Actors, Read(x) PROVE Copying'
  <2>1. UNCHANGED <<overwrites, world>>
    BY <1>5 DEF Read, Raises
  <2>2. CASE Raises(x)
    <3>1. ASSUME NEW y \in Pollers
          PROVE  ~(pc'[y] \in {"write", "delete"}) \/ UNCHANGED <<pc[y], cur[y], data[y], to[y]>>
      BY <2>2 DEF Raises, Leaves, AfterRecord, PassOK, FileOK
    <3> QED
      BY <2>1, <3>1 DEF Copying, Carried
  <2>3. ASSUME NEW f \in Files, file[f] # 0,
               cur' = [cur EXCEPT ![x] = f], data' = [data EXCEPT ![x] = file[f]],
               pc' = [pc EXCEPT ![x] = "write"], UNCHANGED to
        PROVE  Copying'
    <3>1. to[x] = 1 /\ file[f] = made[f]
      BY <1>5, <2>3 DEF Read, Modes, WorldOK
    <3>2. \A y \in Pollers : y # x => UNCHANGED <<pc[y], cur[y], data[y], to[y]>>
      BY <2>3 DEF PassOK, FileOK
    <3>3. pc'[x] = "write" /\ cur'[x] = f /\ data'[x] = made[f] /\ to'[x] = 1
      BY <2>3, <3>1 DEF PassOK, FileOK
    <3>4. 1..(1 - 1) = {}
      OBVIOUS
    <3> QED
      BY <2>1, <2>3, <3>2, <3>3, <3>4 DEF Copying, Carried
  <2> QED
    BY <1>5, <2>2, <2>3 DEF Read
<1>6. ASSUME NEW x \in Actors, NextFrom(x) PROVE Copying'
  <2>1. UNCHANGED <<overwrites, world>>
    BY <1>6 DEF NextFrom, RecordDone, Leaves, AfterRecord
  <2>2. ASSUME NEW y \in Pollers PROVE ~(pc'[y] \in {"write", "delete"}) \/ UNCHANGED <<pc[y], cur[y], data[y], to[y]>>
    BY <1>6, TransfersAssumption DEF NextFrom, RecordDone, Leaves, AfterRecord, PassOK, FileOK
  <2> QED
    BY <2>1, <2>2 DEF Copying, Carried
<1>7. ASSUME NEW x \in Actors, Write(x) PROVE Copying'
  <2> SUFFICES ASSUME OnePoller, ~overwrites PROVE lost' = {} /\ \A y \in Pollers : Carried(y)'
    BY <1>7 DEF Write, Copying
  <2>1. lost' = {} /\ UNCHANGED <<file, made>>
    BY <1>7 DEF Write, Raises, Copying
  <2>2. CASE Raises(x)
    <3>1. ASSUME NEW y \in Pollers
          PROVE  ~(pc'[y] \in {"write", "delete"}) \/ UNCHANGED <<pc[y], cur[y], data[y], to[y]>>
      BY <2>2 DEF Raises, Leaves, AfterRecord, PassOK, FileOK
    <3>2. UNCHANGED got
      BY <2>2 DEF Raises
    <3> QED
      BY <2>1, <3>1, <3>2 DEF Copying, Carried
  <2>3. CASE Arrives(x) /\ NextTo(x)
    <3>1. cur[x] \in Files /\ to[x] \in 1..Tos /\ pc[x] = "write"
      BY <1>7 DEF Write, FileOK
    <3>2. \A f \in Files : got[f] \subseteq got'[f] /\ got'[f] \subseteq 1..Tos
      <4>1. got[cur[x]] \cup {to[x]} \subseteq 1..Tos
        BY <3>1 DEF WorldOK
      <4> QED
        BY <2>3, <3>1, <4>1 DEF Arrives, WorldOK
    <3>3. ASSUME NEW y \in Pollers, y # x PROVE Carried(y)'
      <4>1. UNCHANGED <<pc[y], cur[y], data[y], to[y]>>
        BY <2>3, <3>3 DEF NextTo, NextFile, PassOK, FileOK
      <4>2. pc[y] \in {"write", "delete"} => cur[y] \in Files
        BY <3>3 DEF FileOK
      <4>3. Carried(y)
        BY <3>3 DEF Copying
      <4> QED
        BY <2>1, <3>2, <4>1, <4>2, <4>3 DEF Carried
    <3>4. ASSUME x \in Pollers PROVE Carried(x)'
      <4>1. data[x] = made[cur[x]] /\ file[cur[x]] # 0 /\ 1..(to[x] - 1) \subseteq got[cur[x]]
        BY <3>1, <3>4 DEF Copying, Carried
      <4>2. got'[cur[x]] = got[cur[x]] \cup {to[x]}
        BY <2>3, <3>1, <4>1 DEF Arrives, WorldOK
      <4>3. 1..to[x] \subseteq got'[cur[x]]
        BY <3>1, <4>1, <4>2
      <4>4. CASE ~LastTo(x)
        <5>1. to'[x] = to[x] + 1 /\ UNCHANGED <<pc[x], cur[x], data[x]>>
          BY <2>3, <4>4 DEF NextTo, FileOK
        <5>2. to'[x] - 1 = to[x]
          BY <3>1, <5>1
        <5> QED
          BY <2>1, <3>1, <4>1, <4>3, <5>1, <5>2 DEF Carried
      <4>5. CASE LastTo(x)
        <5>1. got'[cur[x]] = 1..Tos
          BY <3>1, <3>2, <4>3, <4>5 DEF LastTo
        <5>2. pc'[x] = "read" \/ (pc'[x] = "delete" /\ UNCHANGED <<cur[x], data[x]>>)
          BY <2>3, <4>5 DEF NextTo, NextFile, PassOK
        <5> QED
          BY <2>1, <4>1, <5>1, <5>2 DEF Carried
      <4> QED
        BY <4>4, <4>5
    <3> QED
      BY <2>1, <3>3, <3>4
  <2> QED
    BY <1>7, <2>2, <2>3 DEF Write
<1>8. ASSUME NEW x \in Actors, Delete(x) PROVE Copying'
  <2> SUFFICES ASSUME OnePoller, ~overwrites PROVE lost' = {} /\ \A y \in Pollers : Carried(y)'
    BY <1>8 DEF Delete, Copying
  <2>1. x \in Pollers /\ pc[x] = "delete" /\ \A y \in Pollers : y = x
    BY <1>8 DEF Delete, Modes, OnePoller
  <2>2. lost = {} /\ got[cur[x]] = 1..Tos
    BY <2>1 DEF Copying, Carried
  <2>3. lost' = {}
    BY <1>8, <2>2 DEF Delete, Removes, Raises
  <2>4. pc'[x] \notin {"write", "delete"}
    BY <1>8 DEF Delete, Raises, RecordDone, NextFile, AfterRecord, PassOK
  <2> QED
    BY <2>1, <2>3, <2>4 DEF Carried
<1>9. ASSUME NEW x \in Actors, Commit(x) PROVE Copying'
  <2>1. UNCHANGED <<overwrites, world>>
    BY <1>9 DEF Commit
  <2>2. ASSUME NEW y \in Pollers PROVE ~(pc'[y] \in {"write", "delete"}) \/ UNCHANGED <<pc[y], cur[y], data[y], to[y]>>
    BY <1>9, TransfersAssumption DEF Commit, PassOK, FileOK
  <2> QED
    BY <2>1, <2>2 DEF Copying, Carried
<1>10. ASSUME NEW x \in Actors, Crash(x) PROVE Copying'
  <2>1. UNCHANGED <<overwrites, world>>
    BY <1>10 DEF Crash, Leaves
  <2>2. ASSUME NEW y \in Pollers PROVE ~(pc'[y] \in {"write", "delete"}) \/ UNCHANGED <<pc[y], cur[y], data[y], to[y]>>
    BY <1>10, TransfersAssumption DEF Crash, Leaves, PassOK, FileOK
  <2> QED
    BY <2>1, <2>2 DEF Copying, Carried
<1>11. ASSUME NEW f \in Files, Put(f) PROVE Copying'
  <2> SUFFICES ASSUME OnePoller, ~overwrites PROVE lost' = {} /\ \A y \in Pollers : Carried(y)'
    BY <1>11 DEF Put, Copying
  <2>1. lost' = {} /\ UNCHANGED <<pc, cur, data, to>>
    BY <1>11 DEF Put, Copying
  <2>2. file[f] = 0
    BY <1>11 DEF Put
  <2>3. \A g \in Files : g # f => UNCHANGED <<file[g], made[g], got[g]>>
    BY <1>11 DEF Put, WorldOK
  <2>4. ASSUME NEW y \in Pollers PROVE Carried(y)'
    <3>1. Carried(y)
      BY <2>4 DEF Copying
    <3>2. pc[y] \in {"write", "delete"} => cur[y] \in Files /\ cur[y] # f
      BY <2>2, <3>1 DEF Carried, FileOK
    <3> QED
      BY <2>1, <2>3, <3>1, <3>2 DEF Carried
  <2> QED
    BY <2>1, <2>4
<1>12. ASSUME NEW r \in Routes, Edit(r) PROVE Copying'
  BY <1>12 DEF Edit, Request, Copying, Carried
<1>13. CASE Boundary
  BY <1>13 DEF Boundary, Copying, Carried
<1>15. ASSUME NEW x \in Actors, Skip(x) PROVE Copying'
  <2>1. UNCHANGED <<overwrites, world>>
    BY <1>15 DEF Skip
  <2>2. ASSUME NEW y \in Pollers PROVE ~(pc'[y] \in {"write", "delete"}) \/ UNCHANGED <<pc[y], cur[y], data[y], to[y]>>
    BY <1>15, TransfersAssumption DEF Skip, RecordDone, Leaves, AfterRecord, PassOK, FileOK
  <2> QED
    BY <2>1, <2>2 DEF Copying, Carried
<1>14. CASE UNCHANGED vars
  BY <1>14 DEF vars, Copying, Carried
<1> QED
  BY <1>1, <1>2, <1>3, <1>4, <1>5, <1>6, <1>7, <1>8, <1>9, <1>10, <1>11, <1>12, <1>13, <1>14, <1>15
  DEF Next, Pass

--------------------------------------------------------------------------------
(* With a record to itself an actor finds what it has listed, and no such  *)
(* route becomes ERROR unless a connector fails.                           *)

LEMMA VisitingStep == IInv /\ [Next]_vars => Visiting'
<1> SUFFICES ASSUME IInv, [Next]_vars PROVE Visiting'
  OBVIOUS
<1> USE TransfersAssumption, Parts
    DEF IInv, Visiting, Visits, PassOK, FileOK, AfterRecord, world, table, at, sess, bounds, Goes
<1>1. ASSUME NEW x \in Actors, BeginTick(x) PROVE Visiting'
  BY <1>1 DEF BeginTick
<1>2. ASSUME NEW x \in Actors, NEW r \in Routes, BeginRun(x, r) PROVE Visiting'
  BY <1>2 DEF BeginRun, Enters, Request
<1>3. ASSUME NEW x \in Actors, Pick(x) PROVE Visiting'
  BY <1>3 DEF Pick, Enters
<1>4. ASSUME NEW x \in Actors, List(x) PROVE Visiting'
  BY <1>4 DEF List, Fault, Raises, Leaves, Waiting, Here
<1>5. ASSUME NEW x \in Actors, Read(x) PROVE Visiting'
  BY <1>5 DEF Read, Fault, Raises, Leaves
<1>6. ASSUME NEW x \in Actors, NextFrom(x) PROVE Visiting'
  BY <1>6 DEF NextFrom, RecordDone, Leaves, LastFrom
<1>7. ASSUME NEW x \in Actors, Write(x) PROVE Visiting'
  <2>1. CASE Raises(x)
    BY <2>1 DEF Raises, Leaves
  <2>2. CASE NextTo(x) /\ UNCHANGED rec
    <3>1. \A y \in Actors : listed'[y] \subseteq listed[y]
      BY <2>2 DEF NextTo, NextFile
    <3>2. \A y \in Actors : pc'[y] = pc[y] \/ (y = x /\ pc'[y] \in {"write", "read", "delete"})
      BY <2>2 DEF NextTo, NextFile
    <3> QED
      BY <2>2, <3>1, <3>2
  <2> QED
    BY <1>7, <2>1, <2>2 DEF Write
<1>8. ASSUME NEW x \in Actors, Delete(x) PROVE Visiting'
  <2>1. CASE Raises(x) \/ RecordDone(x)
    BY <2>1 DEF Raises, RecordDone, Leaves
  <2>2. CASE NextFile(x) /\ UNCHANGED rec
    <3>1. \A y \in Actors : listed'[y] \subseteq listed[y]
      BY <2>2 DEF NextFile
    <3>2. \A y \in Actors : pc'[y] = pc[y] \/ (y = x /\ pc'[y] = "read")
      BY <2>2 DEF NextFile
    <3> QED
      BY <2>2, <3>1, <3>2
  <2> QED
    BY <1>8, <2>1, <2>2 DEF Delete
<1>9. ASSUME NEW x \in Actors, Commit(x) PROVE Visiting'
  BY <1>9 DEF Commit, CommitRows
<1>10. ASSUME NEW x \in Actors, Crash(x) PROVE Visiting'
  BY <1>10 DEF Crash, Leaves
<1>11. ASSUME NEW f \in Files, Put(f) PROVE Visiting'
  BY <1>11 DEF Put
<1>12. ASSUME NEW r \in Routes, Edit(r) PROVE Visiting'
  BY <1>12 DEF Edit, Request
<1>13. CASE Boundary
  BY <1>13 DEF Boundary
<1>14. CASE UNCHANGED vars
  BY <1>14 DEF vars
<1>15. ASSUME NEW x \in Actors, Skip(x) PROVE Visiting'
  BY <1>15 DEF Skip, RecordDone, Leaves
<1> QED
  BY <1>1, <1>2, <1>3, <1>4, <1>5, <1>6, <1>7, <1>8, <1>9, <1>10, <1>11, <1>12, <1>13, <1>14, <1>15
  DEF Next, Pass

\* What an actor enters is shared when another is there.
LEMMA Entered ==
  ASSUME PassOK, WorldOK, NEW x \in Actors, NEW r \in Routes, Enters(x, r)
  PROVE  /\ shared \subseteq shared' /\ rec'[x] = r
         /\ \A y \in Actors : y # x => rec'[y] = rec[y] /\ (rec[y] = r => r \in shared')
BY DEF Enters, PassOK

\* Every other step stays at a record or leaves it.
LEMMA Elsewhere ==
  ASSUME IInv, [Next]_vars
  PROVE  \/ UNCHANGED shared /\ \A y \in Actors : rec'[y] \in {rec[y], None}
         \/ \E x \in Actors, r \in Routes : Enters(x, r) /\ UNCHANGED <<file, listed, errs, status, faults>>
<1>0. PassOK
  BY Parts DEF IInv
<1> USE <1>0 DEF PassOK, bounds, at, world, table, sess
<1>1. ASSUME NEW x \in Actors, BeginTick(x) \/ Skip(x) \/ Commit(x) \/ Crash(x)
      PROVE  UNCHANGED shared /\ \A y \in Actors : rec'[y] \in {rec[y], None}
  BY <1>1 DEF BeginTick, Skip, Commit, Crash, RecordDone, Leaves
<1>2. ASSUME NEW x \in Actors, List(x) \/ Read(x) \/ NextFrom(x) \/ Write(x) \/ Delete(x)
      PROVE  UNCHANGED shared /\ \A y \in Actors : rec'[y] \in {rec[y], None}
  <2>1. UNCHANGED shared
    BY <1>2 DEF List, Read, NextFrom, Write, Delete
  <2>2. Raises(x) \/ RecordDone(x) \/ UNCHANGED rec
    BY <1>2 DEF List, Read, NextFrom, Write, Delete
  <2> QED
    BY <2>1, <2>2 DEF Raises, RecordDone, Leaves
<1>3. ASSUME NEW x \in Actors, NEW r \in Routes, BeginRun(x, r)
      PROVE  Enters(x, r) /\ UNCHANGED <<file, listed, errs, status, faults>>
  BY <1>3 DEF BeginRun
<1>4. ASSUME NEW x \in Actors, Pick(x)
      PROVE  \E r \in Routes : Enters(x, r) /\ UNCHANGED <<file, listed, errs, status, faults>>
  BY <1>4 DEF Pick
<1>5. ASSUME \/ \E f \in Files : Put(f)
             \/ \E r \in Routes : Edit(r)
             \/ Boundary
             \/ UNCHANGED vars
      PROVE  UNCHANGED <<shared, rec>>
  BY <1>5 DEF Put, Edit, Boundary, vars
<1> QED
  BY <1>1, <1>2, <1>3, <1>4, <1>5 DEF Next, Pass

LEMMA SharingStep == IInv /\ [Next]_vars => Sharing'
<1> SUFFICES ASSUME IInv, [Next]_vars PROVE Sharing'
  OBVIOUS
<1>0. WorldOK /\ PassOK /\ Sharing
  BY Parts DEF IInv
<1>1. CASE UNCHANGED shared /\ \A y \in Actors : rec'[y] \in {rec[y], None}
  BY <1>0, <1>1 DEF Sharing
<1>2. ASSUME NEW x \in Actors, NEW r \in Routes, Enters(x, r) PROVE Sharing'
  BY <1>0, <1>2, Entered DEF Sharing
<1> QED
  BY <1>1, <1>2, Elsewhere

LEMMA RouteOf == \A f \in Files : Source[f][1] # None
<1> TAKE f \in Files
<1>1. Source[f] \in (Routes \ Bare) \X (1..Froms) /\ Routes \subseteq Nat /\ None \notin Nat
  BY TransfersAssumption
<1> QED
  BY <1>1

LEMMA PresentStep == IInv /\ [Next]_vars => Present'
<1> SUFFICES ASSUME IInv, [Next]_vars PROVE Present'
  OBVIOUS
<1>0. WorldOK /\ PassOK /\ FileOK /\ Visiting /\ Sharing /\ Present
  BY Parts DEF IInv
<1>a. ASSUME UNCHANGED shared, \A f \in Files : file[f] # 0 => file'[f] # 0,
             \A y \in Actors : listed'[y] = {} \/ (listed'[y] \subseteq listed[y] /\ rec'[y] = rec[y])
      PROVE  Present'
  BY <1>0, <1>a DEF Present, FileOK
<1> USE <1>0 DEF world, at, bounds, Goes, Actors
<1>1. ASSUME NEW x \in Actors, NEW r \in Routes, Enters(x, r), UNCHANGED <<file, listed>>,
             listed[x] = {}
      PROVE  Present'
  <2>1. shared \subseteq shared' /\ \A y \in Actors : y # x => rec'[y] = rec[y]
    BY <1>1, Entered
  <2> QED
    BY <1>1, <2>1 DEF Present
<1>2. ASSUME NEW x \in Actors, NEW r \in Routes, BeginRun(x, r) PROVE Present'
  BY <1>1, <1>2 DEF BeginRun, Visiting, Visits
<1>3. ASSUME NEW x \in Actors, Pick(x) PROVE Present'
  BY <1>1, <1>3 DEF Pick, Visiting, Visits
<1>4. ASSUME NEW x \in Actors, List(x) PROVE Present'
  <2>1. UNCHANGED <<file, shared>>
    BY <1>4 DEF List, Raises
  <2>2. CASE Raises(x)
    BY <1>a, <2>1, <2>2 DEF Raises, Leaves, FileOK, PassOK
  <2>3. CASE listed' = [listed EXCEPT ![x] = Waiting(x)] /\ UNCHANGED rec
    <3>1. Blind = {} => \A f \in Waiting(x) : file[f] # 0
      BY DEF Waiting
    <3>2. \A y \in Actors : listed'[y] = listed[y] \/ listed'[y] = Waiting(x)
      BY <2>3 DEF FileOK
    <3> QED
      BY <2>1, <2>3, <3>1, <3>2 DEF Present
  <2> QED
    BY <1>4, <2>2, <2>3 DEF List
<1>5. ASSUME NEW x \in Actors, Read(x) \/ NextFrom(x) \/ Skip(x) PROVE Present'
  <2>1. UNCHANGED <<file, shared>>
    BY <1>5 DEF Read, NextFrom, Skip, Raises
  <2>2. \/ UNCHANGED <<rec, listed>>
        \/ Leaves(x)
    BY <1>5 DEF Read, NextFrom, Skip, Raises, RecordDone
  <2> QED
    BY <1>a, <2>1, <2>2 DEF Leaves, FileOK, PassOK
<1>6. ASSUME NEW x \in Actors, Write(x) PROVE Present'
  <2>1. UNCHANGED <<file, shared>>
    BY <1>6 DEF Write, Raises
  <2>2. \/ UNCHANGED rec /\ (listed' = listed \/ listed' = [listed EXCEPT ![x] = listed[x] \ {cur[x]}])
        \/ Leaves(x)
    BY <1>6 DEF Write, Raises, NextTo, NextFile
  <2> QED
    BY <1>a, <2>1, <2>2 DEF Leaves, FileOK, PassOK
<1>7. ASSUME NEW x \in Actors, Delete(x) PROVE Present'
  <2>1. UNCHANGED shared /\ pc[x] = "delete"
    BY <1>7 DEF Delete
  <2>2. CASE UNCHANGED file /\ Leaves(x)
    BY <1>a, <2>1, <2>2 DEF Leaves, FileOK, PassOK
  <2>3. CASE NextFile(x) /\ UNCHANGED rec /\ (UNCHANGED file \/ file' = [file EXCEPT ![cur[x]] = 0])
    <3> SUFFICES ASSUME Blind = {}, NEW y \in Actors, rec'[y] \notin shared', NEW f \in listed'[y]
                 PROVE  file'[f] # 0
      BY DEF Present
    <3>1. rec[y] \notin shared /\ f \in listed[y] /\ f \in Files
      BY <2>1, <2>3 DEF NextFile, FileOK
    <3>2. file[f] # 0
      BY <3>1 DEF Present
    <3>3. Source[f][1] = rec[y] /\ rec[y] # None
      BY <3>1, RouteOf DEF Visiting, Visits
    <3>4. cur[x] \in listed[x] /\ Source[cur[x]][1] = rec[x]
      BY <2>1 DEF FileOK, Visiting, Visits
    <3>5. f # cur[x]
      <4>1. CASE y = x
        BY <2>3, <4>1 DEF NextFile, FileOK
      <4>2. CASE y # x
        BY <3>1, <3>3, <3>4, <4>2 DEF Sharing
      <4> QED
        BY <4>1, <4>2
    <3> QED
      BY <2>3, <3>1, <3>2, <3>5 DEF WorldOK
  <2> QED
    BY <1>7, <2>2, <2>3 DEF Delete, Raises, RecordDone, Removes
<1>8. ASSUME NEW f \in Files, Put(f) PROVE Present'
  <2>1. file'[f] = made[f] + 1 /\ made[f] \in Nat
    BY <1>8 DEF Put, WorldOK, Contents
  <2>2. \A g \in Files : file[g] # 0 => file'[g] # 0
    BY <1>8, <2>1 DEF Put, WorldOK
  <2> QED
    BY <1>8, <1>a, <2>2 DEF Put
<1>9. ASSUME \/ \E x \in Actors : BeginTick(x) \/ Commit(x) \/ Crash(x)
             \/ \E r \in Routes : Edit(r)
             \/ Boundary
             \/ UNCHANGED vars
      PROVE  Present'
  <2>1. UNCHANGED <<file, shared>>
    BY <1>9 DEF BeginTick, Commit, Crash, Edit, Boundary, vars
  <2>2. UNCHANGED <<rec, listed>> \/ \E x \in Actors : Leaves(x)
    BY <1>9 DEF BeginTick, Commit, Crash, Edit, Boundary, vars
  <2> QED
    BY <1>a, <2>1, <2>2 DEF Leaves, FileOK, PassOK
<1> QED
  BY <1>2, <1>3, <1>4, <1>5, <1>6, <1>7, <1>8, <1>9 DEF Next, Pass

\* Without a fault a pass raises only at a record that it shares.
LEMMA Reasons ==
  ASSUME IInv, [Next]_vars, Blind = {}, UNCHANGED faults
  PROVE  \A y \in Actors : errs'[y] \subseteq errs[y] \cup shared
<1>0. TableOK /\ FileOK /\ Present
  BY Parts DEF IInv
<1>1. ~Fault
  BY <1>0 DEF Fault, TableOK
<1> USE <1>0, <1>1 DEF TableOK, FileOK, sess
<1>2. ASSUME NEW x \in Actors, NEW f \in listed[x], file[f] = 0, Raises(x)
      PROVE  \A y \in Actors : errs'[y] \subseteq errs[y] \cup shared
  <2>1. rec[x] \in shared
    BY <1>2 DEF Present
  <2> QED
    BY <1>2, <2>1 DEF Raises
<1>3. ASSUME NEW x \in Actors, List(x) \/ Write(x) PROVE UNCHANGED errs
  BY <1>3 DEF List, Write
<1>4. ASSUME NEW x \in Actors, Read(x)
      PROVE  \A y \in Actors : errs'[y] \subseteq errs[y] \cup shared
  BY <1>2, <1>4 DEF Read, IsFirst
<1>5. ASSUME NEW x \in Actors, Delete(x)
      PROVE  \A y \in Actors : errs'[y] \subseteq errs[y] \cup shared
  BY <1>2, <1>5 DEF Delete, RecordDone
<1>6. ASSUME NEW x \in Actors, Commit(x) \/ Crash(x)
      PROVE  \A y \in Actors : errs'[y] \subseteq errs[y]
  BY <1>6 DEF Commit, Crash
<1>7. ASSUME NEW x \in Actors, BeginTick(x) \/ Pick(x) \/ Skip(x) \/ NextFrom(x)
                                 \/ \E r \in Routes : BeginRun(x, r)
      PROVE  UNCHANGED errs
  BY <1>7 DEF BeginTick, Pick, Skip, NextFrom, RecordDone, BeginRun
<1>8. ASSUME \/ \E f \in Files : Put(f)
             \/ \E r \in Routes : Edit(r)
             \/ Boundary
             \/ UNCHANGED vars
      PROVE  UNCHANGED errs
  BY <1>8 DEF Put, Edit, Boundary, vars
<1> QED
  BY <1>3, <1>4, <1>5, <1>6, <1>7, <1>8 DEF Next, Pass

\* Only a commit makes a record ERROR.
LEMMA Statuses ==
  ASSUME IInv, [Next]_vars
  PROVE  \A r \in Routes : status'[r] = "ERROR" =>
           status[r] = "ERROR" \/ \E x \in Actors : r \in errs[x]
<1>0. TableOK
  BY Parts DEF IInv
<1> USE <1>0 DEF TableOK, table
<1>1. ASSUME NEW x \in Actors, Commit(x)
      PROVE  \A r \in Routes : status'[r] = "ERROR" => status[r] = "ERROR" \/ r \in errs[x]
  BY <1>1 DEF Commit, CommitRows
<1>2. ASSUME NEW r \in Routes, Edit(r)
      PROVE  \A q \in Routes : status'[q] = "ERROR" => status[q] = "ERROR"
  BY <1>2 DEF Edit
<1>3. ASSUME \/ \E x \in Actors : \/ BeginTick(x) \/ Pick(x) \/ Skip(x) \/ List(x) \/ Read(x)
                                  \/ NextFrom(x) \/ Write(x) \/ Delete(x) \/ Crash(x)
                                  \/ \E r \in Routes : BeginRun(x, r)
             \/ \E f \in Files : Put(f)
             \/ Boundary
             \/ UNCHANGED vars
      PROVE  UNCHANGED status
  BY <1>3 DEF BeginTick, Pick, Skip, List, Read, NextFrom, Write, Delete, Crash, BeginRun,
              Put, Boundary, vars
<1> QED
  BY <1>1, <1>2, <1>3 DEF Next, Pass

\* Faults are counted up.
LEMMA FaultsStep ==
  ASSUME IInv, [Next]_vars, faults' = 0
  PROVE  faults = 0 /\ UNCHANGED faults
<1>0. faults \in Nat
  BY Parts DEF IInv, TableOK
<1>1. UNCHANGED faults \/ Fault
  BY DEF Next, Pass, BeginTick, BeginRun, Pick, Skip, List, Read, NextFrom, Write, Delete, Commit,
         Crash, Put, Edit, Boundary, vars
<1> QED
  BY <1>0, <1>1 DEF Fault

LEMMA UndisturbedStep == IInv /\ [Next]_vars => Undisturbed'
<1> SUFFICES ASSUME IInv, [Next]_vars, Blind = {}, faults' = 0
             PROVE  /\ \A x \in Actors : errs'[x] \subseteq shared'
                    /\ \A r \in Routes \ shared' : status'[r] # "ERROR"
  BY DEF Undisturbed
<1>1. faults = 0 /\ UNCHANGED faults
  BY FaultsStep
<1>2. /\ \A x \in Actors : errs[x] \subseteq shared
      /\ \A r \in Routes \ shared : status[r] # "ERROR"
  BY <1>1 DEF IInv, Undisturbed
<1>3. shared \subseteq shared'
  <2>1. PassOK /\ WorldOK
    BY Parts DEF IInv
  <2> QED
    BY <2>1, Elsewhere, Entered
<1>4. \A x \in Actors : errs'[x] \subseteq shared
  BY <1>1, <1>2, Reasons
<1>5. \A r \in Routes \ shared : status'[r] # "ERROR"
  BY <1>2, Statuses
<1> QED
  BY <1>3, <1>4, <1>5

--------------------------------------------------------------------------------
\* The inductive invariant: the types, and what an actor knows of the files and
\* records it works on.
THEOREM Invariant == Spec => []IInv
<1>1. IInv /\ [Next]_vars => IInv'
  BY TypeStep, ModesStep, CopyingStep, VisitingStep, SharingStep, PresentStep, UndisturbedStep DEF IInv
<1> QED
  BY <1>1, Initially, PTL DEF Spec

\* For every number of processes, routes, files and endpoints the state is well
\* typed: an actor that writes or deletes has a file of its list in hand.
THEOREM TypeCorrect == Spec => []TypeOK
BY Invariant, PTL DEF IInv

\* With one poller and no file put over one that waits, no file is deleted before
\* every TO endpoint has got it: for any number of endpoints, files and routes.
THEOREM NothingIsLost == Spec => []NothingLost
<1>1. IInv => NothingLost
  BY DEF IInv, Copying, NothingLost
<1> QED
  BY <1>1, Invariant, PTL

\* For any number of processes and manual runs, whatever is edited or put: while no
\* connector fails, a route becomes ERROR only after two passes were at it at once.
THEOREM ErrorsHaveReasons == Spec => []ErrorForAReason
<1>1. IInv => ErrorForAReason
  BY DEF IInv, Undisturbed, ErrorForAReason
<1> QED
  BY <1>1, Invariant, PTL

================================================================================
