--------------------------------- MODULE Turns ---------------------------------
(***************************************************************************)
(* The confirmations of one thread.  A turn that wants a guarded command   *)
(* run leaves it in the PendingStore of its process, one slot per thread,  *)
(* and ends; a later turn of the thread reads the slot and takes its text  *)
(* as an answer: yes, no, or neither.  Turns are tasks: nothing keeps two  *)
(* of them from working on one thread, or in different processes, and one  *)
(* is cut off when its job is cancelled or times out.                      *)
(*                                                                         *)
(* What a turn does between two awaits is one step.  The agent loop that   *)
(* works on a question is AgentLoop; here it ends in an answer or in a     *)
(* command to be approved.                                                 *)
(***************************************************************************)
EXTENDS Naturals

CONSTANTS
  Processes,   \* server processes
  MaxTurns,    \* turns of the thread (bound)
  Actions,     \* the pending actions that are ever built (bound)
  None         \* no action, no process

ASSUME TurnsAssumption ==
  MaxTurns \in Nat /\ None \notin Actions /\ None \notin Processes

Turns == 1..MaxTurns

VARIABLES
  slot,        \* the thread's slot in each process's PendingStore
  pc,          \* where each turn is
  text,        \* what the user wrote, until the turn is taken up
  home,        \* the process that runs it, while it runs
  held,        \* the pending action it has read, while that is executed
  note,        \* a message sent to a turn in progress: to which, what, and the
               \* prompt the user had seen last
  meant,       \* history: the prompt the user had seen last when writing
  shown,       \* history: the prompt the user has seen last
  asked,       \* history: actions that were built
  declined,    \* history: actions answered with a no
  runs,        \* history: how often each action was started
  overlapped,  \* history: a turn was sent while another was in progress
  resubmitted, \* history: a message was carried over and sent as a turn
  strayed,     \* history: a turn was run by another process than the one before
  cutOff,      \* history: an execution was cut off or refused
  lastHome     \* history: the process of the last turn

past    == <<asked, declined, runs, overlapped, resubmitted, strayed, cutOff, lastHome>>
vars    == <<slot, pc, text, home, held, note, meant, shown, past>>

Working == {"working", "continuing"}
Active  == {"sent", "executing"} \cup Working
InProgress(t) == pc[t] \in Active
Texts  == {"question", "yes", "no"}
NoNote == [of |-> 0, text |-> "none", meant |-> None]

TypeOK ==
  /\ slot \in [Processes -> Actions \cup {None}]
  /\ pc \in [Turns -> {"new", "ended"} \cup Active]
  /\ text \in [Turns -> Texts \cup {"none"}]
  /\ home \in [Turns -> Processes \cup {None}]
  /\ held \in [Turns -> Actions \cup {None}]
  /\ meant \in [Turns -> Actions \cup {None}]
  /\ note \in [of : Turns, text : Texts, meant : Actions \cup {None}] \cup {NoNote}
  /\ \A t \in Turns : pc[t] = "executing" <=> held[t] # None
  /\ \A t \in Turns : pc[t] \in {"executing"} \cup Working <=> home[t] # None
  /\ shown \in Actions \cup {None} /\ asked \subseteq Actions /\ declined \subseteq asked
  /\ runs \in [Actions -> Nat]
  /\ overlapped \in BOOLEAN /\ resubmitted \in BOOLEAN
  /\ strayed \in BOOLEAN /\ cutOff \in BOOLEAN
  /\ lastHome \in Processes \cup {None}

Init ==
  /\ slot = [p \in Processes |-> None]
  /\ pc = [t \in Turns |-> "new"] /\ text = [t \in Turns |-> "none"]
  /\ home = [t \in Turns |-> None] /\ held = [t \in Turns |-> None]
  /\ note = NoNote /\ meant = [t \in Turns |-> None] /\ shown = None
  /\ asked = {} /\ declined = {} /\ runs = [a \in Actions |-> 0]
  /\ overlapped = FALSE /\ resubmitted = FALSE /\ strayed = FALSE /\ cutOff = FALSE /\ lastHome = None

Becomes(t, place) == pc' = [pc EXCEPT ![t] = place]
Forget(f, t)      == [f EXCEPT ![t] = None]

\* A turn's job is created, for a text and the prompt the user had seen last when
\* writing it.
Create(t, x, prompt) ==
  /\ pc[t] = "new" /\ \A u \in 1..(t - 1) : pc[u] # "new"
  /\ Becomes(t, "sent")
  /\ text' = [text EXCEPT ![t] = x]
  /\ meant' = [meant EXCEPT ![t] = prompt]
  /\ overlapped' = (overlapped \/ \E u \in Turns : InProgress(u))
  /\ UNCHANGED <<slot, home, held, shown, asked, declined, runs, strayed, cutOff, lastHome>>

Send(t) ==
  /\ \E x \in Texts : Create(t, x, shown)
  /\ UNCHANGED <<note, resubmitted>>

\* A message for a turn in progress is queued with it.  Its loop folds it in at
\* the next hop, but not when it goes on after a confirmation.  Else, when the
\* turn has ended, the result carries it over and the client submits it as a turn.
Enqueue(u) ==
  /\ InProgress(u) /\ note = NoNote
  /\ \E x \in Texts : note' = [of |-> u, text |-> x, meant |-> shown]
  /\ UNCHANGED <<slot, pc, text, home, held, meant, shown, past>>

Fold(u) ==
  /\ note.of = u /\ pc[u] = "working"
  /\ note' = NoNote
  /\ UNCHANGED <<slot, pc, text, home, held, meant, shown, past>>

Resubmit(t) ==
  /\ note # NoNote /\ pc[note.of] = "ended"
  /\ Create(t, note.text, note.meant)
  /\ note' = NoNote
  /\ resubmitted' = TRUE

\* The job's task starts in a process.
At(t, p) ==
  /\ pc[t] = "sent"
  /\ text' = [text EXCEPT ![t] = "none"]
  /\ lastHome' = p
  /\ strayed' = (strayed \/ lastHome \notin {None, p})

\* Nothing is pending: the text is a question, also when it says yes or no.
Work(t, p) ==
  /\ At(t, p) /\ slot[p] = None
  /\ home' = [home EXCEPT ![t] = p] /\ meant' = Forget(meant, t)
  /\ Becomes(t, "working")
  /\ UNCHANGED <<slot, held, shown, asked, declined, runs, overlapped, resubmitted, cutOff, note>>

\* Slip: the slot is not cleared by a no.
CancelKeepingSlot(t, p) ==
  /\ At(t, p) /\ slot[p] # None /\ text[t] = "no"
  /\ declined' = declined \cup {slot[p]}
  /\ meant' = Forget(meant, t)
  /\ Becomes(t, "ended")
  /\ UNCHANGED <<slot, home, held, shown, asked, runs, overlapped, resubmitted, cutOff, note>>

\* is_cancellation_text: the action is dropped.
Cancel(t, p) ==
  /\ At(t, p) /\ slot[p] # None /\ text[t] = "no"
  /\ declined' = declined \cup {slot[p]}
  /\ slot' = Forget(slot, p) /\ meant' = Forget(meant, t)
  /\ Becomes(t, "ended")
  /\ UNCHANGED <<home, held, shown, asked, runs, overlapped, resubmitted, cutOff, note>>

\* is_confirmation_text: the call is verified and executed, or refused by the
\* hash check of the execution: that exception leaves the turn.
Confirm(t, p) ==
  /\ At(t, p) /\ slot[p] # None /\ text[t] = "yes"
  /\ \/ /\ held' = [held EXCEPT ![t] = slot[p]] /\ home' = [home EXCEPT ![t] = p]
        /\ runs' = [runs EXCEPT ![slot[p]] = @ + 1]
        /\ Becomes(t, "executing")
        /\ UNCHANGED <<meant, cutOff>>
     \/ /\ Becomes(t, "ended")
        /\ cutOff' = TRUE /\ meant' = Forget(meant, t)
        /\ UNCHANGED <<home, held, runs>>
  /\ UNCHANGED <<slot, shown, asked, declined, overlapped, resubmitted, note>>

\* Anything else: the prompt is shown again.
Prompt(t, p) ==
  /\ At(t, p) /\ slot[p] # None /\ text[t] = "question"
  /\ shown' = slot[p] /\ meant' = Forget(meant, t)
  /\ Becomes(t, "ended")
  /\ UNCHANGED <<slot, home, held, asked, declined, runs, overlapped, resubmitted, cutOff, note>>

\* Slip: the slot is not cleared after the execution.
ExecutedKeepingSlot(t) ==
  /\ pc[t] = "executing"
  /\ held' = Forget(held, t) /\ meant' = Forget(meant, t)
  /\ Becomes(t, "continuing")
  /\ UNCHANGED <<slot, text, home, shown, asked, declined, runs, overlapped, resubmitted, strayed, cutOff, lastHome, note>>

\* The execution returns: only now the slot is cleared, whatever it holds, and
\* the loop goes on.
Executed(t) ==
  /\ pc[t] = "executing"
  /\ slot' = Forget(slot, home[t])
  /\ held' = Forget(held, t) /\ meant' = Forget(meant, t)
  /\ Becomes(t, "continuing")
  /\ UNCHANGED <<text, home, shown, asked, declined, runs, overlapped, resubmitted, strayed, cutOff, lastHome, note>>

\* The loop comes to a guarded command: it becomes the pending action, over
\* whatever was pending.
Ask(t) ==
  /\ pc[t] \in Working
  /\ \E a \in Actions \ asked :
       /\ slot' = [slot EXCEPT ![home[t]] = a]
       /\ asked' = asked \cup {a}
       /\ shown' = a
  /\ home' = Forget(home, t)
  /\ Becomes(t, "ended")
  /\ UNCHANGED <<text, held, meant, declined, runs, overlapped, resubmitted, strayed, cutOff, lastHome, note>>

Answer(t) ==
  /\ pc[t] \in Working
  /\ home' = Forget(home, t)
  /\ Becomes(t, "ended")
  /\ UNCHANGED <<slot, text, held, note, meant, shown, past>>

\* Turns end where they are.
EndTurns(cut) ==
  /\ pc' = [t \in Turns |-> IF t \in cut THEN "ended" ELSE pc[t]]
  /\ text' = [t \in Turns |-> IF t \in cut THEN "none" ELSE text[t]]
  /\ home' = [t \in Turns |-> IF t \in cut THEN None ELSE home[t]]
  /\ held' = [t \in Turns |-> IF t \in cut THEN None ELSE held[t]]
  /\ meant' = [t \in Turns |-> IF t \in cut THEN None ELSE meant[t]]
  /\ note' = IF note.of \in cut THEN NoNote ELSE note
  /\ cutOff' = (cutOff \/ \E t \in cut : pc[t] = "executing")
  /\ UNCHANGED <<shown, asked, declined, runs, overlapped, resubmitted, strayed, lastHome>>

\* The job is cancelled or times out.
CutOff(t) == InProgress(t) /\ EndTurns({t}) /\ UNCHANGED slot

\* A process is restarted: the store and the tasks are in its memory.
Restart(p) == EndTurns({t \in Turns : home[t] = p}) /\ slot' = Forget(slot, p)

Take(t) == \E p \in Processes : Work(t, p) \/ Cancel(t, p) \/ Confirm(t, p) \/ Prompt(t, p)

Next ==
  \/ \E t \in Turns : Send(t) \/ Resubmit(t) \/ Enqueue(t) \/ Fold(t) \/ Take(t) \/ Executed(t) \/ Ask(t) \/ Answer(t) \/ CutOff(t)
  \/ \E p \in Processes : Restart(p)

Spec == Init /\ [][Next]_vars

--------------------------------------------------------------------------------
\* One turn at a time, all in one process, each written for its own sake.
Serial == ~overlapped /\ ~strayed
Direct == Serial /\ ~resubmitted

\* The confirmed action is pinned: as long as turns are direct, a command
\* that runs is the one whose prompt the user had seen last when saying yes.
\* It runs once, unless an execution was cut off: the slot still holds it then.
ApprovedExactly ==
  Direct =>
    /\ \A t \in Turns : pc[t] = "executing" => held[t] = meant[t]
    /\ ~cutOff => \A a \in Actions : runs[a] <= 1

\* "Cancelled. Shell command was not executed." is true, under the same terms.
CancelledMeansNotRun == Direct /\ ~cutOff => \A a \in declined : runs[a] = 0

\* However turns overlap, an action that was declined is not started after it.
DeclinedStays ==
  [][\A a \in declined : runs'[a] = runs[a]]_vars

\* docs/guide/how-it-works.md, "The confirmed action is pinned, so what runs is
\* exactly what you approved — it can't be swapped for something else".  The
\* code breaks this even when turns do not overlap: a "yes" written before the
\* prompt and carried over approves it.
NeverSwapped ==
  Serial => \A t \in Turns : pc[t] = "executing" => held[t] = meant[t]
================================================================================
