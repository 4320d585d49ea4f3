------------------------------ MODULE Turns_proofs ------------------------------
(***************************************************************************)
(* Proofs about Turns, for any number of turns, processes and actions.     *)
(* Slots holds however turns overlap: an action is in one slot at most,    *)
(* never after a no, and an action that was not built did not run.  Alone  *)
(* is what direct turns add: one turn in progress, one slot in use, and    *)
(* the user has seen what it holds.                                        *)
(***************************************************************************)
EXTENDS Turns, TLAPS

Slots ==
  /\ \A p \in Processes : slot[p] # None => slot[p] \in asked \ declined
  /\ \A p, q \in Processes : slot[p] # None /\ slot[p] = slot[q] => p = q
  /\ \A a \in Actions \ asked : runs[a] = 0

Alone ==
  /\ \A t, u \in Turns : InProgress(t) /\ InProgress(u) => t = u
  /\ \A p \in Processes : slot[p] # None => p = lastHome /\ slot[p] = shown
  /\ \A t \in Turns : home[t] # None => home[t] = lastHome
  /\ \A t \in Turns : pc[t] = "sent" => meant[t] = shown
  /\ \A t \in Turns : pc[t] = "executing" => held[t] = meant[t] /\ slot[home[t]] = held[t]

RunOnce ==
  /\ \A a \in Actions : runs[a] <= 1
  /\ \A a \in declined : runs[a] = 0
  /\ \A p \in Processes :
       slot[p] # None /\ (\A t \in Turns : pc[t] # "executing") => runs[slot[p]] = 0

IInv == TypeOK /\ Slots /\ (Direct => Alone) /\ (Direct /\ ~cutOff => RunOnce)

USE TurnsAssumption DEF Turns

LEMMA InitInv == Init => IInv
<1> SUFFICES ASSUME Init PROVE IInv
  OBVIOUS
<1> USE DEF Init
<1>1. TypeOK
  BY DEF TypeOK, Working, Active, Texts, NoNote
<1>2. Slots /\ Alone /\ RunOnce
  BY DEF Slots, Alone, RunOnce, InProgress, Active, Working
<1> QED BY <1>1, <1>2 DEF IInv

LEMMA SendInv ==
  ASSUME IInv, NEW t \in Turns, Send(t)
  PROVE  IInv'
<1> USE DEF Send, Create, Becomes
<1>1. TypeOK'
  BY DEF IInv, TypeOK, Active, Working, Texts, NoNote
<1>2. Slots'
  BY DEF IInv, TypeOK, Slots
<1>3. ASSUME Direct' PROVE Direct /\ Alone'
  <2>1. Direct /\ Alone
    BY <1>3 DEF IInv, TypeOK, Direct, Serial
  <2>6. ASSUME NEW u \in Turns, u # t PROVE pc'[u] = pc[u] /\ ~InProgress(u)
    BY <1>3, <2>1, <2>6 DEF IInv, TypeOK, Alone, Direct, Serial, InProgress, Active, Working
  <2>2. \A u, v \in Turns : InProgress(u)' /\ InProgress(v)' => u = v
    BY <1>3, <2>1, <2>6 DEF IInv, TypeOK, Alone, Direct, Serial, InProgress, Active, Working
  <2>3. \A q \in Processes : slot'[q] # None => q = lastHome' /\ slot'[q] = shown'
    BY <1>3, <2>1, <2>6 DEF IInv, TypeOK, Alone, Direct, Serial, InProgress, Active, Working
  <2>7. \A u \in Turns : home'[u] # None => home'[u] = lastHome'
    BY <1>3, <2>1, <2>6 DEF IInv, TypeOK, Alone, Direct, Serial, InProgress, Active, Working
  <2>4. \A u \in Turns : pc'[u] = "sent" => meant'[u] = shown'
    BY <1>3, <2>1, <2>6 DEF IInv, TypeOK, Alone, Direct, Serial, InProgress, Active, Working
  <2>5. \A u \in Turns : pc'[u] = "executing" => held'[u] = meant'[u] /\ slot'[home'[u]] = held'[u]
    BY <1>3, <2>1, <2>6 DEF IInv, TypeOK, Alone, Direct, Serial, InProgress, Active, Working
  <2> QED BY <2>1, <2>2, <2>3, <2>4, <2>5, <2>7 DEF Alone
<1>4. Direct' /\ ~cutOff' => RunOnce'
  BY <1>3 DEF IInv, TypeOK, Slots, Alone, RunOnce, InProgress, Active, Working
<1> QED BY <1>1, <1>2, <1>3, <1>4 DEF IInv

LEMMA ResubmitInv ==
  ASSUME IInv, NEW t \in Turns, Resubmit(t)
  PROVE  IInv'
<1> USE DEF Resubmit, Create, Becomes, NoNote
<1>1. TypeOK'
  BY DEF IInv, TypeOK, Active, Working, Texts, NoNote
<1>2. Slots'
  BY DEF IInv, TypeOK, Slots
<1>3. Direct' => Direct /\ Alone'
  BY DEF IInv, TypeOK, Alone, Direct, Serial, InProgress, Active, Working
<1>4. Direct' /\ ~cutOff' => RunOnce'
  BY <1>3 DEF IInv, TypeOK, Slots, Alone, RunOnce, InProgress, Active, Working
<1> QED BY <1>1, <1>2, <1>3, <1>4 DEF IInv

LEMMA EnqueueInv ==
  ASSUME IInv, NEW t \in Turns, Enqueue(t)
  PROVE  IInv'
<1> USE DEF Enqueue, past
<1>1. TypeOK'
  BY DEF IInv, TypeOK, Active, Working, Texts, NoNote
<1>2. Slots'
  BY DEF IInv, TypeOK, Slots
<1>3. Direct' => Direct /\ Alone'
  BY DEF IInv, TypeOK, Alone, Direct, Serial, InProgress, Active, Working
<1>4. Direct' /\ ~cutOff' => RunOnce'
  BY <1>3 DEF IInv, TypeOK, Slots, Alone, RunOnce, InProgress, Active, Working
<1> QED BY <1>1, <1>2, <1>3, <1>4 DEF IInv

LEMMA FoldInv ==
  ASSUME IInv, NEW t \in Turns, Fold(t)
  PROVE  IInv'
<1> USE DEF Fold, past
<1>1. TypeOK'
  BY DEF IInv, TypeOK, Active, Working, Texts, NoNote
<1>2. Slots'
  BY DEF IInv, TypeOK, Slots
<1>3. Direct' => Direct /\ Alone'
  BY DEF IInv, TypeOK, Alone, Direct, Serial, InProgress, Active, Working
<1>4. Direct' /\ ~cutOff' => RunOnce'
  BY <1>3 DEF IInv, TypeOK, Slots, Alone, RunOnce, InProgress, Active, Working
<1> QED BY <1>1, <1>2, <1>3, <1>4 DEF IInv

LEMMA WorkInv ==
  ASSUME IInv, NEW t \in Turns, NEW p \in Processes, Work(t, p)
  PROVE  IInv'
<1> USE DEF Work, At, Becomes, Forget
<1>1. TypeOK'
  BY DEF IInv, TypeOK, Active, Working, Texts, NoNote
<1>2. Slots'
  BY DEF IInv, TypeOK, Slots
<1>3. ASSUME Direct' PROVE Direct /\ Alone'
  <2>1. Direct /\ Alone
    BY <1>3 DEF IInv, TypeOK, Direct, Serial
  <2>6. ASSUME NEW u \in Turns, u # t PROVE pc'[u] = pc[u] /\ ~InProgress(u)
    BY <1>3, <2>1, <2>6 DEF IInv, TypeOK, Alone, Direct, Serial, InProgress, Active, Working
  <2>2. \A u, v \in Turns : InProgress(u)' /\ InProgress(v)' => u = v
    BY <1>3, <2>1, <2>6 DEF IInv, TypeOK, Alone, Direct, Serial, InProgress, Active, Working
  <2>3. \A q \in Processes : slot'[q] # None => q = lastHome' /\ slot'[q] = shown'
    BY <1>3, <2>1 DEF Alone, Direct, Serial
  <2>7. \A u \in Turns : home'[u] # None => home'[u] = lastHome'
    BY <1>3, <2>1, <2>6 DEF IInv, TypeOK, Alone, Direct, Serial, InProgress, Active, Working
  <2>4. \A u \in Turns : pc'[u] = "sent" => meant'[u] = shown'
    BY <1>3, <2>1, <2>6 DEF IInv, TypeOK, Alone, Direct, Serial, InProgress, Active, Working
  <2>5. \A u \in Turns : pc'[u] = "executing" => held'[u] = meant'[u] /\ slot'[home'[u]] = held'[u]
    BY <1>3, <2>1, <2>6 DEF IInv, TypeOK, Alone, Direct, Serial, InProgress, Active, Working
  <2> QED BY <2>1, <2>2, <2>3, <2>4, <2>5, <2>7 DEF Alone
<1>4. Direct' /\ ~cutOff' => RunOnce'
  BY <1>3 DEF IInv, TypeOK, Slots, Alone, RunOnce, InProgress, Active, Working
<1> QED BY <1>1, <1>2, <1>3, <1>4 DEF IInv

LEMMA CancelInv ==
  ASSUME IInv, NEW t \in Turns, NEW p \in Processes, Cancel(t, p)
  PROVE  IInv'
<1> USE DEF Cancel, At, Becomes, Forget
<1>1. TypeOK'
  <2>1. TypeOK /\ slot[p] \in asked
    BY DEF IInv, TypeOK, Slots
  <2>2. /\ slot' \in [Processes -> Actions \cup {None}] /\ text' \in [Turns -> Texts \cup {"none"}]
        /\ home' \in [Turns -> Processes \cup {None}] /\ held' \in [Turns -> Actions \cup {None}]
        /\ meant' \in [Turns -> Actions \cup {None}] /\ runs' \in [Actions -> Nat]
    BY <2>1 DEF TypeOK
  <2>3. pc' \in [Turns -> {"new", "ended"} \cup Active]
    BY <2>1 DEF TypeOK, Active, Working
  <2>4. \A u \in Turns : pc'[u] = "executing" <=> held'[u] # None
    BY <2>1 DEF TypeOK, Active, Working
  <2>5. \A u \in Turns : pc'[u] \in {"executing"} \cup Working <=> home'[u] # None
    BY <2>1 DEF TypeOK, Active, Working
  <2> QED BY <2>1, <2>2, <2>3, <2>4, <2>5 DEF TypeOK
<1>2. Slots'
  BY DEF IInv, TypeOK, Slots
<1>3. Direct' => Direct /\ Alone'
  BY DEF IInv, TypeOK, Alone, Direct, Serial, InProgress, Active, Working
<1>4. Direct' /\ ~cutOff' => RunOnce'
  BY <1>3 DEF IInv, TypeOK, Slots, Alone, RunOnce, InProgress, Active, Working
<1> QED BY <1>1, <1>2, <1>3, <1>4 DEF IInv

LEMMA ConfirmInv ==
  ASSUME IInv, NEW t \in Turns, NEW p \in Processes, Confirm(t, p)
  PROVE  IInv'
<1> USE DEF Confirm, At, Becomes, Forget
<1>1. TypeOK'
  <2>1. TypeOK /\ slot[p] \in asked
    BY DEF IInv, TypeOK, Slots
  <2>2. /\ slot' \in [Processes -> Actions \cup {None}] /\ text' \in [Turns -> Texts \cup {"none"}]
        /\ home' \in [Turns -> Processes \cup {None}] /\ held' \in [Turns -> Actions \cup {None}]
        /\ meant' \in [Turns -> Actions \cup {None}] /\ runs' \in [Actions -> Nat]
    <3>1. runs[slot[p]] + 1 \in Nat
      BY <2>1 DEF TypeOK
    <3>2. slot[p] \in Actions
      BY <2>1 DEF TypeOK
    <3>3. home' \in [Turns -> Processes \cup {None}] /\ meant' \in [Turns -> Actions \cup {None}]
      <4>1. home' = home \/ home' = [home EXCEPT ![t] = p]
        OBVIOUS
      <4>2. meant' = meant \/ meant' = [meant EXCEPT ![t] = None]
        OBVIOUS
      <4> QED BY <2>1, <4>1, <4>2 DEF TypeOK
    <3>4. held' \in [Turns -> Actions \cup {None}]
      BY <2>1, <3>2 DEF TypeOK
    <3>5. runs' \in [Actions -> Nat]
      <4>1. runs' = runs \/ runs' = [runs EXCEPT ![slot[p]] = runs[slot[p]] + 1]
        OBVIOUS
      <4>2. runs \in [Actions -> Nat]
        BY <2>1 DEF TypeOK
      <4> QED BY <3>1, <4>1, <4>2
    <3> QED BY <2>1, <3>3, <3>4, <3>5 DEF TypeOK
  <2>3. pc' \in [Turns -> {"new", "ended"} \cup Active]
    BY <2>1 DEF TypeOK, Active, Working
  <2>4. \A u \in Turns : pc'[u] = "executing" <=> held'[u] # None
    BY <2>1 DEF TypeOK, Active, Working
  <2>5. \A u \in Turns : pc'[u] \in {"executing"} \cup Working <=> home'[u] # None
    BY <2>1 DEF TypeOK, Active, Working
  <2> QED BY <2>1, <2>2, <2>3, <2>4, <2>5 DEF TypeOK
<1>2. Slots'
  BY DEF IInv, TypeOK, Slots
<1>3. ASSUME Direct' PROVE Direct /\ Alone'
  <2>1. Direct /\ Alone
    BY <1>3 DEF IInv, TypeOK, Direct, Serial
  <2>6. ASSUME NEW u \in Turns, u # t PROVE pc'[u] = pc[u] /\ ~InProgress(u)
    BY <1>3, <2>1, <2>6 DEF IInv, TypeOK, Alone, Direct, Serial, InProgress, Active, Working
  <2>2. \A u, v \in Turns : InProgress(u)' /\ InProgress(v)' => u = v
    BY <1>3, <2>1, <2>6 DEF IInv, TypeOK, Alone, Direct, Serial, InProgress, Active, Working
  <2>3. \A q \in Processes : slot'[q] # None => q = lastHome' /\ slot'[q] = shown'
    BY <1>3, <2>1, <2>6 DEF IInv, TypeOK, Alone, Direct, Serial, InProgress, Active, Working
  <2>7. \A u \in Turns : home'[u] # None => home'[u] = lastHome'
    BY <1>3, <2>1, <2>6 DEF IInv, TypeOK, Alone, Direct, Serial, InProgress, Active, Working
  <2>4. \A u \in Turns : pc'[u] = "sent" => meant'[u] = shown'
    BY <1>3, <2>1, <2>6 DEF IInv, TypeOK, Alone, Direct, Serial, InProgress, Active, Working
  <2>5. \A u \in Turns : pc'[u] = "executing" => held'[u] = meant'[u] /\ slot'[home'[u]] = held'[u]
    BY <1>3, <2>1, <2>6 DEF IInv, TypeOK, Alone, Direct, Serial, InProgress, Active, Working
  <2> QED BY <2>1, <2>2, <2>3, <2>4, <2>5, <2>7 DEF Alone
<1>4. ASSUME Direct', ~cutOff' PROVE RunOnce'
  <2>1. RunOnce /\ slot[p] \in asked \ declined /\ slot[p] \in Actions
    BY <1>3, <1>4 DEF IInv, TypeOK, Slots
  <2>2. ASSUME NEW u \in Turns PROVE pc[u] # "executing"
    BY <1>3, <1>4 DEF IInv, Alone, InProgress, Active, Working
  <2>3. runs[slot[p]] = 0 /\ pc'[t] = "executing" /\ runs' = [runs EXCEPT ![slot[p]] = @ + 1]
    BY <1>4, <2>1, <2>2 DEF RunOnce, IInv, TypeOK
  <2> QED BY <2>1, <2>3 DEF RunOnce, IInv, TypeOK
<1> QED BY <1>1, <1>2, <1>3, <1>4 DEF IInv

LEMMA PromptInv ==
  ASSUME IInv, NEW t \in Turns, NEW p \in Processes, Prompt(t, p)
  PROVE  IInv'
<1> USE DEF Prompt, At, Becomes, Forget
<1>1. TypeOK'
  BY DEF IInv, TypeOK, Active, Working, Texts, NoNote
<1>2. Slots'
  BY DEF IInv, TypeOK, Slots
<1>3. Direct' => Direct /\ Alone'
  BY DEF IInv, TypeOK, Alone, Direct, Serial, InProgress, Active, Working
<1>4. Direct' /\ ~cutOff' => RunOnce'
  BY <1>3 DEF IInv, TypeOK, Slots, Alone, RunOnce, InProgress, Active, Working
<1> QED BY <1>1, <1>2, <1>3, <1>4 DEF IInv

LEMMA ExecutedInv ==
  ASSUME IInv, NEW t \in Turns, Executed(t)
  PROVE  IInv'
<1> USE DEF Executed, Becomes, Forget
<1>1. TypeOK'
  BY DEF IInv, TypeOK, Active, Working, Texts, NoNote
<1>2. Slots'
  BY DEF IInv, TypeOK, Slots
<1>3. Direct' => Direct /\ Alone'
  BY DEF IInv, TypeOK, Alone, Direct, Serial, InProgress, Active, Working
<1>4. Direct' /\ ~cutOff' => RunOnce'
  BY <1>3 DEF IInv, TypeOK, Slots, Alone, RunOnce, InProgress, Active, Working
<1> QED BY <1>1, <1>2, <1>3, <1>4 DEF IInv

LEMMA AskInv ==
  ASSUME IInv, NEW t \in Turns, Ask(t)
  PROVE  IInv'
<1> USE DEF Ask, Becomes, Forget
<1>1. TypeOK'
  BY DEF IInv, TypeOK, Active, Working, Texts, NoNote
<1>2. Slots'
  BY DEF IInv, TypeOK, Slots
<1>3. ASSUME Direct' PROVE Direct /\ Alone'
  <2>1. Direct /\ Alone
    BY <1>3 DEF IInv, TypeOK, Direct, Serial
  <2>6. ASSUME NEW u \in Turns, u # t PROVE pc'[u] = pc[u] /\ ~InProgress(u)
    BY <1>3, <2>1, <2>6 DEF IInv, TypeOK, Alone, Direct, Serial, InProgress, Active, Working
  <2>2. \A u, v \in Turns : InProgress(u)' /\ InProgress(v)' => u = v
    BY <1>3, <2>1, <2>6 DEF IInv, TypeOK, Alone, Direct, Serial, InProgress, Active, Working
  <2>3. \A q \in Processes : slot'[q] # None => q = lastHome' /\ slot'[q] = shown'
    BY <1>3, <2>1 DEF IInv, TypeOK, Alone, Direct, Serial, Working
  <2>7. \A u \in Turns : home'[u] # None => home'[u] = lastHome'
    BY <1>3, <2>1, <2>6 DEF IInv, TypeOK, Alone, Direct, Serial, InProgress, Active, Working
  <2>4. \A u \in Turns : pc'[u] = "sent" => meant'[u] = shown'
    BY <1>3, <2>1, <2>6 DEF IInv, TypeOK, Alone, Direct, Serial, InProgress, Active, Working
  <2>5. \A u \in Turns : pc'[u] = "executing" => held'[u] = meant'[u] /\ slot'[home'[u]] = held'[u]
    BY <2>6 DEF IInv, TypeOK, InProgress, Active, Working
  <2> QED BY <2>1, <2>2, <2>3, <2>4, <2>5, <2>7 DEF Alone
<1>4. Direct' /\ ~cutOff' => RunOnce'
  BY <1>3 DEF IInv, TypeOK, Slots, Alone, RunOnce, InProgress, Active, Working
<1> QED BY <1>1, <1>2, <1>3, <1>4 DEF IInv

LEMMA AnswerInv ==
  ASSUME IInv, NEW t \in Turns, Answer(t)
  PROVE  IInv'
<1> USE DEF Answer, Becomes, Forget, past
<1>1. TypeOK'
  BY DEF IInv, TypeOK, Active, Working, Texts, NoNote
<1>2. Slots'
  BY DEF IInv, TypeOK, Slots
<1>3. Direct' => Direct /\ Alone'
  BY DEF IInv, TypeOK, Alone, Direct, Serial, InProgress, Active, Working
<1>4. Direct' /\ ~cutOff' => RunOnce'
  BY <1>3 DEF IInv, TypeOK, Slots, Alone, RunOnce, InProgress, Active, Working
<1> QED BY <1>1, <1>2, <1>3, <1>4 DEF IInv

LEMMA CutOffInv ==
  ASSUME IInv, NEW t \in Turns, CutOff(t)
  PROVE  IInv'
<1> USE DEF CutOff, EndTurns, NoNote
<1>1. TypeOK'
  BY DEF IInv, TypeOK, Active, Working, Texts, NoNote
<1>2. Slots'
  BY DEF IInv, TypeOK, Slots
<1>3. Direct' => Direct /\ Alone'
  BY DEF IInv, TypeOK, Alone, Direct, Serial, InProgress, Active, Working
<1>4. Direct' /\ ~cutOff' => RunOnce'
  BY <1>3 DEF IInv, TypeOK, Slots, Alone, RunOnce, InProgress, Active, Working
<1> QED BY <1>1, <1>2, <1>3, <1>4 DEF IInv

LEMMA RestartInv ==
  ASSUME IInv, NEW p \in Processes, Restart(p)
  PROVE  IInv'
<1> USE DEF Restart, EndTurns, Forget, NoNote
<1>1. TypeOK'
  BY DEF IInv, TypeOK, Active, Working, Texts, NoNote
<1>2. Slots'
  BY DEF IInv, TypeOK, Slots
<1>3. Direct' => Direct /\ Alone'
  BY DEF IInv, TypeOK, Alone, Direct, Serial, InProgress, Active, Working
<1>4. Direct' /\ ~cutOff' => RunOnce'
  BY <1>3 DEF IInv, TypeOK, Slots, Alone, RunOnce, InProgress, Active, Working
<1> QED BY <1>1, <1>2, <1>3, <1>4 DEF IInv

LEMMA StepInv == IInv /\ [Next]_vars => IInv'
<1> SUFFICES ASSUME IInv, [Next]_vars PROVE IInv'
  OBVIOUS
<1>1. CASE Next
  BY <1>1, SendInv, ResubmitInv, EnqueueInv, FoldInv, WorkInv, CancelInv, ConfirmInv, PromptInv,
     ExecutedInv, AskInv, AnswerInv, CutOffInv, RestartInv
  DEF Next, Take
<1>2. CASE UNCHANGED vars
  <2> USE <1>2 DEF vars, past
  <2>1. TypeOK' /\ Slots'
    BY DEF IInv, TypeOK, Slots
  <2>2. Direct' = Direct /\ (Direct => Alone')
    BY DEF IInv, Direct, Serial, Alone, InProgress
  <2>3. Direct /\ ~cutOff => RunOnce'
    BY DEF IInv, RunOnce
  <2> QED BY <2>1, <2>2, <2>3 DEF IInv
<1> QED BY <1>1, <1>2

LEMMA SpecInv == Spec => []IInv
  BY InitInv, StepInv, PTL DEF Spec

\* Every variable keeps its type; a turn holds an action exactly while it
\* executes one, and a process exactly while it works there.
THEOREM TypeCorrect == Spec => []TypeOK
  BY SpecInv, PTL DEF IInv

\* While turns are direct, what runs is what the user was shown last and said yes
\* to; and it runs once, unless an execution was cut off.
THEOREM ApprovedRuns == Spec => []ApprovedExactly
<1>1. IInv => ApprovedExactly
  BY DEF IInv, Alone, RunOnce, ApprovedExactly
<1> QED BY <1>1, SpecInv, PTL

\* Under the same terms, what was declined did not run.
THEOREM CancelledNeverRan == Spec => []CancelledMeansNotRun
<1>1. IInv => CancelledMeansNotRun
  BY DEF IInv, RunOnce, CancelledMeansNotRun
<1> QED BY <1>1, SpecInv, PTL

DeclinedKept == \A a \in declined : runs'[a] = runs[a]

LEMMA StepDeclined == IInv /\ [Next]_vars => [DeclinedKept]_vars
<1> SUFFICES ASSUME IInv, Next PROVE DeclinedKept
  OBVIOUS
<1>1. CASE \E t \in Turns, p \in Processes : Confirm(t, p)
  <2>1. PICK t \in Turns, p \in Processes : Confirm(t, p)
    BY <1>1
  <2>2. slot[p] \notin declined
    BY <2>1 DEF Confirm, IInv, Slots
  <2>3. runs' = runs \/ runs' = [runs EXCEPT ![slot[p]] = @ + 1]
    BY <2>1 DEF Confirm
  <2> QED BY <2>2, <2>3 DEF DeclinedKept, IInv, TypeOK
<1>2. CASE ~ \E t \in Turns, p \in Processes : Confirm(t, p)
  <2>1. runs' = runs
    BY <1>2 DEF Next, Take, Send, Resubmit, Create, Enqueue, Fold, Work, Cancel, Prompt, Executed, Ask,
                Answer, CutOff, Restart, EndTurns, past
  <2> QED BY <2>1 DEF DeclinedKept
<1> QED BY <1>1, <1>2

\* However turns overlap, stray and are cut off, what was declined is not started
\* after the no.
THEOREM DeclinedStaysDeclined == Spec => DeclinedStays
<1>1. IInv /\ [Next]_vars => [DeclinedKept]_vars
  BY StepDeclined
<1>2. DeclinedStays <=> [][DeclinedKept]_vars
  BY PTL DEF DeclinedStays, DeclinedKept
<1> QED BY <1>1, <1>2, SpecInv, PTL DEF Spec

================================================================================
