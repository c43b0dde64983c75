----------------------- MODULE CallEventQueue_proofs -----------------------
(***************************************************************************)
(* Proofs about the module CallEventQueue, for any set of events and       *)
(* dispatchers, all limits and every Env: its invariants, and that it      *)
(* implements EventHandover.                                               *)
(***************************************************************************)
EXTENDS CallEventQueue, FiniteSetTheorems, TLAPS

(***************************************************************************)
(* The inductive invariant.                                                *)
(***************************************************************************)
\* No worker has seen an event that is not in call_event yet, or that was lost.
UnseenUnsent ==
  \A e \in Event : stage[e] \notin {"pending", "done"} => message[e] = 0 /\ started[e] = 0

\* A run holds rows of call_event, and those it has sent are on their way.
BatchStored ==
  \A d \in Dispatcher : pc[d] = "send" =>
    /\ \A e \in batch[d] : stage[e] \in {"pending", "done"}
    /\ \A e \in sent[d] : message[e] + started[e] >= 1

\* While no run has failed: one run at a time, over rows that are still pending, and
\* a pending row that was sent is one of its rows.
OneRun == \A d \in Dispatcher : pc[d] # "idle" => lock = d
BatchPending == \A d \in Dispatcher : pc[d] = "send" => batch[d] \subseteq At("pending")
HandedOnce == \A e \in Event : message[e] + started[e] <= 1
SentByARun ==
  \A e \in Event : stage[e] = "pending" /\ message[e] + started[e] >= 1 =>
    \E d \in Dispatcher : pc[d] = "send" /\ e \in sent[d]
NoFaultYet == faults = 0 => OneRun /\ BatchPending /\ HandedOnce /\ SentByARun

IInv == TypeOK /\ UnseenUnsent /\ BatchStored /\ DoneMeansSent /\ NoFaultYet

(***************************************************************************)
(* Type correctness.                                                       *)
(***************************************************************************)
LEMMA InitTyped == Init => TypeOK
BY LimitAssumption DEF Init, TypeOK, Stage, ListenerState, DispatcherPc

LEMMA ListenerKeepsTypes ==
  ASSUME TypeOK, (\E e \in Event : Fire(e)) \/ ListenerStep \/ StopListener \/ DbDown \/ DbUp
  PROVE  TypeOK'
<1>1. \A B \in SUBSET Event, st \in Stage : Moved(B, st) \in [Event -> Stage]
  BY DEF TypeOK, Moved
<1>2. CASE \E e \in Event : Fire(e)
  BY <1>1, <1>2 DEF Fire, TypeOK, dispatcherVars, Stage
<1>3. CASE ListenerStep
  <2>1. ASSUME NEW e \in Event, PushEvent(e) PROVE TypeOK'
    <3>1. stage' \in [Event -> Stage]
      BY <1>1, <2>1 DEF PushEvent, Stage
    <3>2. listener' \in ListenerState /\ countrecon' \in 0 .. MaxReconnect + 1
      BY <2>1, LimitAssumption DEF PushEvent, TypeOK, ListenerState
    <3>3. QED
      BY <2>1, <3>1, <3>2 DEF PushEvent, TypeOK, dispatcherVars
  <2>2. CASE Heartbeat \/ Reconnect \/ StartListener
    BY <2>2, LimitAssumption DEF Heartbeat, Reconnect, StartListener, TypeOK,
       dispatcherVars, ListenerState
  <2>3. CASE CommitEvent
    <3>1. stage' \in [Event -> Stage]
      BY <1>1, <2>3 DEF CommitEvent, At, Stage
    <3>2. QED
      BY <2>3, <3>1 DEF CommitEvent, TypeOK, dispatcherVars, ListenerState
  <2>4. QED
    BY <1>3, <2>1, <2>2, <2>3 DEF ListenerStep
<1>4. CASE StopListener
  BY <1>1, <1>4 DEF StopListener, At, TypeOK, dispatcherVars, Stage, ListenerState
<1>5. CASE DbDown \/ DbUp
  <2>1. faults' \in 0 .. MaxFaults
    BY <1>5, LimitAssumption DEF DbDown, DbUp, TypeOK
  <2>2. dbUp' \in BOOLEAN
    BY <1>5 DEF DbDown, DbUp
  <2>3. UNCHANGED <<stage, listener, countrecon, dispatcherVars, started>>
    BY <1>5 DEF DbDown, DbUp
  <2>4. QED
    BY <2>1, <2>2, <2>3 DEF TypeOK, dispatcherVars
<1>6. QED
  BY <1>2, <1>3, <1>4, <1>5

LEMMA DispatcherKeepsTypes ==
  ASSUME TypeOK, NEW d \in Dispatcher, DispatcherStep(d) \/ SendFails(d) \/ Crash(d)
  PROVE  TypeOK'
<1>1. CASE TaskPendingCallevent(d)
  BY <1>1 DEF TaskPendingCallevent, TypeOK, listenerVars, DispatcherPc
<1>2. CASE SelectPending(d)
  BY <1>2 DEF SelectPending, Fetched, At, TypeOK, listenerVars, DispatcherPc
<1>3. CASE SelectFails(d)
  BY <1>3 DEF SelectFails, TypeOK, listenerVars, DispatcherPc
<1>4. ASSUME NEW e \in Event, SendTask(d, e) PROVE TypeOK'
  BY <1>4 DEF SendTask, TypeOK, listenerVars
<1>5. CASE UpdateStatus(d)
  <2>1. Moved(batch[d], "done") \in [Event -> Stage]
    BY DEF TypeOK, Moved, Stage
  <2>2. QED
    BY <1>5, <2>1 DEF UpdateStatus, TypeOK, DispatcherPc
<1>6. CASE SendFails(d) \/ Crash(d)
  BY <1>6, LimitAssumption DEF SendFails, Crash, TypeOK, listenerVars, DispatcherPc
<1>7. QED
  BY <1>1, <1>2, <1>3, <1>4, <1>5, <1>6 DEF DispatcherStep

LEMMA OthersKeepTypes ==
  ASSUME TypeOK, (\E e \in Event : ProcessCallevent(e)) \/ ExpireDead \/ ExpireAlive
                   \/ UNCHANGED vars
  PROVE  TypeOK'
<1>1. CASE \E e \in Event : ProcessCallevent(e)
  BY <1>1 DEF ProcessCallevent, TypeOK, listenerVars
<1>2. CASE ExpireDead \/ ExpireAlive
  BY <1>2, LimitAssumption DEF ExpireDead, ExpireAlive, TypeOK, listenerVars
<1>3. CASE UNCHANGED vars
  BY <1>3 DEF vars, TypeOK
<1>4. QED
  BY <1>1, <1>2, <1>3

LEMMA NextKeepsTypes == TypeOK /\ [Next]_vars => TypeOK'
BY ListenerKeepsTypes, DispatcherKeepsTypes, OthersKeepTypes DEF Next

\* Every row, message and run keeps its type, whatever the sizes and the faults.
THEOREM QueueTypeCorrect == Spec => []TypeOK
BY InitTyped, NextKeepsTypes, PTL DEF Spec

(***************************************************************************)
(* The steps.  What a listener's step does to a row: it moves events among *)
(* the stages no worker sees, or stores them.                              *)
(***************************************************************************)
LEMMA InitInv == Init => IInv
<1> SUFFICES ASSUME Init PROVE IInv
  OBVIOUS
<1>1. TypeOK
  BY InitTyped
<1>2. UnseenUnsent /\ BatchStored /\ DoneMeansSent
  BY DEF Init, UnseenUnsent, BatchStored, DoneMeansSent
<1>3. NoFaultYet
  BY DEF Init, NoFaultYet, OneRun, BatchPending, HandedOnce, SentByARun
<1>4. QED
  BY <1>1, <1>2, <1>3 DEF IInv

LEMMA ListenerMoves ==
  ASSUME TypeOK, (\E e \in Event : Fire(e)) \/ ListenerStep \/ StopListener \/ DbDown \/ DbUp
  PROVE  /\ \A e \in Event : \/ stage'[e] = stage[e]
                             \/ /\ stage[e] \notin {"pending", "done"}
                                /\ stage'[e] # "done"
         /\ faults' >= faults
         /\ UNCHANGED <<lock, pc, batch, sent, message, started>>
<1>1. CASE \E e \in Event : Fire(e)
  BY <1>1 DEF Fire, Moved, TypeOK, dispatcherVars
<1>2. CASE \E e \in Event : PushEvent(e)
  BY <1>2 DEF PushEvent, Moved, TypeOK, dispatcherVars
<1>3. CASE Heartbeat \/ Reconnect \/ StartListener
  BY <1>3 DEF Heartbeat, Reconnect, StartListener, TypeOK, dispatcherVars
<1>4. CASE CommitEvent \/ StopListener
  BY <1>4 DEF CommitEvent, StopListener, Moved, At, TypeOK, dispatcherVars
<1>5. CASE DbDown \/ DbUp
  BY <1>5 DEF DbDown, DbUp, TypeOK, dispatcherVars
<1>6. QED
  BY <1>1, <1>2, <1>3, <1>4, <1>5 DEF ListenerStep

LEMMA ListenerKeepsInv ==
  ASSUME IInv, (\E e \in Event : Fire(e)) \/ ListenerStep \/ StopListener \/ DbDown \/ DbUp
  PROVE  IInv'
<1>1. TypeOK /\ TypeOK'
  BY ListenerKeepsTypes DEF IInv
<1>2. /\ \A e \in Event : \/ stage'[e] = stage[e]
                         \/ /\ stage[e] \notin {"pending", "done"}
                            /\ stage'[e] # "done"
      /\ faults' >= faults
      /\ UNCHANGED <<lock, pc, batch, sent, message, started>>
  BY <1>1, ListenerMoves
<1>3. UnseenUnsent'
  BY <1>2 DEF IInv, UnseenUnsent
<1>4. BatchStored' /\ DoneMeansSent'
  BY <1>1, <1>2 DEF IInv, TypeOK, BatchStored, DoneMeansSent
<1>5. NoFaultYet'
  <2> SUFFICES ASSUME faults' = 0 PROVE (OneRun /\ BatchPending /\ HandedOnce /\ SentByARun)'
    BY DEF NoFaultYet
  <2>1. OneRun /\ BatchPending /\ HandedOnce /\ SentByARun
    BY <1>1, <1>2 DEF IInv, NoFaultYet, TypeOK
  <2>2. OneRun' /\ HandedOnce'
    BY <1>2, <2>1 DEF OneRun, HandedOnce
  <2>3. BatchPending'
    BY <1>1, <1>2, <2>1 DEF BatchPending, At, TypeOK
  <2>4. SentByARun'
    <3> SUFFICES ASSUME NEW e \in Event, stage'[e] = "pending", message[e] + started[e] >= 1
                 PROVE  \E d \in Dispatcher : pc[d] = "send" /\ e \in sent[d]
      BY <1>2 DEF SentByARun
    <3>1. stage[e] \in {"pending", "done"}
      BY <1>1 DEF IInv, UnseenUnsent, TypeOK
    <3>2. stage[e] = "pending"
      BY <1>2, <3>1
    <3>3. QED
      BY <2>1, <3>2 DEF SentByARun
  <2>5. QED
    BY <2>2, <2>3, <2>4
<1>6. QED
  BY <1>1, <1>3, <1>4, <1>5 DEF IInv

\* A run that starts, finds nothing or selects its rows.
LEMMA SelectKeepsInv ==
  ASSUME IInv, NEW d \in Dispatcher,
         TaskPendingCallevent(d) \/ SelectPending(d) \/ SelectFails(d)
  PROVE  IInv'
<1>1. TypeOK /\ TypeOK'
  BY DispatcherKeepsTypes DEF IInv, DispatcherStep
<1>2. UNCHANGED <<stage, message, started, faults>>
  BY DEF TaskPendingCallevent, SelectPending, SelectFails, listenerVars
<1>3. UnseenUnsent' /\ DoneMeansSent'
  BY <1>2 DEF IInv, UnseenUnsent, DoneMeansSent
<1>4. CASE TaskPendingCallevent(d)
  <2>1. BatchStored'
    BY <1>1, <1>2, <1>4 DEF IInv, BatchStored, TaskPendingCallevent, TypeOK
  <2>2. NoFaultYet'
    <3> SUFFICES ASSUME faults = 0 PROVE (OneRun /\ BatchPending /\ HandedOnce /\ SentByARun)'
      BY <1>2 DEF NoFaultYet
    <3>1. OneRun /\ BatchPending /\ HandedOnce /\ SentByARun
      BY DEF IInv, NoFaultYet
    <3>2. OneRun' /\ HandedOnce'
      BY <1>1, <1>2, <1>4, <3>1, NullAssumption
         DEF OneRun, HandedOnce, TaskPendingCallevent, TypeOK
    <3>3. BatchPending' /\ SentByARun'
      BY <1>1, <1>2, <1>4, <3>1
         DEF BatchPending, SentByARun, At, TaskPendingCallevent, TypeOK
    <3>4. QED
      BY <3>2, <3>3
  <2>3. QED
    BY <1>1, <1>3, <2>1, <2>2 DEF IInv
<1>5. CASE SelectPending(d)
  <2>1. /\ batch'[d] \subseteq At("pending") /\ sent'[d] = {}
        /\ pc[d] = "select" /\ pc' = [pc EXCEPT ![d] = "send"]
        /\ \A x \in Dispatcher : x # d => batch'[x] = batch[x] /\ sent'[x] = sent[x]
        /\ lock' = lock
    BY <1>1, <1>5 DEF SelectPending, Fetched, TypeOK
  <2>2. BatchStored'
    BY <1>1, <1>2, <2>1 DEF IInv, BatchStored, At, TypeOK
  <2>3. NoFaultYet'
    <3> SUFFICES ASSUME faults = 0 PROVE (OneRun /\ BatchPending /\ HandedOnce /\ SentByARun)'
      BY <1>2 DEF NoFaultYet
    <3>1. OneRun /\ BatchPending /\ HandedOnce /\ SentByARun
      BY DEF IInv, NoFaultYet
    <3>2. OneRun' /\ HandedOnce'
      BY <1>1, <1>2, <2>1, <3>1 DEF OneRun, HandedOnce, TypeOK
    <3>3. BatchPending'
      BY <1>1, <1>2, <2>1, <3>1 DEF BatchPending, At, TypeOK
    <3>4. \A x \in Dispatcher : pc[x] # "send"
      BY <2>1, <3>1 DEF OneRun
    <3>5. SentByARun'
      BY <1>2, <3>1, <3>4 DEF SentByARun
    <3>6. QED
      BY <3>2, <3>3, <3>5
  <2>4. QED
    BY <1>1, <1>3, <2>2, <2>3 DEF IInv
<1>6. CASE SelectFails(d)
  <2>1. BatchStored'
    BY <1>1, <1>2, <1>6 DEF IInv, BatchStored, SelectFails, TypeOK
  <2>2. NoFaultYet'
    <3> SUFFICES ASSUME faults = 0 PROVE (OneRun /\ BatchPending /\ HandedOnce /\ SentByARun)'
      BY <1>2 DEF NoFaultYet
    <3>1. OneRun /\ BatchPending /\ HandedOnce /\ SentByARun
      BY DEF IInv, NoFaultYet
    <3>2. OneRun' /\ HandedOnce'
      BY <1>1, <1>2, <1>6, <3>1 DEF OneRun, HandedOnce, SelectFails, TypeOK
    <3>3. BatchPending' /\ SentByARun'
      BY <1>1, <1>2, <1>6, <3>1 DEF BatchPending, SentByARun, At, SelectFails, TypeOK
    <3>4. QED
      BY <3>2, <3>3
  <2>3. QED
    BY <1>1, <1>3, <2>1, <2>2 DEF IInv
<1>7. QED
  BY <1>4, <1>5, <1>6

\* The row that is sent is pending and was not sent before, unless a run has failed.
LEMMA SendKeepsInv ==
  ASSUME IInv, NEW d \in Dispatcher, NEW e \in Event, SendTask(d, e)
  PROVE  IInv'
<1>1. TypeOK /\ TypeOK'
  BY DispatcherKeepsTypes DEF IInv, DispatcherStep
<1>2. /\ pc[d] = "send" /\ e \in batch[d] \ sent[d]
      /\ sent' = [sent EXCEPT ![d] = @ \cup {e}]
      /\ message' = [message EXCEPT ![e] = @ + 1]
      /\ UNCHANGED <<stage, lock, pc, batch, started, faults>>
  BY DEF SendTask, listenerVars
<1>3. \A x \in Event : message'[x] + started'[x] >= message[x] + started[x]
  BY <1>1, <1>2 DEF TypeOK
<1>4. message'[e] + started'[e] >= 1
  BY <1>1, <1>2 DEF TypeOK
<1>5. UnseenUnsent'
  BY <1>1, <1>2 DEF IInv, UnseenUnsent, BatchStored, TypeOK
<1>6. DoneMeansSent'
  <2> SUFFICES ASSUME NEW x \in Event, stage[x] = "done" PROVE message'[x] + started'[x] >= 1
    BY <1>2 DEF DoneMeansSent
  <2>1. message[x] + started[x] >= 1 /\ message[x] \in Nat /\ started[x] \in Nat
    BY <1>1 DEF IInv, DoneMeansSent, TypeOK
  <2>2. QED
    BY <1>1, <1>3, <2>1 DEF TypeOK
<1>7. BatchStored'
  <2> SUFFICES ASSUME NEW x \in Dispatcher, pc[x] = "send", NEW f \in Event, f \in sent'[x]
               PROVE  message'[f] + started'[f] >= 1
    BY <1>1, <1>2 DEF IInv, BatchStored, TypeOK
  <2>1. CASE f = e
    BY <1>4, <2>1
  <2>2. CASE f # e
    BY <1>1, <1>2, <2>2 DEF IInv, BatchStored, TypeOK
  <2>3. QED
    BY <2>1, <2>2
<1>8. NoFaultYet'
  <2> SUFFICES ASSUME faults = 0 PROVE (OneRun /\ BatchPending /\ HandedOnce /\ SentByARun)'
    BY <1>2 DEF NoFaultYet
  <2>1. OneRun /\ BatchPending /\ HandedOnce /\ SentByARun
    BY DEF IInv, NoFaultYet
  <2>2. OneRun' /\ BatchPending'
    BY <1>2, <2>1 DEF OneRun, BatchPending, At
  <2>3. message[e] = 0 /\ started[e] = 0
    <3>1. stage[e] = "pending"
      BY <1>2, <2>1 DEF BatchPending, At
    <3>2. \A x \in Dispatcher : pc[x] = "send" => x = d
      BY <1>2, <2>1 DEF OneRun
    <3>3. ~(message[e] + started[e] >= 1)
      BY <1>2, <2>1, <3>1, <3>2 DEF SentByARun
    <3>4. QED
      BY <1>1, <3>3 DEF TypeOK
  <2>4. HandedOnce'
    BY <1>1, <1>2, <2>1, <2>3 DEF HandedOnce, TypeOK
  <2>5. SentByARun'
    <3> SUFFICES ASSUME NEW x \in Event, stage[x] = "pending", message'[x] + started'[x] >= 1
                 PROVE  \E y \in Dispatcher : pc[y] = "send" /\ x \in sent'[y]
      BY <1>2 DEF SentByARun
    <3>1. CASE x = e
      BY <1>1, <1>2, <3>1 DEF TypeOK
    <3>2. CASE x # e
      <4>1. message[x] + started[x] >= 1
        BY <1>1, <1>2, <3>2 DEF TypeOK
      <4>2. \E y \in Dispatcher : pc[y] = "send" /\ x \in sent[y]
        BY <2>1, <4>1 DEF SentByARun
      <4>3. QED
        BY <1>1, <1>2, <4>2 DEF TypeOK
    <3>3. QED
      BY <3>1, <3>2
  <2>6. QED
    BY <2>2, <2>4, <2>5
<1>9. QED
  BY <1>1, <1>5, <1>6, <1>7, <1>8 DEF IInv

\* Every row of the batch was sent when the run marks it.
LEMMA UpdateKeepsInv ==
  ASSUME IInv, NEW d \in Dispatcher, UpdateStatus(d)
  PROVE  IInv'
<1>1. TypeOK /\ TypeOK'
  BY DispatcherKeepsTypes DEF IInv, DispatcherStep
<1>2. /\ pc[d] = "send" /\ sent[d] = batch[d]
      /\ \A e \in Event : stage'[e] = IF e \in batch[d] THEN "done" ELSE stage[e]
      /\ pc' = [pc EXCEPT ![d] = "idle"]
      /\ UNCHANGED <<batch, sent, message, started, faults>>
  BY DEF UpdateStatus, Moved
<1>3. UnseenUnsent' /\ DoneMeansSent' /\ BatchStored'
  BY <1>1, <1>2 DEF IInv, UnseenUnsent, DoneMeansSent, BatchStored, TypeOK
<1>4. NoFaultYet'
  <2> SUFFICES ASSUME faults = 0 PROVE (OneRun /\ BatchPending /\ HandedOnce /\ SentByARun)'
    BY <1>2 DEF NoFaultYet
  <2>1. OneRun /\ BatchPending /\ HandedOnce /\ SentByARun
    BY DEF IInv, NoFaultYet
  <2>2. \A x \in Dispatcher : pc'[x] = "idle"
    BY <1>1, <1>2, <2>1 DEF OneRun, TypeOK
  <2>3. OneRun' /\ BatchPending' /\ HandedOnce'
    BY <1>2, <2>1, <2>2 DEF OneRun, BatchPending, HandedOnce
  <2>4. SentByARun'
    <3> SUFFICES ASSUME NEW e \in Event, stage'[e] = "pending", message[e] + started[e] >= 1
                 PROVE  FALSE
      BY <1>2 DEF SentByARun
    <3>1. stage[e] = "pending" /\ e \notin batch[d]
      BY <1>2
    <3>2. PICK x \in Dispatcher : pc[x] = "send" /\ e \in sent[x]
      BY <2>1, <3>1 DEF SentByARun
    <3>3. x = d
      BY <1>2, <2>1, <3>2 DEF OneRun
    <3>4. QED
      BY <1>2, <3>1, <3>2, <3>3
  <2>5. QED
    BY <2>3, <2>4
<1>5. QED
  BY <1>1, <1>3, <1>4 DEF IInv

\* A failure leaves every row where it is; what only holds without failures is over.
LEMMA FailureKeepsInv ==
  ASSUME IInv, (\E d \in Dispatcher : SendFails(d) \/ Crash(d)) \/ ExpireAlive
  PROVE  IInv'
<1>1. TypeOK /\ TypeOK'
  BY DispatcherKeepsTypes, OthersKeepTypes DEF IInv
<1>2. /\ faults' = faults + 1
      /\ UNCHANGED <<stage, batch, sent, message, started>>
      /\ \A x \in Dispatcher : pc'[x] = "send" => pc[x] = "send"
  BY <1>1 DEF SendFails, Crash, ExpireAlive, listenerVars, TypeOK
<1>3. UnseenUnsent' /\ DoneMeansSent' /\ BatchStored'
  BY <1>2 DEF IInv, UnseenUnsent, DoneMeansSent, BatchStored
<1>4. NoFaultYet'
  BY <1>1, <1>2 DEF NoFaultYet, TypeOK
<1>5. QED
  BY <1>1, <1>3, <1>4 DEF IInv

LEMMA ExpireDeadKeepsInv ==
  ASSUME IInv, ExpireDead
  PROVE  IInv'
<1>1. TypeOK /\ TypeOK'
  BY OthersKeepTypes DEF IInv
<1>2. /\ lock # NoDispatcher /\ pc[lock] = "idle"
      /\ UNCHANGED <<stage, pc, batch, sent, message, started, faults>>
  BY DEF ExpireDead, listenerVars
<1>3. UnseenUnsent' /\ DoneMeansSent' /\ BatchStored'
  BY <1>2 DEF IInv, UnseenUnsent, DoneMeansSent, BatchStored
<1>4. NoFaultYet'
  BY <1>2 DEF IInv, NoFaultYet, OneRun, BatchPending, At, HandedOnce, SentByARun
<1>5. QED
  BY <1>1, <1>3, <1>4 DEF IInv

LEMMA ProcessKeepsInv ==
  ASSUME IInv, NEW e \in Event, ProcessCallevent(e)
  PROVE  IInv'
<1>1. TypeOK /\ TypeOK'
  BY OthersKeepTypes DEF IInv
<1>2. /\ message[e] > 0
      /\ UNCHANGED <<stage, lock, pc, batch, sent, faults>>
  BY DEF ProcessCallevent, listenerVars
<1>3. \A x \in Event : message'[x] + started'[x] = message[x] + started[x]
  BY <1>1 DEF ProcessCallevent, TypeOK
<1>4. UnseenUnsent'
  <2>1. stage[e] \in {"pending", "done"}
    BY <1>1, <1>2 DEF IInv, UnseenUnsent, TypeOK
  <2>2. \A x \in Event : x # e => message'[x] = message[x] /\ started'[x] = started[x]
    BY <1>1 DEF ProcessCallevent, TypeOK
  <2>3. QED
    BY <1>2, <2>1, <2>2 DEF IInv, UnseenUnsent
<1>5. DoneMeansSent' /\ BatchStored'
  BY <1>1, <1>2, <1>3 DEF IInv, DoneMeansSent, BatchStored, TypeOK
<1>6. NoFaultYet'
  BY <1>2, <1>3 DEF IInv, NoFaultYet, OneRun, BatchPending, At, HandedOnce, SentByARun
<1>7. QED
  BY <1>1, <1>4, <1>5, <1>6 DEF IInv

LEMMA NextKeepsInv == IInv /\ [Next]_vars => IInv'
<1> SUFFICES ASSUME IInv, [Next]_vars PROVE IInv'
  OBVIOUS
<1>1. CASE UNCHANGED vars
  BY <1>1 DEF vars, IInv, TypeOK, UnseenUnsent, BatchStored, DoneMeansSent, NoFaultYet,
     OneRun, BatchPending, At, HandedOnce, SentByARun
<1>2. CASE Next
  BY <1>2, ListenerKeepsInv, SelectKeepsInv, SendKeepsInv, UpdateKeepsInv, FailureKeepsInv,
     ExpireDeadKeepsInv, ProcessKeepsInv DEF Next, DispatcherStep
<1>3. QED
  BY <1>1, <1>2

THEOREM QueueInvariant == Spec => []IInv
BY InitInv, NextKeepsInv, PTL DEF Spec

\* The UPDATE of a run never marks a row that no run has sent, however runs overlap, die
\* or fail, for any number of them and every Env.
THEOREM MarkedRowsWereSent == Spec => []DoneMeansSent
<1>1. IInv => DoneMeansSent
  BY DEF IInv
<1>2. QED
  BY <1>1, QueueInvariant, PTL

(***************************************************************************)
(* The path implements EventHandover.                                      *)
(***************************************************************************)
LEMMA InitHandover == Init => Handover!Init
BY DEF Init, Handover!Init, At

\* What the outside sees of a listener's step: an event reported, or events lost that
\* no worker saw.
LEMMA ListenerHandover ==
  ASSUME IInv, (\E e \in Event : Fire(e)) \/ ListenerStep \/ StopListener
  PROVE  [Handover!Next]_(Handover!vars)
<1>1. TypeOK /\ UnseenUnsent
  BY DEF IInv
<1>2. UNCHANGED started /\ UNCHANGED faults
  BY DEF Fire, ListenerStep, PushEvent, Heartbeat, Reconnect, CommitEvent, StartListener,
     StopListener, dispatcherVars
<1>3. ASSUME NEW e \in Event, Fire(e) PROVE Handover!Report(e)
  BY <1>1, <1>2, <1>3 DEF Fire, Moved, At, Handover!Report, TypeOK
<1>4. ASSUME NEW B \in SUBSET Event, NEW st \in {"buffer", "pending"}, stage' = Moved(B, st),
             \A e \in B : stage[e] \in {"consumer", "buffer"}
      PROVE  UNCHANGED Handover!vars
  BY <1>1, <1>2, <1>4 DEF Moved, At, Handover!vars, TypeOK
<1>5. ASSUME NEW B \in SUBSET Event, stage' = Moved(B, "lost"),
             \A e \in B : stage[e] \in {"consumer", "buffer"}
      PROVE  Handover!Lose(B)
  BY <1>1, <1>2, <1>5 DEF Moved, At, Handover!Lose, TypeOK, UnseenUnsent
<1>6. CASE \E e \in Event : PushEvent(e)
  BY <1>4, <1>6 DEF PushEvent
<1>7. CASE Heartbeat \/ Reconnect \/ StartListener
  BY <1>2, <1>7 DEF Heartbeat, Reconnect, StartListener, At, Handover!vars
<1>8. CASE CommitEvent
  <2>1. At("buffer") \in SUBSET Event /\ \A e \in At("buffer") : stage[e] = "buffer"
    BY DEF At
  <2>2. stage' = Moved(At("buffer"), "pending") \/ stage' = Moved(At("buffer"), "lost")
    BY <1>8 DEF CommitEvent
  <2>3. QED
    BY <1>4, <1>5, <2>1, <2>2 DEF Handover!Next
<1>9. CASE StopListener
  <2>1. /\ At("buffer") \cup At("consumer") \in SUBSET Event
        /\ \A e \in At("buffer") \cup At("consumer") : stage[e] \in {"consumer", "buffer"}
    BY DEF At
  <2>2. stage' = Moved(At("buffer") \cup At("consumer"), "lost")
    BY <1>9 DEF StopListener
  <2>3. QED
    BY <1>5, <2>1, <2>2 DEF Handover!Next
<1>10. QED
  BY <1>3, <1>6, <1>7, <1>8, <1>9 DEF ListenerStep, Handover!Next

LEMMA RunHandover ==
  ASSUME IInv, NEW d \in Dispatcher, DispatcherStep(d)
  PROVE  UNCHANGED Handover!vars
<1>1. TypeOK /\ BatchStored
  BY DEF IInv
<1>2. CASE UpdateStatus(d)
  BY <1>1, <1>2 DEF UpdateStatus, Moved, At, Handover!vars, TypeOK, BatchStored
<1>3. CASE ~UpdateStatus(d)
  <2>1. UNCHANGED <<stage, started, faults>>
    BY <1>3 DEF DispatcherStep, TaskPendingCallevent, SelectPending, SelectFails, SendTask,
       listenerVars
  <2>2. QED
    BY <2>1 DEF At, Handover!vars
<1>4. QED
  BY <1>2, <1>3

\* A worker that starts a task: the event was reported, not lost, and not handed over
\* before unless a run has failed.
LEMMA ProcessHandover ==
  ASSUME IInv, NEW e \in Event, ProcessCallevent(e)
  PROVE  Handover!HandOver(e)
<1>1. TypeOK /\ UnseenUnsent /\ NoFaultYet
  BY DEF IInv
<1>2. message[e] > 0 /\ started' = [started EXCEPT ![e] = @ + 1] /\ UNCHANGED <<stage, faults>>
  BY DEF ProcessCallevent, listenerVars
<1>3. stage[e] \in {"pending", "done"}
  BY <1>1, <1>2 DEF UnseenUnsent, TypeOK
<1>4. started[e] = 0 \/ faults > 0
  <2>1. faults = 0 => HandedOnce
    BY <1>1 DEF NoFaultYet
  <2>2. message[e] \in Nat /\ started[e] \in Nat /\ faults \in Nat
    BY <1>1, LimitAssumption DEF TypeOK
  <2>3. QED
    BY <1>2, <2>1, <2>2 DEF HandedOnce
<1>5. QED
  BY <1>2, <1>3, <1>4 DEF Handover!HandOver, At

LEMMA FailureHandover ==
  ASSUME IInv, \/ \E d \in Dispatcher : SendFails(d) \/ Crash(d)
               \/ DbDown \/ DbUp \/ ExpireDead \/ ExpireAlive \/ UNCHANGED vars
  PROVE  [Handover!Next]_(Handover!vars)
<1>1. faults \in Nat
  BY LimitAssumption DEF IInv, TypeOK
<1>2. UNCHANGED <<stage, started>> /\ (faults' = faults \/ faults' = faults + 1)
  BY DEF SendFails, Crash, DbDown, DbUp, ExpireDead, ExpireAlive, vars, listenerVars
<1>3. CASE faults' = faults
  BY <1>2, <1>3 DEF At, Handover!vars
<1>4. CASE faults' = faults + 1
  BY <1>1, <1>2, <1>4 DEF At, Handover!Fail, Handover!Next
<1>5. QED
  BY <1>2, <1>3, <1>4

\* The path of an event to a worker keeps the promise module Dialer relies on.
THEOREM QueueImplementsHandover == Spec => HandoverKept
<1>1. IInv /\ [Next]_vars => [Handover!Next]_(Handover!vars)
  BY ListenerHandover, RunHandover, ProcessHandover, FailureHandover DEF Next, Handover!Next
<1>2. QED
  BY InitHandover, <1>1, QueueInvariant, PTL DEF Spec, HandoverKept, Handover!Spec

(***************************************************************************)
(* The buffer.                                                             *)
(***************************************************************************)
BufferInv ==
  /\ IsFiniteSet(At("buffer"))
  /\ BufferBounded
  /\ listener = "stopped" => At("buffer") = {}

\* The buffer of the listener is committed as soon as it holds BufferLimit rows, for every
\* limit and any number of events.
THEOREM BufferNeverOverflows == Spec => []BufferBounded
<1>1. Init => BufferInv
  <2> SUFFICES ASSUME Init PROVE BufferInv
    OBVIOUS
  <2>1. At("buffer") = {}
    BY DEF Init, At
  <2>2. QED
    BY <2>1, FS_EmptySet, LimitAssumption DEF BufferInv, BufferBounded
<1>2. IInv /\ BufferInv /\ [Next]_vars => BufferInv'
  <2> SUFFICES ASSUME IInv, BufferInv, [Next]_vars PROVE BufferInv'
    OBVIOUS
  <2> USE DEF IInv
  <2> DEFINE B == At("buffer")
             n == Cardinality(B)
  <2>1. n \in Nat /\ IsFiniteSet(B) /\ n <= BufferLimit /\ (listener = "popping" => n < BufferLimit)
    BY FS_CardinalityType DEF BufferInv, BufferBounded
  <2>2. ASSUME NEW e \in Event, PushEvent(e) PROVE BufferInv'
    <3>1. listener = "popping" /\ stage[e] = "consumer" /\ stage' = Moved({e}, "buffer")
      BY <2>2 DEF PushEvent
    <3>2. B' = B \cup {e} /\ e \notin B
      BY <3>1 DEF At, Moved, TypeOK
    <3>3. IsFiniteSet(B') /\ Cardinality(B') = n + 1
      BY <2>1, <3>2, FS_AddElement
    <3>4. /\ n + 1 >= BufferLimit => listener' = "connecting"
          /\ listener' \in {"popping", "connecting"}
      BY <2>2 DEF PushEvent
    <3>5. QED
      BY <2>1, <3>1, <3>3, <3>4, LimitAssumption DEF BufferInv, BufferBounded
  <2>3. CASE CommitEvent \/ StopListener
    <3>1. B' = {}
      BY <2>3 DEF CommitEvent, StopListener, Moved, At, TypeOK
    <3>2. QED
      BY <3>1, FS_EmptySet, LimitAssumption DEF BufferInv, BufferBounded
  <2>4. CASE StartListener
    <3>1. B' = {}
      BY <2>4 DEF StartListener, At, BufferInv
    <3>2. QED
      BY <2>4, <3>1, FS_EmptySet, LimitAssumption DEF BufferInv, BufferBounded, StartListener
  <2>5. ASSUME B' = B, listener' \in {listener, "connecting"} PROVE BufferInv'
    BY <2>1, <2>5 DEF BufferInv, BufferBounded
  <2>6. CASE \E e \in Event : Fire(e)
    <3>1. B' = B
      BY <2>6 DEF Fire, Moved, At, TypeOK
    <3>2. QED
      BY <2>5, <2>6, <3>1 DEF Fire
  <2>7. CASE \E d \in Dispatcher : UpdateStatus(d)
    <3>1. B' = B
      BY <2>7 DEF UpdateStatus, Moved, At, BatchStored, TypeOK
    <3>2. QED
      BY <2>5, <2>7, <3>1 DEF UpdateStatus
  <2>8. CASE UNCHANGED vars
    BY <2>5, <2>8 DEF vars, At
  <2>9. CASE /\ Next
             /\ ~(\E e \in Event : Fire(e) \/ PushEvent(e))
             /\ ~(CommitEvent \/ StopListener \/ StartListener)
             /\ ~(\E d \in Dispatcher : UpdateStatus(d))
    <3>1. stage' = stage /\ listener' \in {listener, "connecting"}
      BY <2>9 DEF Next, ListenerStep, Heartbeat, Reconnect, DbDown, DbUp, DispatcherStep,
         TaskPendingCallevent, SelectPending, SelectFails, SendTask, SendFails, Crash,
         ExpireDead, ExpireAlive, ProcessCallevent, listenerVars
    <3>2. QED
      BY <2>5, <3>1 DEF At
  <2>10. QED
    BY <2>2, <2>3, <2>4, <2>6, <2>7, <2>8, <2>9
<1>3. QED
  BY <1>1, <1>2, QueueInvariant, PTL DEF Spec, BufferInv
=============================================================================
