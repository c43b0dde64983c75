------------------------- MODULE CallReports_proofs -------------------------
(***************************************************************************)
(* Proofs about the module CallReports, for all sizes, all faults and      *)
(* every CallEnv and QueueEnv.  The two modules it joins keep their own    *)
(* invariants: the queue as it is, and the dialer, as long as no run has   *)
(* failed, as a Dialer in which each call ends in one row that is handed   *)
(* over once.  The proofs of both modules are used, not repeated.          *)
(***************************************************************************)
EXTENDS CallReports, TLAPS

\* What an A-leg that ends normally and a hand-over without a failed run leave of CallEnv.
DialEnv ==
  CallEnv \ {"duplicate", "rejected", "transfer", "machine", "time_limit", "abnormal"}

D == INSTANCE Dialer_proofs WITH callEvent <- Untaken, Env <- DialEnv
Q == INSTANCE CallEventQueue_proofs WITH Event <- CallReport, Env <- QueueEnv

LEMMA DialerAssumptions ==
  D!RetryAssumption /\ D!NullAssumption /\ D!BoundAssumption /\ D!EnvAssumption
BY RetryAssumption, NullAssumption, LimitAssumption, EnvAssumption
DEF D!RetryAssumption, D!NullAssumption, D!BoundAssumption, D!EnvAssumption,
    D!EnvBehaviour, Calls!EnvBehaviour, DialEnv

LEMMA QueueAssumptions == Q!NullAssumption /\ Q!LimitAssumption /\ Q!EnvAssumption
BY NullAssumption, LimitAssumption, EnvAssumption
DEF Q!NullAssumption, Q!LimitAssumption, Q!EnvAssumption, Q!EnvBehaviour,
    Reports!EnvBehaviour

LEMMA DialsOneReport == D!OneReport
BY DEF D!OneReport, DialEnv

-----------------------------------------------------------------------------
(***************************************************************************)
(* The reports: every step is one of the queue, or leaves it alone.        *)
(***************************************************************************)
\* The two instances of FiniteSets count alike.
LEMMA SameSize == \A S : Reports!Cardinality(S) = Q!Cardinality(S)
BY DEF Reports!Cardinality, Q!Cardinality

LEMMA QueueFires ==
  ASSUME NEW e, Reports!Fire(e)
  PROVE  Q!Fire(e)
BY DEF Reports!Fire, Q!Fire, Reports!Moved, Q!Moved, Reports!dispatcherVars, Q!dispatcherVars

LEMMA QueueListens ==
  ASSUME Reports!ListenerStep \/ Reports!StopListener
  PROVE  Q!ListenerStep \/ Q!StopListener
<1> USE DEF Reports!Moved, Q!Moved, Reports!At, Q!At, Reports!dispatcherVars, Q!dispatcherVars
<1>1. ASSUME NEW e \in CallReport, Reports!PushEvent(e) PROVE Q!PushEvent(e)
  BY <1>1, SameSize DEF Reports!PushEvent, Q!PushEvent
<1>2. Reports!Heartbeat => Q!Heartbeat
  BY DEF Reports!Heartbeat, Q!Heartbeat
<1>3. Reports!Reconnect => Q!Reconnect
  BY DEF Reports!Reconnect, Q!Reconnect
<1>4. Reports!CommitEvent => Q!CommitEvent
  BY DEF Reports!CommitEvent, Q!CommitEvent
<1>5. Reports!StartListener => Q!StartListener
  BY DEF Reports!StartListener, Q!StartListener
<1>6. Reports!StopListener => Q!StopListener
  BY DEF Reports!StopListener, Q!StopListener
<1>7. QED
  BY <1>1, <1>2, <1>3, <1>4, <1>5, <1>6 DEF Reports!ListenerStep, Q!ListenerStep

LEMMA QueueDispatches ==
  ASSUME NEW d \in Dispatcher,
         Reports!DispatcherStep(d) \/ Reports!SendFails(d) \/ Reports!Crash(d)
  PROVE  Q!DispatcherStep(d) \/ Q!SendFails(d) \/ Q!Crash(d)
<1> USE DEF Reports!Moved, Q!Moved, Reports!At, Q!At, Reports!listenerVars, Q!listenerVars
<1>1. Reports!TaskPendingCallevent(d) => Q!TaskPendingCallevent(d)
  BY DEF Reports!TaskPendingCallevent, Q!TaskPendingCallevent
<1>2. Reports!SelectPending(d) => Q!SelectPending(d)
  <2>1. Reports!Fetched = Q!Fetched
    BY SameSize DEF Reports!Fetched, Q!Fetched
  <2>2. QED
    BY <2>1 DEF Reports!SelectPending, Q!SelectPending
<1>3. Reports!SelectFails(d) => Q!SelectFails(d)
  BY DEF Reports!SelectFails, Q!SelectFails
<1>4. ASSUME NEW e \in CallReport, Reports!SendTask(d, e) PROVE Q!SendTask(d, e)
  BY <1>4 DEF Reports!SendTask, Q!SendTask
<1>5. Reports!UpdateStatus(d) => Q!UpdateStatus(d)
  BY DEF Reports!UpdateStatus, Q!UpdateStatus
<1>6. Reports!SendFails(d) => Q!SendFails(d)
  BY DEF Reports!SendFails, Q!SendFails
<1>7. Reports!Crash(d) => Q!Crash(d)
  BY DEF Reports!Crash, Q!Crash
<1>8. QED
  BY <1>1, <1>2, <1>3, <1>4, <1>5, <1>6, <1>7
  DEF Reports!DispatcherStep, Q!DispatcherStep

LEMMA QueueStarts ==
  ASSUME NEW e, Reports!ProcessCallevent(e)
  PROVE  Q!ProcessCallevent(e)
BY DEF Reports!ProcessCallevent, Q!ProcessCallevent, Reports!listenerVars, Q!listenerVars

LEMMA QueueExpires ==
  ASSUME Reports!ExpireDead \/ Reports!ExpireAlive
  PROVE  Q!ExpireDead \/ Q!ExpireAlive
BY DEF Reports!ExpireDead, Q!ExpireDead, Reports!ExpireAlive, Q!ExpireAlive,
       Reports!listenerVars, Q!listenerVars

LEMMA QueueStep == [Next]_vars => [Q!Next]_(Q!vars)
<1> SUFFICES ASSUME [Next]_vars PROVE [Q!Next]_(Q!vars)
  OBVIOUS
<1>1. CASE CallStep \/ SurveyStep \/ UNCHANGED vars
  BY <1>1 DEF CallStep, SurveyStep, vars, reportVars, Q!vars
<1>2. CASE \E c \in 1 .. MaxCallrequest : CallEnds(c)
  BY <1>2, QueueFires DEF CallEnds, Q!Next
<1>3. CASE \E w \in Worker, e \in CallReport : TaskStarts(w, e)
  BY <1>3, QueueStarts DEF TaskStarts, Q!Next
<1>4. CASE ListenerStep
  BY <1>4, QueueListens DEF ListenerStep, Q!Next
<1>5. CASE \E d \in Dispatcher : DispatcherStep(d)
  BY <1>5, QueueDispatches DEF DispatcherStep, Q!Next
<1>6. CASE ExpireDead
  BY <1>6, QueueExpires DEF ExpireDead, Q!Next
<1>7. CASE Fault
  BY <1>7, QueueListens, QueueDispatches, QueueExpires DEF Fault, Q!Next
<1>8. QED
  BY <1>1, <1>2, <1>3, <1>4, <1>5, <1>6, <1>7 DEF Next

LEMMA InitQueueInv == Init => Q!IInv
<1>1. Reports!Init => Q!Init
  BY DEF Reports!Init, Q!Init
<1>2. Q!Init => Q!IInv
  BY Q!InitInv, QueueAssumptions
<1>3. QED
  BY <1>1, <1>2 DEF Init

LEMMA StepQueueInv == Q!IInv /\ [Next]_vars => Q!IInv'
<1>1. Q!IInv /\ [Q!Next]_(Q!vars) => Q!IInv'
  BY Q!NextKeepsInv, QueueAssumptions
<1>2. QED
  BY <1>1, QueueStep
-----------------------------------------------------------------------------
(***************************************************************************)
(* The calls: until a run fails every step is one of that Dialer, or       *)
(* leaves it alone.                                                        *)
(***************************************************************************)
Due(e) == message[e] > 0 \/ (stage[e] # "future" /\ started[e] = 0)

LEMMA UntakenIsDue == Untaken = {e \in CallReport : Due(e)}
BY DEF Untaken, Due

LEMMA UntakenKept ==
  ASSUME \A e \in CallReport : Due(e)' <=> Due(e)
  PROVE  Untaken' = Untaken
BY DEF Untaken, Due

LEMMA ReportTyped ==
  ASSUME Q!IInv, NEW e \in CallReport
  PROVE  message[e] \in Nat /\ started[e] \in Nat /\ stage[e] \in Q!Stage
BY DEF Q!IInv, Q!TypeOK

\* Only a failed run is counted, and it changes nothing of the calls.
LEMMA FaultsCounted ==
  ASSUME [Next]_vars
  PROVE  faults' = faults \/ (faults' = faults + 1 /\ UNCHANGED callVars)
<1> SUFFICES faults' = faults \/ (faults' = faults + 1 /\ Fault)
  BY DEF Fault
<1>1. faults' = faults \/ (faults' = faults + 1 /\ Fault)
  <2>1. CASE CallStep \/ SurveyStep \/ UNCHANGED vars
    BY <2>1 DEF CallStep, SurveyStep, vars, reportVars
  <2>2. CASE \E c \in 1 .. MaxCallrequest : CallEnds(c)
    BY <2>2 DEF CallEnds, Reports!Fire
  <2>3. CASE \E w \in Worker, e \in CallReport : TaskStarts(w, e)
    BY <2>3 DEF TaskStarts, Reports!ProcessCallevent
  <2>4. CASE ListenerStep
    BY <2>4 DEF ListenerStep, Reports!ListenerStep, Reports!PushEvent, Reports!Heartbeat,
       Reports!Reconnect, Reports!CommitEvent, Reports!StartListener
  <2>5. CASE \E d \in Dispatcher : DispatcherStep(d)
    BY <2>5 DEF DispatcherStep, Reports!DispatcherStep, Reports!TaskPendingCallevent,
       Reports!SelectPending, Reports!SelectFails, Reports!SendTask, Reports!UpdateStatus
  <2>6. CASE ExpireDead
    BY <2>6 DEF ExpireDead, Reports!ExpireDead
  <2>7. CASE Fault
    BY <2>7 DEF Fault, Reports!StopListener, Reports!ExpireAlive, Reports!SendFails,
       Reports!Crash
  <2>8. QED
    BY <2>1, <2>2, <2>3, <2>4, <2>5, <2>6, <2>7 DEF Next
<1>2. QED
  BY <1>1

\* No run has failed before if none has failed after.
LEMMA FaultsCount ==
  ASSUME Q!IInv, [Next]_vars, faults' = 0
  PROVE  faults = 0
<1>1. faults \in Nat
  BY LimitAssumption DEF Q!IInv, Q!TypeOK
<1>2. QED
  BY <1>1, FaultsCounted

\* The listener moves reports that nobody has been handed.
LEMMA ListenerKeepsUntaken ==
  ASSUME Q!IInv, Reports!ListenerStep \/ Reports!StopListener
  PROVE  Untaken' = Untaken
<1> USE DEF Reports!Moved, Reports!At, Reports!dispatcherVars
<1>1. UNCHANGED <<message, started>>
  BY DEF Reports!ListenerStep, Reports!PushEvent, Reports!Heartbeat, Reports!Reconnect,
     Reports!CommitEvent, Reports!StartListener, Reports!StopListener
<1>2. \A e \in CallReport : stage'[e] = "future" <=> stage[e] = "future"
  <2>1. ASSUME NEW f \in CallReport, Reports!PushEvent(f)
        PROVE  \A e \in CallReport : stage'[e] = "future" <=> stage[e] = "future"
    BY <2>1 DEF Reports!PushEvent
  <2>2. CASE Reports!Heartbeat \/ Reports!Reconnect \/ Reports!StartListener
    BY <2>2 DEF Reports!Heartbeat, Reports!Reconnect, Reports!StartListener
  <2>3. CASE Reports!CommitEvent
    BY <2>3 DEF Reports!CommitEvent
  <2>4. CASE Reports!StopListener
    BY <2>4 DEF Reports!StopListener
  <2>5. QED
    BY <2>1, <2>2, <2>3, <2>4 DEF Reports!ListenerStep
<1>3. QED
  BY <1>1, <1>2, UntakenKept DEF Due

\* A run sends what no worker has seen: as long as none has failed.
LEMMA RunKeepsUntaken ==
  ASSUME Q!IInv, Q!IInv', faults' = 0, NEW d \in Dispatcher, Reports!DispatcherStep(d)
  PROVE  Untaken' = Untaken
<1>1. CASE Reports!TaskPendingCallevent(d) \/ Reports!SelectPending(d) \/ Reports!SelectFails(d)
  <2>1. UNCHANGED <<stage, message, started>>
    BY <1>1 DEF Reports!TaskPendingCallevent, Reports!SelectPending, Reports!SelectFails,
       Reports!listenerVars
  <2>2. QED
    BY <2>1 DEF Untaken
<1>2. ASSUME NEW f \in CallReport, Reports!SendTask(d, f) PROVE Untaken' = Untaken
  <2>1. /\ pc[d] = "send" /\ f \in batch[d] /\ UNCHANGED <<stage, started>>
        /\ message' = [message EXCEPT ![f] = @ + 1]
    BY <1>2 DEF Reports!SendTask, Reports!listenerVars
  <2>2. message \in [CallReport -> Nat] /\ started \in [CallReport -> Nat]
    BY DEF Q!IInv, Q!TypeOK
  <2>3. message'[f] = message[f] + 1 /\ \A e \in CallReport : e # f => message'[e] = message[e]
    BY <2>1, <2>2
  <2>4. stage[f] # "future"
    BY <2>1 DEF Q!IInv, Q!BatchStored
  <2>5. message'[f] + started[f] <= 1
    BY <2>1 DEF Q!IInv, Q!NoFaultYet, Q!HandedOnce
  <2>6. started[f] = 0
    BY <2>2, <2>3, <2>5
  <2>7. Due(f) /\ Due(f)'
    BY <2>1, <2>2, <2>3, <2>4, <2>6 DEF Due
  <2>8. \A e \in CallReport : Due(e)' <=> Due(e)
    BY <2>1, <2>3, <2>7 DEF Due
  <2>9. QED
    BY <2>8, UntakenKept
<1>3. CASE Reports!UpdateStatus(d)
  <2>1. /\ pc[d] = "send" /\ UNCHANGED <<message, started>>
        /\ \A e \in CallReport :
             stage'[e] = IF e \in batch[d] THEN "done" ELSE stage[e]
    BY <1>3 DEF Reports!UpdateStatus, Reports!Moved
  <2>2. \A e \in batch[d] : stage[e] # "future"
    BY <2>1 DEF Q!IInv, Q!BatchStored
  <2>3. QED
    BY <2>1, <2>2, UntakenKept DEF Due
<1>4. QED
  BY <1>1, <1>2, <1>3 DEF Reports!DispatcherStep

\* A call that ends leaves one report more to take, one nobody has seen.
LEMMA FireAdds ==
  ASSUME Q!IInv, NEW e \in CallReport, Reports!Fire(e)
  PROVE  e \notin Untaken /\ Untaken' = Untaken \cup {e}
<1>1. stage[e] = "future" /\ UNCHANGED <<message, started>>
  BY DEF Reports!Fire, Reports!dispatcherVars
<1>2. stage'[e] # "future" /\ \A f \in CallReport : f # e => stage'[f] = stage[f]
  BY DEF Reports!Fire, Reports!Moved
<1>3. message[e] = 0 /\ started[e] = 0
  BY <1>1 DEF Q!IInv, Q!UnseenUnsent
<1>4. ~Due(e) /\ Due(e)'
  BY <1>1, <1>2, <1>3 DEF Due
<1>5. \A f \in CallReport : f # e => (Due(f)' <=> Due(f))
  BY <1>1, <1>2 DEF Due
<1>6. QED
  BY <1>4, <1>5 DEF Untaken, Due

\* A task that starts takes its report, for good while no run has failed.
LEMMA StartRemoves ==
  ASSUME Q!IInv, faults = 0, NEW e \in CallReport, Reports!ProcessCallevent(e)
  PROVE  e \in Untaken /\ Untaken' = Untaken \ {e}
<1>1. /\ message[e] > 0 /\ UNCHANGED stage
      /\ message' = [message EXCEPT ![e] = @ - 1] /\ started' = [started EXCEPT ![e] = @ + 1]
  BY DEF Reports!ProcessCallevent, Reports!listenerVars
<1>2. message \in [CallReport -> Nat] /\ started \in [CallReport -> Nat]
  BY DEF Q!IInv, Q!TypeOK
<1>3. message[e] + started[e] <= 1
  BY DEF Q!IInv, Q!NoFaultYet, Q!HandedOnce
<1>4. /\ message'[e] = message[e] - 1 /\ started'[e] = started[e] + 1
      /\ \A f \in CallReport : f # e => message'[f] = message[f] /\ started'[f] = started[f]
  BY <1>1, <1>2
<1>5. message'[e] = 0 /\ started'[e] # 0
  BY <1>1, <1>2, <1>3, <1>4
<1>6. Due(e) /\ ~Due(e)'
  BY <1>1, <1>5 DEF Due
<1>7. \A f \in CallReport : f # e => (Due(f)' <=> Due(f))
  BY <1>1, <1>4 DEF Due
<1>8. QED
  BY <1>6, <1>7 DEF Untaken, Due

(***************************************************************************)
(* The steps the two instances of Dialer share.  They differ in Env alone, *)
(* and only in what a report or its hand-over may be.                      *)
(***************************************************************************)
LEMMA SameRows ==
  /\ Calls!Idle = D!Idle
  /\ \A w : Calls!IsIdle(w) <=> D!IsIdle(w)
  /\ \A c, failed : Calls!DialTask(c, failed) = D!DialTask(c, failed)
  /\ \A e : Calls!EventTask(e) = D!EventTask(e)
  /\ \A t : Calls!RetryDoneRows(t) = D!RetryDoneRows(t)
  /\ \A t : Calls!WantsRetry(t) <=> D!WantsRetry(t)
  /\ \A row : Calls!RetryAllowed(row) <=> D!RetryAllowed(row)
  /\ \A row : Calls!CompletionDue(row) <=> D!CompletionDue(row)
  /\ \A type : Calls!NewCallrequest(type) = D!NewCallrequest(type)
<1>1. Calls!Idle = D!Idle /\ \A w : Calls!IsIdle(w) <=> D!IsIdle(w)
  BY DEF Calls!Idle, D!Idle, Calls!IsIdle, D!IsIdle, Calls!NewSubscriber, D!NewSubscriber,
     Calls!NoCallrequest, D!NoCallrequest
<1>2. \A c, failed : Calls!DialTask(c, failed) = D!DialTask(c, failed)
  BY DEF Calls!DialTask, D!DialTask, Calls!DialedSubscriber, D!DialedSubscriber,
     Calls!DialedCallrequest, D!DialedCallrequest
<1>3. \A e : Calls!EventTask(e) = D!EventTask(e)
  BY DEF Calls!EventTask, D!EventTask, Calls!BLeg, D!BLeg, Calls!SettledStatus,
     D!SettledStatus, Calls!NormalClearing, D!NormalClearing
<1>4. \A t : Calls!WantsRetry(t) <=> D!WantsRetry(t)
  BY DEF Calls!WantsRetry, D!WantsRetry, Calls!NormalClearing, D!NormalClearing,
     Calls!Machine, D!Machine
<1>5. \A t : Calls!RetryDoneRows(t) = D!RetryDoneRows(t)
  BY <1>4 DEF Calls!RetryDoneRows, D!RetryDoneRows
<1>6. /\ \A row : Calls!RetryAllowed(row) <=> D!RetryAllowed(row)
      /\ \A row : Calls!CompletionDue(row) <=> D!CompletionDue(row)
      /\ \A type : Calls!NewCallrequest(type) = D!NewCallrequest(type)
  BY DEF Calls!RetryAllowed, D!RetryAllowed, Calls!CompletionDue, D!CompletionDue,
     Calls!NewCallrequest, D!NewCallrequest
<1>7. QED
  BY <1>1, <1>2, <1>3, <1>4, <1>5, <1>6

LEMMA SameEnv ==
  /\ "crash" \in CallEnv <=> "crash" \in DialEnv
  /\ "slow_worker" \in CallEnv <=> "slow_worker" \in DialEnv
  /\ "bad_number" \in CallEnv <=> "bad_number" \in DialEnv
  /\ "esl_error" \in CallEnv <=> "esl_error" \in DialEnv
BY DEF DialEnv

LEMMA SameEnqueue ==
  ASSUME NEW s, NEW why, Calls!Enqueue(s, why)
  PROVE  D!Enqueue(s, why)
BY SameEnv DEF Calls!Enqueue, D!Enqueue

LEMMA SameSaved == \A c : Calls!Saved(c) <=> D!Saved(c)
BY SameEnv DEF Calls!Saved, D!Saved, Calls!InitPc, D!InitPc

LEMMA DialerWorks ==
  ASSUME NEW w \in Worker, Calls!TaskStep(w)
  PROVE  D!TaskStep(w)
<1>1. Calls!InitSaveSubscriber(w) => D!InitSaveSubscriber(w)
  BY DEF Calls!InitSaveSubscriber, D!InitSaveSubscriber
<1>2. Calls!InitSaveCallrequest(w) => D!InitSaveCallrequest(w)
  BY SameRows DEF Calls!InitSaveCallrequest, D!InitSaveCallrequest
<1>3. Calls!EventSaveCallrequest(w) => D!EventSaveCallrequest(w)
  BY DEF Calls!EventSaveCallrequest, D!EventSaveCallrequest
<1>4. Calls!EventSaveSubscriber(w) => D!EventSaveSubscriber(w)
  BY DEF Calls!EventSaveSubscriber, D!EventSaveSubscriber
<1>5. Calls!EventBasicRetry(w) => D!EventBasicRetry(w)
  BY SameRows, SameEnqueue DEF Calls!EventBasicRetry, D!EventBasicRetry
<1>6. Calls!EventCompletionRetry(w) => D!EventCompletionRetry(w)
  BY SameRows, SameEnqueue DEF Calls!EventCompletionRetry, D!EventCompletionRetry,
     Calls!CountCompletion, D!CountCompletion
<1>7. Calls!EventNoRetry(w) => D!EventNoRetry(w)
  BY SameRows DEF Calls!EventNoRetry, D!EventNoRetry
<1>8. Calls!EventCountUnset(w) => D!EventCountUnset(w)
  BY SameRows DEF Calls!EventCountUnset, D!EventCountUnset
<1>9. QED
  BY <1>1, <1>2, <1>3, <1>4, <1>5, <1>6, <1>7, <1>8 DEF Calls!TaskStep, D!TaskStep

LEMMA DialerDials ==
  ASSUME NEW w \in Worker, NEW c, Calls!StartDial(w, c)
  PROVE  D!StartDial(w, c)
<1> USE DEF Calls!rows, D!rows
<1>1. Calls!InitDial(w, c) => D!InitDial(w, c)
  BY SameRows DEF Calls!InitDial, D!InitDial
<1>2. Calls!InitDialError(w, c) => D!InitDialError(w, c)
  BY SameRows, SameEnv DEF Calls!InitDialError, D!InitDialError
<1>3. Calls!InitBadNumber(w, c) => D!InitBadNumber(w, c)
  BY SameRows, SameEnv DEF Calls!InitBadNumber, D!InitBadNumber
<1>4. QED
  BY <1>1, <1>2, <1>3 DEF Calls!StartDial, D!StartDial

LEMMA DialerSteps ==
  ASSUME CallStep \/ SurveyStep
  PROVE  D!Next
<1> USE DEF D!CallrequestId
<1>1. ASSUME NEW s \in Subscriber, Calls!PendingCall(s) PROVE D!Next
  <2>1. Calls!FirstCallType = D!FirstCallType
    BY DEF Calls!FirstCallType, D!FirstCallType
  <2>2. D!PendingCall(s)
    BY <1>1, <2>1, SameRows, SameEnqueue DEF Calls!PendingCall, D!PendingCall
  <2>3. QED
    BY <2>2 DEF D!Next
<1>2. ASSUME NEW w \in Worker, Calls!TaskStep(w) PROVE D!Next
  BY <1>2, DialerWorks DEF D!Next
<1>3. ASSUME NEW w \in Worker, NEW c \in 1 .. MaxCallrequest, Calls!StartDial(w, c)
      PROVE  D!Next
  BY <1>3, DialerDials DEF D!Next
<1>4. ASSUME NEW c \in 1 .. MaxCallrequest, Calls!Answer(c) PROVE D!Next
  <2>1. D!Answer(c)
    BY <1>4 DEF Calls!Answer, D!Answer, Calls!rows, D!rows
  <2>2. QED
    BY <2>1 DEF D!Next, D!CallStep
<1>5. ASSUME NEW c \in 1 .. MaxCallrequest, Calls!MarkCompleted(c) PROVE D!Next
  <2>1. D!MarkCompleted(c)
    BY <1>5, SameSaved DEF Calls!MarkCompleted, D!MarkCompleted
  <2>2. QED
    BY <2>1 DEF D!Next, D!CallStep
<1>6. QED
  BY <1>1, <1>2, <1>3, <1>4, <1>5 DEF CallStep, SurveyStep

\* A call ends in its own report and no other: a second one would have been there, and
\* no report is there while the call rings.
LEMMA DialerCallEnds ==
  ASSUME Q!IInv, D!LInv, NEW c \in 1 .. MaxCallrequest, CallEnds(c)
  PROVE  D!Next
<1>1. PICK e \in CallReport :
        e.cr = c /\ Reports!Fire(e) /\ (Calls!HangUp(c) \/ Calls!Fail(c))
  BY DEF CallEnds
<1>2. e \notin Untaken /\ Untaken' = Untaken \cup {e}
  BY <1>1, FireAdds
<1>3. e = [cr |-> c, kind |-> e.kind] /\ e.kind \in {"answered", "failed"}
  BY <1>1 DEF CallReport
<1>4. Calls!HangUp(c) => D!HangUp(c)
  <2> SUFFICES ASSUME Calls!HangUp(c) PROVE D!HangUp(c)
    OBVIOUS
  <2>1. \A k : Untaken' = Untaken \cup [cr : {c}, kind : {k}] => k = e.kind
    <3> SUFFICES ASSUME NEW k, Untaken' = Untaken \cup [cr : {c}, kind : {k}]
                 PROVE  k = e.kind
      OBVIOUS
    <3>1. e \in [cr : {c}, kind : {k}]
      BY <1>2
    <3>2. QED
      BY <3>1
  <2>2. \E k \in Calls!HangupKind : Untaken' = Untaken \cup [cr : {c}, kind : {k}]
    BY <1>2 DEF Calls!HangUp, Calls!Report
  <2>3. e.kind \in Calls!HangupKind /\ Untaken' = Untaken \cup [cr : {c}, kind : {e.kind}]
    BY <2>1, <2>2
  <2>4. e.kind \in D!HangupKind
    BY <1>3, <2>3 DEF Calls!HangupKind, D!HangupKind
  <2>5. QED
    BY <2>3, <2>4 DEF Calls!HangUp, D!HangUp, Calls!rows, D!rows, D!Report
<1>5. Calls!Fail(c) => D!Fail(c)
  <2> SUFFICES ASSUME Calls!Fail(c) PROVE D!Fail(c)
    OBVIOUS
  <2>1. call[c] = "ringing"
    BY DEF Calls!Fail
  <2>2. \A f \in Untaken : f.cr # c
    BY <2>1 DEF D!LInv, D!Phases, D!InCall
  <2>3. Untaken' # Untaken \cup [cr : {c}, kind : {"failed", "answered"}]
    <3> SUFFICES ASSUME Untaken' = Untaken \cup [cr : {c}, kind : {"failed", "answered"}]
                 PROVE  FALSE
      OBVIOUS
    <3> DEFINE f == [cr |-> c, kind |-> "failed"]
               g == [cr |-> c, kind |-> "answered"]
    <3>1. f \in Untaken' /\ g \in Untaken' /\ f.cr = c /\ g.cr = c
      OBVIOUS
    <3>2. f = e /\ g = e
      BY <1>2, <2>2, <3>1
    <3>3. f.kind = g.kind
      BY <3>2
    <3>4. QED
      BY <3>3
  <2>4. QED
    BY <2>3 DEF Calls!Fail, D!Fail, Calls!Report, D!Report, Calls!rows, D!rows
<1>6. D!CallStep(c)
  BY <1>1, <1>4, <1>5 DEF D!CallStep
<1>7. QED
  BY <1>6 DEF D!Next, D!CallrequestId

\* The message of a report starts one task with it.
LEMMA DialerTaskStarts ==
  ASSUME Q!IInv, faults = 0, NEW w \in Worker, NEW e \in CallReport, TaskStarts(w, e)
  PROVE  D!Next
<1>1. e \in Untaken /\ Untaken' = Untaken \ {e}
  BY StartRemoves DEF TaskStarts
<1>2. Calls!TakeEvent(e) => D!TakeEvent(e)
  BY <1>1, SameSaved DEF Calls!TakeEvent, D!TakeEvent
<1>3. Calls!Found(e) <=> D!Found(e)
  BY DEF Calls!Found, D!Found
<1>4. Calls!StartEvent(w, e)
  BY DEF TaskStarts
<1>5. Calls!EventRead(w, e) => D!EventRead(w, e)
  BY <1>2, <1>3, SameRows DEF Calls!EventRead, D!EventRead, Calls!rows, D!rows
<1>6. Calls!EventNotFound(w, e) => D!EventNotFound(w, e)
  BY <1>2, <1>3, SameRows DEF Calls!EventNotFound, D!EventNotFound, Calls!rows, D!rows
<1>7. D!StartEvent(w, e)
  BY <1>4, <1>5, <1>6 DEF Calls!StartEvent, D!StartEvent
<1>8. e \in D!Event
  BY DEF CallReport, D!Event, D!EventKind, D!CallrequestId
<1>9. QED
  BY <1>7, <1>8 DEF D!Next

LEMMA DialerStep ==
  ASSUME Q!IInv, D!LInv, [Next]_vars, faults' = 0
  PROVE  [D!Next]_(D!vars)
<1>1. faults = 0 /\ Q!IInv'
  BY FaultsCount, StepQueueInv
<1>2. ASSUME UNCHANGED callVars, Untaken' = Untaken PROVE UNCHANGED D!vars
  BY <1>2 DEF callVars, D!vars, D!rows
<1>3. CASE CallStep \/ SurveyStep
  BY <1>3, DialerSteps
<1>4. CASE \E c \in 1 .. MaxCallrequest : CallEnds(c)
  BY <1>4, DialerCallEnds
<1>5. CASE \E w \in Worker, e \in CallReport : TaskStarts(w, e)
  BY <1>1, <1>5, DialerTaskStarts
<1>6. CASE ListenerStep
  BY <1>2, <1>6, ListenerKeepsUntaken DEF ListenerStep
<1>7. CASE \E d \in Dispatcher : DispatcherStep(d)
  BY <1>1, <1>2, <1>7, RunKeepsUntaken DEF DispatcherStep
<1>8. CASE ExpireDead
  <2>1. UNCHANGED <<stage, message, started>>
    BY <1>8 DEF ExpireDead, Reports!ExpireDead, Reports!listenerVars
  <2>2. QED
    BY <1>2, <1>8, <2>1 DEF Untaken, ExpireDead
<1>9. CASE Fault
  <2>1. faults \in Nat
    BY LimitAssumption DEF Q!IInv, Q!TypeOK
  <2>2. ~Reports!ExpireAlive /\ \A d \in Dispatcher : ~Reports!SendFails(d) /\ ~Reports!Crash(d)
    BY <1>1, <2>1 DEF Reports!ExpireAlive, Reports!SendFails, Reports!Crash
  <2>3. QED
    BY <1>2, <1>9, <2>2, ListenerKeepsUntaken DEF Fault
<1>10. CASE UNCHANGED vars
  BY <1>2, <1>10 DEF vars, reportVars, Untaken
<1>11. QED
  BY <1>3, <1>4, <1>5, <1>6, <1>7, <1>8, <1>9, <1>10 DEF Next

-----------------------------------------------------------------------------
(***************************************************************************)
(* One call request at a time.                                             *)
(***************************************************************************)
JInv == Q!IInv /\ (faults = 0 => D!LInv)

LEMMA InitDialer == Init => D!Init
<1> SUFFICES ASSUME Init PROVE D!Init
  OBVIOUS
<1>1. Calls!Init
  BY DEF Init
<1>2. QED
  BY <1>1, SameRows DEF Calls!Init, D!Init, Calls!NewSubscriber, D!NewSubscriber,
     Calls!NoCallrequest, D!NoCallrequest, Calls!CallrequestId, D!CallrequestId

LEMMA InitJInv == Init => JInv
<1>1. D!Init => D!LInv
  BY D!InitLInv, DialerAssumptions
<1>2. QED
  BY <1>1, InitDialer, InitQueueInv DEF JInv

LEMMA NextKeepsJInv == JInv /\ [Next]_vars => JInv'
<1> SUFFICES ASSUME JInv, [Next]_vars PROVE JInv'
  OBVIOUS
<1>1. Q!IInv /\ Q!IInv'
  BY StepQueueInv DEF JInv
<1>2. ASSUME faults' = 0 PROVE D!LInv'
  <2>1. D!LInv
    BY <1>1, <1>2, FaultsCount DEF JInv
  <2>2. [D!Next]_(D!vars)
    BY <1>1, <1>2, <2>1, DialerStep
  <2>3. D!LInv /\ [D!Next]_(D!vars) => D!LInv'
    BY D!StepLInv, DialsOneReport, DialerAssumptions
  <2>4. QED
    BY <2>1, <2>2, <2>3
<1>3. QED
  BY <1>1, <1>2 DEF JInv

\* The whole path from the hangup to process_callevent, with a listener that stops, loses
\* and delays reports and dispatch runs that overlap, serves no contact by two call
\* requests at once, up to the first run that dies, fails or outlasts its key.
THEOREM ServedOneAtATime == Spec => []ServedOnce
<1>1. JInv => ServedOnce
  <2>1. D!LInv => D!OneLiveCallrequest
    BY DEF D!LInv
  <2>2. D!OneLiveCallrequest => Calls!OneLiveCallrequest
    BY DEF D!OneLiveCallrequest, Calls!OneLiveCallrequest, D!Live, Calls!Live, D!InQueue,
       Calls!InQueue, D!InCall, Calls!InCall, D!Reported, Calls!Reported, D!Judged,
       Calls!Judged, D!EventPc, Calls!EventPc
  <2>3. QED
    BY <2>1, <2>2 DEF JInv, ServedOnce
<1>2. QED
  BY <1>1, InitJInv, NextKeepsJInv, PTL DEF Spec

-----------------------------------------------------------------------------
(***************************************************************************)
(* Contacts that completed the survey, where workers keep up with the      *)
(* calls they dial (celeryd is not killed, saves are done before the       *)
(* contact answers and reaches the marked node).                           *)
(***************************************************************************)
Timely == CallEnv \cap {"slow_worker", "crash"} = {}

FInv == JInv /\ (faults = 0 => D!AInv /\ D!Finished)

LEMMA TimelyDialer == Timely => D!KeptUp /\ D!PlainHangup
BY DialsOneReport DEF Timely, D!KeptUp, D!PlainHangup, DialEnv

LEMMA StepFInv ==
  ASSUME Timely, FInv, [Next]_vars, faults' = 0
  PROVE  D!AInv' /\ D!Finished' /\ D!Spares
<1>1. Q!IInv /\ faults = 0
  BY FaultsCount DEF FInv, JInv
<1>2. D!AInv /\ D!Finished /\ D!LInv
  BY <1>1 DEF FInv, JInv
<1>3. [D!Next]_(D!vars)
  BY <1>1, <1>2, DialerStep
<1>4. D!AInv /\ D!KeptUp /\ [D!Next]_(D!vars) => D!AInv'
  BY D!LedgerStep, DialerAssumptions
<1>5. D!AInv /\ D!KeptUp /\ D!PlainHangup /\ D!Finished /\ [D!Next]_(D!vars)
        => D!Finished' /\ D!Spares
  BY D!StepFinished, DialerAssumptions
<1>6. QED
  BY <1>2, <1>3, <1>4, <1>5, TimelyDialer

\* However late, lost or overtaken the reports of its calls are, a contact that completed
\* the survey keeps its status and gets no call request, up to the first run that fails.
THEOREM CompletedStaysCompleted == Timely => (Spec => CompletedLeftAlone)
<1> SUFFICES ASSUME Timely PROVE Spec => CompletedLeftAlone
  OBVIOUS
<1>1. Init => FInv
  <2>1. D!Init => D!AInv /\ D!Finished
    BY D!InitAInv, D!InitFinished, DialerAssumptions
  <2>2. QED
    BY <2>1, InitDialer, InitJInv DEF FInv
<1>2. FInv /\ [Next]_vars => FInv'
  <2> SUFFICES ASSUME FInv, [Next]_vars PROVE FInv'
    OBVIOUS
  <2>1. JInv'
    BY NextKeepsJInv DEF FInv
  <2>2. QED
    BY <2>1, StepFInv DEF FInv
<1>3. FInv /\ [Next]_vars =>
        [faults = 0 =>
           /\ \A s \in Subscriber :
                subscriber[s].status = "COMPLETED" => subscriber'[s].status = "COMPLETED"
           /\ lastId' # lastId => \A c \in surveyed : owner[c] # owner'[lastId']]_vars
  <2>1. SUFFICES ASSUME FInv, [Next]_vars, faults = 0 PROVE D!Spares
    BY DEF D!Spares
  <2>2. CASE faults' = 0
    BY <2>1, <2>2, StepFInv
  <2>3. CASE UNCHANGED callVars
    BY <2>3 DEF callVars, D!Spares
  <2>4. QED
    BY <2>1, <2>2, <2>3, FaultsCounted
<1>4. QED
  BY <1>1, <1>2, <1>3, PTL DEF Spec, CompletedLeftAlone
=============================================================================
