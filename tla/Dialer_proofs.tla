--------------------------- MODULE Dialer_proofs ---------------------------
(***************************************************************************)
(* Proofs about the module Dialer, for every set of subscribers and of     *)
(* workers, every retry setting and every Env unless a theorem says so.    *)
(***************************************************************************)
EXTENDS Dialer, FiniteSetTheorems, TLAPS

(***************************************************************************)
(* What a step writes into a row has the type of the row.                  *)
(***************************************************************************)
LEMMA RowsTyped ==
  /\ NewSubscriber \in SubscriberRow
  /\ NoCallrequest \in CallrequestRow
  /\ NewCallrequest(FirstCallType) \in CallrequestRow
  /\ NewCallrequest("ALLOW_RETRY") \in CallrequestRow
  /\ Idle \in Task
  /\ Idle.pc = "idle"
BY DEF NewSubscriber, SubscriberRow, SubscriberStatus, NoCallrequest, CallrequestRow,
   CallrequestStatus, CallrequestType, NewCallrequest, FirstCallType, Idle, Task

LEMMA StatusTyped ==
  ASSUME NEW r \in SubscriberRow, NEW st \in SubscriberStatus
  PROVE  /\ [r EXCEPT !.status = st] \in SubscriberRow
         /\ [r EXCEPT !.status = st].status = st
         /\ [r EXCEPT !.status = st].completion_count_attempt = r.completion_count_attempt
BY DEF SubscriberRow

LEMMA CountTyped ==
  ASSUME NEW r \in SubscriberRow
  PROVE  /\ [r EXCEPT !.completion_count_attempt = @ + 1] \in SubscriberRow
         /\ [r EXCEPT !.completion_count_attempt = @ + 1].status = r.status
         /\ [r EXCEPT !.completion_count_attempt = @ + 1].completion_count_attempt
              = r.completion_count_attempt + 1
BY DEF SubscriberRow

LEMMA DialedTyped ==
  ASSUME NEW r \in SubscriberRow, NEW cr \in CallrequestRow, NEW f \in BOOLEAN
  PROVE  /\ DialedSubscriber(r, f) \in SubscriberRow
         /\ DialedSubscriber(r, f).status \in {r.status, "FAIL"}
         /\ DialedSubscriber(r, f).completion_count_attempt = r.completion_count_attempt
         /\ DialedCallrequest(cr, f) \in CallrequestRow
<1>1. /\ DialedSubscriber(r, f) \in SubscriberRow
      /\ DialedSubscriber(r, f).status \in {r.status, "FAIL"}
      /\ DialedSubscriber(r, f).completion_count_attempt = r.completion_count_attempt
  <2> DEFINE n == r.count_attempt + 1
             st == IF f THEN "FAIL" ELSE r.status
  <2>1. n \in Nat /\ st \in SubscriberStatus /\ st \in {r.status, "FAIL"}
    BY DEF SubscriberRow, SubscriberStatus
  <2>2. DialedSubscriber(r, f) = [r EXCEPT !.count_attempt = n, !.status = st]
    BY DEF DialedSubscriber
  <2> HIDE DEF n, st
  <2>3. /\ [r EXCEPT !.count_attempt = n, !.status = st] \in SubscriberRow
        /\ [r EXCEPT !.count_attempt = n, !.status = st].status = st
        /\ [r EXCEPT !.count_attempt = n, !.status = st].completion_count_attempt
             = r.completion_count_attempt
    BY <2>1 DEF SubscriberRow
  <2>4. QED
    BY <2>1, <2>2, <2>3
<1>2. DialedCallrequest(cr, f) \in CallrequestRow
  <2>1. CASE f = TRUE
    BY <2>1 DEF CallrequestRow, CallrequestStatus, DialedCallrequest
  <2>2. CASE f = FALSE
    BY <2>2 DEF CallrequestRow, CallrequestStatus, DialedCallrequest
  <2>3. QED
    BY <2>1, <2>2
<1>3. QED
  BY <1>1, <1>2

LEMMA DialTaskTyped ==
  ASSUME NEW c \in CallrequestId, NEW f \in BOOLEAN,
         subscriber[owner[c]] \in SubscriberRow, callrequest[c] \in CallrequestRow
  PROVE  /\ DialTask(c, f) \in Task
         /\ DialTask(c, f).pc = "init_save_subscriber"
         /\ DialTask(c, f).cr = c
         /\ DialTask(c, f).subscriber = DialedSubscriber(subscriber[owner[c]], f)
BY DialedTyped DEF DialTask, Task, InitPc, EventKind

LEMMA EventTaskTyped ==
  ASSUME NEW e \in Event,
         subscriber[owner[e.cr]] \in SubscriberRow, callrequest[e.cr] \in CallrequestRow
  PROVE  /\ EventTask(e) \in Task
         /\ EventTask(e).pc \in EventPc
         /\ EventTask(e).cr = e.cr
         /\ EventTask(e).subscriber.status \in {subscriber[owner[e.cr]].status, "SENT", "FAIL"}
         /\ EventTask(e).subscriber.completion_count_attempt
              = subscriber[owner[e.cr]].completion_count_attempt
<1> DEFINE row == subscriber[owner[e.cr]]
           cr == callrequest[e.cr]
           sub == [row EXCEPT !.status = SettledStatus(@, e.kind)]
           req == [cr EXCEPT !.status = IF e.kind \in NormalClearing
                                        THEN "SUCCESS" ELSE "FAILURE"]
<1>1. e.cr \in CallrequestId /\ e.kind \in EventKind
  BY DEF Event
<1>2. SettledStatus(row.status, e.kind) \in {row.status, "SENT", "FAIL"}
      /\ SettledStatus(row.status, e.kind) \in SubscriberStatus
  BY DEF SettledStatus, SubscriberRow, SubscriberStatus
<1>3. sub \in SubscriberRow /\ sub.status \in {row.status, "SENT", "FAIL"}
      /\ sub.completion_count_attempt = row.completion_count_attempt
  BY <1>2, StatusTyped
<1>4. req \in CallrequestRow
  BY DEF CallrequestRow, CallrequestStatus
<1>5. CASE e.kind \in BLeg
  BY <1>1, <1>5 DEF EventTask, Task, EventPc
<1>6. CASE e.kind \notin BLeg
  <2>1. EventTask(e) = [pc |-> "event_save_callrequest", cr |-> e.cr, kind |-> e.kind,
                        subscriber |-> sub, callrequest |-> req]
    BY <1>6 DEF EventTask
  <2> HIDE DEF sub, req, row
  <2>2. QED
    BY <1>1, <1>3, <1>4, <2>1 DEF Task, EventPc, row
<1>7. QED
  BY <1>5, <1>6

LEMMA TaskFields ==
  ASSUME NEW t \in Task
  PROVE  /\ t.cr \in CallrequestId \cup {0}
         /\ t.subscriber \in SubscriberRow
         /\ t.callrequest \in CallrequestRow
         /\ t.pc \in {"idle"} \cup InitPc \cup EventPc
BY DEF Task

LEMMA PcTyped ==
  ASSUME NEW t \in Task, NEW pc \in InitPc \cup EventPc
  PROVE  /\ [t EXCEPT !.pc = pc] \in Task
         /\ [t EXCEPT !.pc = pc].pc = pc
         /\ [t EXCEPT !.pc = pc].cr = t.cr
         /\ [t EXCEPT !.pc = pc].subscriber = t.subscriber
BY DEF Task

-----------------------------------------------------------------------------
(***************************************************************************)
(* The inductive invariant behind the results that hold in every Env.      *)
(***************************************************************************)
Taken(row) == row.status # "PENDING"
Bounded(row) == row.completion_count_attempt <= CompletionMaxRetry

\* Only call requests that were created are queued, called, reported or worked
\* on, and each of them has a subscriber.
Known ==
  /\ \A c \in 1 .. lastId : owner[c] \in Subscriber
  /\ queue \subseteq 1 .. lastId
  /\ \A c \in CallrequestId : call[c] # "none" => c \in 1 .. lastId
  /\ \A e \in callEvent : e.cr \in 1 .. lastId
  /\ \A w \in Worker : ~IsIdle(w) => worker[w].cr \in 1 .. lastId

\* Nothing has touched a call request that is still queued.
Fresh ==
  \A c \in queue :
    /\ call[c] = "none" /\ callrequest[c].status = "PENDING"
    /\ \A e \in callEvent : e.cr # c
    /\ \A w \in Worker : ~IsIdle(w) => worker[w].cr # c

\* The rows and the copies the workers hold of them: none of a contact that
\* has a call request is PENDING, none counts too many completion retries.
Sound ==
  /\ \A s \in Subscriber : Bounded(subscriber[s])
  /\ \A c \in 1 .. lastId : Taken(subscriber[owner[c]])
  /\ \A w \in Worker : ~IsIdle(w) => /\ Taken(worker[w].subscriber)
                                     /\ Bounded(worker[w].subscriber)

IInv == TypeOK /\ Known /\ Fresh /\ Sound /\ SpooledOnce

LEMMA InitIInv == Init => IInv
<1> SUFFICES ASSUME Init PROVE IInv
  OBVIOUS
<1>1. TypeOK
  BY RowsTyped, BoundAssumption DEF Init, TypeOK, CallrequestId, Origin, CallState
<1>2. \A w \in Worker : IsIdle(w)
  BY RowsTyped DEF Init, IsIdle
<1>3. Known
  BY <1>2 DEF Init, Known
<1>4. Fresh
  BY DEF Init, Fresh
<1>5. Sound
  BY <1>2, RetryAssumption DEF Init, Sound, Bounded, NewSubscriber
<1>6. SpooledOnce
  BY DEF Init, SpooledOnce
<1>7. QED
  BY <1>1, <1>3, <1>4, <1>5, <1>6 DEF IInv

\* A step that creates no call request: what it may write.
Moves ==
  LET Touchable == (1 .. lastId) \ queue' IN
  /\ UNCHANGED <<owner, origin, lastId>>
  /\ queue' \subseteq queue
  /\ \A s \in Subscriber :
       \/ subscriber'[s] = subscriber[s]
       \/ Taken(subscriber'[s]) /\ Bounded(subscriber'[s])
  /\ \A c \in CallrequestId : callrequest'[c] = callrequest[c] \/ c \in Touchable
  /\ \A c \in CallrequestId : call'[c] = call[c] \/ c \in Touchable
  /\ \A e \in callEvent' : e \in callEvent \/ e.cr \in Touchable
  /\ \A w \in Worker :
       \/ worker'[w] = worker[w]
       \/ worker'[w].pc = "idle"
       \/ /\ worker'[w].cr \in Touchable
          /\ Taken(worker'[w].subscriber) /\ Bounded(worker'[w].subscriber)

LEMMA MovesKeep == IInv /\ TypeOK' /\ Moves => IInv'
<1> SUFFICES ASSUME IInv, TypeOK', Moves PROVE IInv'
  OBVIOUS
<1>1. Known'
  BY DEF IInv, Moves, Known, TypeOK, IsIdle
<1>2. Fresh'
  BY DEF IInv, Moves, Fresh, TypeOK, IsIdle
<1>3. Sound'
  BY DEF IInv, Moves, Known, Sound, TypeOK, IsIdle
<1>4. SpooledOnce'
  BY DEF IInv, Moves, SpooledOnce
<1>5. QED
  BY <1>1, <1>2, <1>3, <1>4 DEF IInv

\* A step that creates one: everything else it may write.
Grows(s, why) ==
  /\ Enqueue(s, why)
  /\ call' = call /\ callEvent' = callEvent
  /\ \A r \in Subscriber :
       \/ subscriber'[r] = subscriber[r]
       \/ Taken(subscriber'[r]) /\ Bounded(subscriber'[r])
  /\ callrequest'[lastId + 1].status = "PENDING"
  /\ \A c \in CallrequestId :
       callrequest'[c] = callrequest[c] \/ c \in ((1 .. lastId + 1) \ queue)
  /\ \A w \in Worker : worker'[w] = worker[w] \/ worker'[w].pc = "idle"

LEMMA EnqueueTyped ==
  ASSUME TypeOK, NEW s \in Subscriber, NEW why \in Origin, Enqueue(s, why)
  PROVE  /\ lastId + 1 \in CallrequestId
         /\ lastId' \in 0 .. MaxCallrequest
         /\ owner' \in [CallrequestId -> Subscriber \cup {NoSubscriber}]
         /\ origin' \in [CallrequestId -> Origin]
         /\ queue' \subseteq CallrequestId
         /\ 1 .. lastId' = (1 .. lastId) \cup {lastId + 1}
         /\ \A c \in 1 .. lastId : owner'[c] = owner[c] /\ origin'[c] = origin[c]
         /\ owner'[lastId + 1] = s /\ origin'[lastId + 1] = why
<1>1. lastId + 1 \in CallrequestId /\ 1 .. lastId \subseteq CallrequestId
  BY BoundAssumption DEF TypeOK, Enqueue, CallrequestId
<1>2. lastId' \in 0 .. MaxCallrequest /\ 1 .. lastId' = (1 .. lastId) \cup {lastId + 1}
  BY BoundAssumption DEF TypeOK, Enqueue, CallrequestId
<1>3. lastId + 1 \notin 1 .. lastId
  BY DEF TypeOK
<1>4. QED
  BY <1>1, <1>2, <1>3 DEF TypeOK, Enqueue

LEMMA GrowsKeep ==
  ASSUME IInv, TypeOK', NEW s \in Subscriber, NEW why \in Origin, Grows(s, why),
         Taken(subscriber'[s]),
         why = "first" => subscriber[s].status = "PENDING"
  PROVE  IInv'
<1> USE DEF IInv
<1>1. /\ 1 .. lastId' = (1 .. lastId) \cup {lastId + 1}
      /\ \A c \in 1 .. lastId : owner'[c] = owner[c] /\ origin'[c] = origin[c]
      /\ owner'[lastId + 1] = s /\ origin'[lastId + 1] = why
      /\ lastId + 1 \in CallrequestId /\ lastId + 1 \notin 1 .. lastId
  BY EnqueueTyped DEF Grows, TypeOK
<1>2. queue' \subseteq queue \cup {lastId + 1}
  BY DEF Grows, Enqueue
<1>3. Known'
  BY <1>1, <1>2 DEF Grows, Known, TypeOK, IsIdle
<1>4. Fresh'
  BY <1>1, <1>2 DEF Grows, Fresh, Known, TypeOK, IsIdle
<1>5. Sound'
  BY <1>1 DEF Grows, Sound, Known, TypeOK, IsIdle
<1>6. SpooledOnce'
  BY <1>1 DEF Grows, SpooledOnce, Sound, Taken
<1>7. QED
  BY <1>3, <1>4, <1>5, <1>6
-----------------------------------------------------------------------------
(***************************************************************************)
(* Every action is a move or creates one call request.                     *)
(***************************************************************************)
LEMMA StepPendingCall ==
  ASSUME IInv, NEW s \in Subscriber, PendingCall(s)
  PROVE  IInv'
<1> USE DEF IInv
<1>1. subscriber[s] \in SubscriberRow /\ Bounded(subscriber[s])
  BY DEF TypeOK, Sound
<1>2. /\ subscriber' = [subscriber EXCEPT ![s] = [subscriber[s] EXCEPT !.status = "IN_PROCESS"]]
      /\ [subscriber[s] EXCEPT !.status = "IN_PROCESS"] \in SubscriberRow
      /\ Taken([subscriber[s] EXCEPT !.status = "IN_PROCESS"])
      /\ Bounded([subscriber[s] EXCEPT !.status = "IN_PROCESS"])
  BY <1>1, StatusTyped DEF PendingCall, SubscriberStatus, Taken, Bounded, SubscriberRow
<1>3. NewCallrequest(FirstCallType).status = "PENDING"
  BY DEF NewCallrequest
<1>4. TypeOK'
  BY <1>2, EnqueueTyped, RowsTyped DEF PendingCall, TypeOK, Origin
<1>5. lastId + 1 \in CallrequestId /\ lastId + 1 \notin queue
  BY EnqueueTyped DEF PendingCall, Known, TypeOK, Origin
<1>6. Grows(s, "first")
  BY <1>2, <1>3, <1>5 DEF PendingCall, Grows, TypeOK
<1>7. QED
  BY <1>2, <1>4, <1>6, GrowsKeep DEF PendingCall, TypeOK, Origin

LEMMA StepStartDial ==
  ASSUME IInv, NEW w \in Worker, NEW c \in CallrequestId, StartDial(w, c)
  PROVE  IInv'
<1> USE DEF IInv
<1>1. /\ c \in 1 .. lastId /\ owner[c] \in Subscriber /\ callrequest[c] \in CallrequestRow
      /\ subscriber[owner[c]] \in SubscriberRow
      /\ Taken(subscriber[owner[c]]) /\ Bounded(subscriber[owner[c]])
  BY DEF StartDial, InitDial, InitDialError, InitBadNumber, Known, Sound, TypeOK
<1>2. ASSUME NEW f \in BOOLEAN
      PROVE  /\ DialTask(c, f) \in Task /\ DialTask(c, f).cr = c
             /\ Taken(DialTask(c, f).subscriber) /\ Bounded(DialTask(c, f).subscriber)
  BY <1>1, DialTaskTyped, DialedTyped DEF Taken, Bounded
<1>3. CASE InitDial(w, c)
  <2>1. TypeOK'
    BY <1>2, <1>3 DEF InitDial, TypeOK, CallState, rows
  <2>2. Moves
    BY <1>1, <1>2, <1>3 DEF InitDial, Moves, TypeOK, rows
  <2>3. QED
    BY <2>1, <2>2, MovesKeep
<1>4. CASE InitDialError(w, c)
  <2>1. TypeOK'
    BY <1>2, <1>4 DEF InitDialError, TypeOK, rows
  <2>2. Moves
    BY <1>1, <1>2, <1>4 DEF InitDialError, Moves, TypeOK, rows
  <2>3. QED
    BY <2>1, <2>2, MovesKeep
<1>5. CASE InitBadNumber(w, c)
  <2>1. TypeOK'
    BY <1>5 DEF InitBadNumber, TypeOK, rows
  <2>2. Moves
    BY <1>5 DEF InitBadNumber, Moves, rows
  <2>3. QED
    BY <2>1, <2>2, MovesKeep
<1>6. QED
  BY <1>3, <1>4, <1>5 DEF StartDial

\* What is known of the task of a worker that is not idle.
LEMMA BusyTask ==
  ASSUME IInv, NEW w \in Worker, ~IsIdle(w)
  PROVE  /\ worker[w] \in Task
         /\ worker[w].cr \in 1 .. lastId /\ worker[w].cr \in CallrequestId
         /\ worker[w].cr \notin queue
         /\ owner[worker[w].cr] \in Subscriber
         /\ worker[w].subscriber \in SubscriberRow
         /\ worker[w].callrequest \in CallrequestRow
         /\ Taken(worker[w].subscriber) /\ Bounded(worker[w].subscriber)
<1>1. worker[w] \in Task /\ worker[w].cr \in 1 .. lastId
  BY DEF IInv, TypeOK, Known
<1>2. worker[w].cr \in CallrequestId
  BY <1>1, BoundAssumption DEF IInv, TypeOK, CallrequestId
<1>3. QED
  BY <1>1, <1>2, TaskFields DEF IInv, Known, Fresh, Sound

LEMMA StepSave ==
  ASSUME IInv, NEW w \in Worker,
         InitSaveSubscriber(w) \/ InitSaveCallrequest(w)
           \/ EventSaveCallrequest(w) \/ EventSaveSubscriber(w)
  PROVE  IInv'
<1> DEFINE t == worker[w]
<1>1. t.pc \in InitPc \cup EventPc /\ ~IsIdle(w)
  BY DEF InitSaveSubscriber, InitSaveCallrequest, EventSaveCallrequest, EventSaveSubscriber,
         InitPc, EventPc, IsIdle
<1>2. /\ t \in Task /\ t.cr \in 1 .. lastId /\ t.cr \in CallrequestId /\ t.cr \notin queue
      /\ owner[t.cr] \in Subscriber
      /\ t.subscriber \in SubscriberRow /\ t.callrequest \in CallrequestRow
      /\ Taken(t.subscriber) /\ Bounded(t.subscriber)
  BY <1>1, BusyTask
<1>3. ASSUME NEW pc \in InitPc \cup EventPc, worker' = [worker EXCEPT ![w].pc = pc]
      PROVE  /\ worker' \in [Worker -> Task]
             /\ worker'[w].cr = t.cr /\ worker'[w].subscriber = t.subscriber
             /\ \A v \in Worker \ {w} : worker'[v] = worker[v]
  <2>1. [t EXCEPT !.pc = pc] \in Task /\ [t EXCEPT !.pc = pc].cr = t.cr
        /\ [t EXCEPT !.pc = pc].subscriber = t.subscriber
    BY <1>2, <1>3, PcTyped
  <2>2. worker' = [worker EXCEPT ![w] = [t EXCEPT !.pc = pc]]
    BY <1>3
  <2>3. QED
    BY <2>1, <2>2 DEF IInv, TypeOK
<1>4. CASE InitSaveSubscriber(w)
  <2>1. /\ worker' \in [Worker -> Task]
        /\ worker'[w].cr = t.cr /\ worker'[w].subscriber = t.subscriber
        /\ \A v \in Worker \ {w} : worker'[v] = worker[v]
    BY <1>3, <1>4 DEF InitSaveSubscriber, InitPc
  <2>2. TypeOK'
    BY <1>2, <1>4, <2>1 DEF IInv, InitSaveSubscriber, TypeOK
  <2>3. Moves
    BY <1>2, <1>4, <2>1 DEF IInv, InitSaveSubscriber, Moves, TypeOK
  <2>4. QED
    BY <2>2, <2>3, MovesKeep
<1>5. CASE InitSaveCallrequest(w)
  <2>1. TypeOK'
    BY <1>2, <1>5, RowsTyped DEF IInv, InitSaveCallrequest, TypeOK
  <2>2. Moves
    BY <1>2, <1>5, RowsTyped DEF IInv, InitSaveCallrequest, Moves, TypeOK
  <2>3. QED
    BY <2>1, <2>2, MovesKeep
<1>6. CASE EventSaveCallrequest(w)
  <2>1. /\ worker' \in [Worker -> Task]
        /\ worker'[w].cr = t.cr /\ worker'[w].subscriber = t.subscriber
        /\ \A v \in Worker \ {w} : worker'[v] = worker[v]
    BY <1>3, <1>6 DEF EventSaveCallrequest, EventPc
  <2>2. TypeOK'
    BY <1>2, <1>6, <2>1 DEF IInv, EventSaveCallrequest, TypeOK
  <2>3. Moves
    BY <1>2, <1>6, <2>1 DEF IInv, EventSaveCallrequest, Moves, TypeOK
  <2>4. QED
    BY <2>2, <2>3, MovesKeep
<1>7. CASE EventSaveSubscriber(w)
  <2>1. /\ worker' \in [Worker -> Task]
        /\ worker'[w].cr = t.cr /\ worker'[w].subscriber = t.subscriber
        /\ \A v \in Worker \ {w} : worker'[v] = worker[v]
    BY <1>3, <1>7 DEF EventSaveSubscriber, EventPc
  <2>2. TypeOK'
    BY <1>2, <1>7, <2>1 DEF IInv, EventSaveSubscriber, TypeOK
  <2>3. Moves
    BY <1>2, <1>7, <2>1 DEF IInv, EventSaveSubscriber, Moves, TypeOK
  <2>4. QED
    BY <2>2, <2>3, MovesKeep
<1>8. QED
  BY <1>4, <1>5, <1>6, <1>7

LEMMA ReportTyped ==
  ASSUME TypeOK, NEW c \in CallrequestId, NEW kinds \in SUBSET EventKind, Report(c, kinds)
  PROVE  callEvent' \subseteq Event /\ \A e \in callEvent' : e \in callEvent \/ e.cr = c
BY DEF TypeOK, Report, Event

LEMMA StepCall ==
  ASSUME IInv, NEW c \in CallrequestId, CallStep(c)
  PROVE  IInv'
<1> USE DEF IInv
<1>1. call[c] # "none"
  BY DEF CallStep, Answer, Fail, HangUp, TransferEnds, MarkCompleted
<1>2. c \in 1 .. lastId /\ c \notin queue /\ owner[c] \in Subscriber
  BY <1>1 DEF Known, Fresh
<1>3. /\ {"failed"} \subseteq EventKind /\ {"failed", "answered"} \subseteq EventKind
      /\ \A k \in HangupKind \cup BLeg : {k} \subseteq EventKind
  BY DEF EventKind, HangupKind, BLeg
<1>4. CASE Answer(c)
  <2>1. TypeOK'
    BY <1>4 DEF Answer, TypeOK, CallState, rows
  <2>2. Moves
    BY <1>2, <1>4 DEF Answer, Moves, TypeOK, rows
  <2>3. QED
    BY <2>1, <2>2, MovesKeep
<1>5. CASE Fail(c)
  <2>1. callEvent' \subseteq Event /\ \A e \in callEvent' : e \in callEvent \/ e.cr = c
    BY <1>3, <1>5, ReportTyped DEF Fail
  <2>2. TypeOK'
    BY <1>5, <2>1 DEF Fail, TypeOK, CallState, rows
  <2>3. Moves
    BY <1>2, <1>5, <2>1 DEF Fail, Moves, TypeOK, rows
  <2>4. QED
    BY <2>2, <2>3, MovesKeep
<1>6. CASE HangUp(c)
  <2>1. callEvent' \subseteq Event /\ \A e \in callEvent' : e \in callEvent \/ e.cr = c
    BY <1>3, <1>6, ReportTyped DEF HangUp, TypeOK
  <2>2. TypeOK'
    BY <1>6, <2>1 DEF HangUp, TypeOK, CallState, rows
  <2>3. Moves
    BY <1>2, <1>6, <2>1 DEF HangUp, Moves, TypeOK, rows
  <2>4. QED
    BY <2>2, <2>3, MovesKeep
<1>7. CASE TransferEnds(c)
  <2>1. callEvent' \subseteq Event /\ \A e \in callEvent' : e \in callEvent \/ e.cr = c
    BY <1>3, <1>7, ReportTyped DEF TransferEnds
  <2>2. TypeOK'
    BY <1>7, <2>1 DEF TransferEnds, TypeOK, rows
  <2>3. Moves
    BY <1>2, <1>7, <2>1 DEF TransferEnds, Moves, TypeOK, rows
  <2>4. QED
    BY <2>2, <2>3, MovesKeep
<1>8. CASE MarkCompleted(c)
  <2> DEFINE row == [subscriber[owner[c]] EXCEPT !.status = "COMPLETED"]
  <2>1. subscriber' = [subscriber EXCEPT ![owner[c]] = row]
    BY <1>8 DEF MarkCompleted
  <2>2. row \in SubscriberRow /\ Taken(row) /\ Bounded(row)
    <3>1. subscriber[owner[c]] \in SubscriberRow /\ Bounded(subscriber[owner[c]])
      BY <1>2 DEF TypeOK, Sound
    <3>2. row \in SubscriberRow /\ row.status = "COMPLETED"
          /\ row.completion_count_attempt = subscriber[owner[c]].completion_count_attempt
      BY <3>1, StatusTyped DEF SubscriberStatus
    <3>3. QED
      BY <3>1, <3>2 DEF Taken, Bounded
  <2>3. TypeOK'
    BY <1>8, <2>1, <2>2 DEF MarkCompleted, TypeOK
  <2>4. Moves
    BY <1>2, <1>8, <2>1, <2>2 DEF MarkCompleted, Moves, TypeOK
  <2>5. QED
    BY <2>3, <2>4, MovesKeep
<1>9. QED
  BY <1>4, <1>5, <1>6, <1>7, <1>8 DEF CallStep

LEMMA StepStartEvent ==
  ASSUME IInv, NEW w \in Worker, NEW e \in Event, StartEvent(w, e)
  PROVE  IInv'
<1> USE DEF IInv
<1>1. e \in callEvent /\ callEvent' \subseteq callEvent
  BY DEF StartEvent, EventRead, EventNotFound, TakeEvent
<1>2. /\ e.cr \in 1 .. lastId /\ e.cr \in CallrequestId /\ e.cr \notin queue
      /\ owner[e.cr] \in Subscriber
      /\ subscriber[owner[e.cr]] \in SubscriberRow /\ callrequest[e.cr] \in CallrequestRow
      /\ Taken(subscriber[owner[e.cr]]) /\ Bounded(subscriber[owner[e.cr]])
  BY <1>1 DEF Known, Fresh, Sound, TypeOK, Event
<1>3. CASE EventRead(w, e)
  <2>1. /\ EventTask(e) \in Task /\ EventTask(e).cr = e.cr
        /\ Taken(EventTask(e).subscriber) /\ Bounded(EventTask(e).subscriber)
    BY <1>2, EventTaskTyped DEF Taken, Bounded
  <2>2. TypeOK'
    BY <1>1, <1>3, <2>1 DEF EventRead, TypeOK, rows
  <2>3. Moves
    BY <1>1, <1>2, <1>3, <2>1 DEF EventRead, Moves, TypeOK, rows
  <2>4. QED
    BY <2>2, <2>3, MovesKeep
<1>4. CASE EventNotFound(w, e)
  <2>1. TypeOK'
    BY <1>1, <1>4 DEF EventNotFound, TypeOK, rows
  <2>2. Moves
    BY <1>1, <1>4 DEF EventNotFound, Moves, rows
  <2>3. QED
    BY <2>1, <2>2, MovesKeep
<1>5. QED
  BY <1>3, <1>4 DEF StartEvent

\* The save of RETRY_DONE touches the call request the task is about, no other.
LEMMA RetryDoneTyped ==
  ASSUME TypeOK, NEW t \in Task, t.cr \in CallrequestId
  PROVE  /\ RetryDoneRows(t) \in [CallrequestId -> CallrequestRow]
         /\ \A c \in CallrequestId \ {t.cr} : RetryDoneRows(t)[c] = callrequest[c]
<1> DEFINE req == [t.callrequest EXCEPT !.call_type = "RETRY_DONE"]
<1>1. req \in CallrequestRow
  BY TaskFields DEF CallrequestRow, CallrequestType
<1> HIDE DEF req
<1>2. RetryDoneRows(t) \in {callrequest, [callrequest EXCEPT ![t.cr] = req]}
  BY DEF RetryDoneRows, req
<1>3. QED
  BY <1>1, <1>2 DEF TypeOK

LEMMA CountCompletionTyped ==
  ASSUME TypeOK, NEW t \in Task, Taken(t.subscriber), CountCompletion(t)
  PROVE  \E row \in SubscriberRow :
           /\ subscriber' = [subscriber EXCEPT ![owner[t.cr]] = row]
           /\ Taken(row) /\ Bounded(row)
<1> DEFINE row == [t.subscriber EXCEPT !.completion_count_attempt = @ + 1]
<1>1. t.subscriber.completion_count_attempt < CompletionMaxRetry
  BY DEF CountCompletion, CompletionDue
<1>2. t.subscriber.completion_count_attempt \in Nat
  BY TaskFields DEF SubscriberRow
<1>3. row \in SubscriberRow /\ Taken(row) /\ Bounded(row)
  BY <1>1, <1>2, TaskFields, CountTyped, RetryAssumption DEF Taken, Bounded
<1>4. subscriber' = [subscriber EXCEPT ![owner[t.cr]] = row]
  BY DEF CountCompletion
<1> HIDE DEF row
<1>5. QED
  BY <1>3, <1>4

LEMMA StepRetry ==
  ASSUME IInv, NEW w \in Worker,
         EventBasicRetry(w) \/ EventCompletionRetry(w) \/ EventNoRetry(w) \/ EventCountUnset(w)
           \/ EventDies(w)
  PROVE  IInv'
<1> DEFINE t == worker[w]
<1> USE DEF IInv
<1>1. ~IsIdle(w)
  BY DEF EventBasicRetry, EventCompletionRetry, EventNoRetry, EventCountUnset, EventDies, IsIdle
<1>2. /\ t \in Task /\ t.cr \in 1 .. lastId /\ t.cr \in CallrequestId /\ t.cr \notin queue
      /\ owner[t.cr] \in Subscriber /\ t.subscriber \in SubscriberRow
      /\ Taken(t.subscriber) /\ Bounded(t.subscriber)
  BY <1>1, BusyTask
<1>3. /\ RetryDoneRows(t) \in [CallrequestId -> CallrequestRow]
      /\ \A c \in CallrequestId \ {t.cr} : RetryDoneRows(t)[c] = callrequest[c]
  BY <1>2, RetryDoneTyped
<1>4. NewCallrequest("ALLOW_RETRY") \in CallrequestRow
      /\ NewCallrequest("ALLOW_RETRY").status = "PENDING"
  BY RowsTyped DEF NewCallrequest
<1>5. CASE EventBasicRetry(w)
  <2>1. Enqueue(owner[t.cr], "retry") /\ lastId + 1 \in CallrequestId
    BY <1>2, <1>5, EnqueueTyped DEF EventBasicRetry, Origin
  <2>2. TypeOK'
    BY <1>2, <1>3, <1>4, <1>5, <2>1, EnqueueTyped, RowsTyped DEF EventBasicRetry, TypeOK, Origin
  <2>3. lastId + 1 \notin queue
    BY DEF Known, TypeOK
  <2>4. Grows(owner[t.cr], "retry")
    <3>1. callrequest' = [RetryDoneRows(t) EXCEPT ![lastId + 1] = NewCallrequest("ALLOW_RETRY")]
      BY <1>5 DEF EventBasicRetry
    <3>2. callrequest'[lastId + 1].status = "PENDING"
      BY <1>3, <1>4, <2>1, <3>1
    <3>3. \A c \in CallrequestId :
             callrequest'[c] = callrequest[c] \/ c \in ((1 .. lastId + 1) \ queue)
      BY <1>2, <1>3, <2>1, <2>3, <3>1 DEF TypeOK
    <3>4. QED
      BY <1>5, <2>1, <3>2, <3>3, RowsTyped DEF EventBasicRetry, Grows, TypeOK
  <2>5. Taken(subscriber'[owner[t.cr]])
    BY <1>2, <1>5 DEF EventBasicRetry, Sound
  <2>6. QED
    BY <1>2, <2>2, <2>4, <2>5, GrowsKeep DEF Origin
<1>6. CASE EventCompletionRetry(w)
  <2>1. Enqueue(owner[t.cr], "completion") /\ lastId + 1 \in CallrequestId
    BY <1>2, <1>6, EnqueueTyped DEF EventCompletionRetry, Origin
  <2>2. PICK row \in SubscriberRow :
          /\ subscriber' = [subscriber EXCEPT ![owner[t.cr]] = row]
          /\ Taken(row) /\ Bounded(row)
    BY <1>2, <1>6, CountCompletionTyped DEF EventCompletionRetry
  <2>4. TypeOK'
    BY <1>2, <1>3, <1>4, <1>6, <2>1, <2>2, EnqueueTyped, RowsTyped
    DEF EventCompletionRetry, TypeOK, Origin
  <2>5. lastId + 1 \notin queue
    BY DEF Known, TypeOK
  <2>6. Grows(owner[t.cr], "completion")
    <3>1. callrequest' = [RetryDoneRows(t) EXCEPT ![lastId + 1] = NewCallrequest("ALLOW_RETRY")]
      BY <1>6 DEF EventCompletionRetry
    <3>2. callrequest'[lastId + 1].status = "PENDING"
      BY <1>3, <1>4, <2>1, <3>1
    <3>3. \A c \in CallrequestId :
             callrequest'[c] = callrequest[c] \/ c \in ((1 .. lastId + 1) \ queue)
      BY <1>2, <1>3, <2>1, <2>5, <3>1 DEF TypeOK
    <3>4. QED
      BY <1>6, <2>1, <2>2, <3>2, <3>3, RowsTyped DEF EventCompletionRetry, Grows, TypeOK
  <2>7. Taken(subscriber'[owner[t.cr]])
    BY <1>2, <2>2 DEF TypeOK
  <2>8. QED
    BY <1>2, <2>4, <2>6, <2>7, GrowsKeep DEF Origin
<1>7. CASE EventNoRetry(w)
  <2>1. TypeOK'
    BY <1>3, <1>7, RowsTyped DEF EventNoRetry, TypeOK
  <2>2. Moves
    BY <1>2, <1>3, <1>7, RowsTyped DEF EventNoRetry, Moves, TypeOK
  <2>3. QED
    BY <2>1, <2>2, MovesKeep
<1>8. CASE EventCountUnset(w)
  <2>1. TypeOK'
    BY <1>3, <1>8, RowsTyped DEF EventCountUnset, TypeOK
  <2>2. Moves
    BY <1>2, <1>3, <1>8, RowsTyped DEF EventCountUnset, Moves, TypeOK
  <2>3. QED
    BY <2>1, <2>2, MovesKeep
<1>9. CASE EventDies(w)
  <2>1. PICK row \in SubscriberRow :
          /\ \/ subscriber' = [subscriber EXCEPT ![owner[t.cr]] = row]
             \/ subscriber' = subscriber
          /\ Taken(row) /\ Bounded(row)
    BY <1>2, <1>9, CountCompletionTyped DEF EventDies
  <2>2. TypeOK'
    BY <1>2, <1>3, <1>9, <2>1, RowsTyped DEF EventDies, TypeOK
  <2>3. Moves
    BY <1>2, <1>3, <1>9, <2>1, RowsTyped DEF EventDies, Moves, TypeOK
  <2>4. QED
    BY <2>2, <2>3, MovesKeep
<1>10. QED
  BY <1>5, <1>6, <1>7, <1>8, <1>9

LEMMA StepLoss ==
  ASSUME IInv, (\E w \in Worker : Crash(w)) \/ (\E e \in Event : LoseEvent(e))
  PROVE  IInv'
<1> USE DEF IInv
<1>1. ASSUME NEW w \in Worker, Crash(w) PROVE IInv'
  <2>1. TypeOK'
    BY <1>1, RowsTyped DEF Crash, TypeOK, rows
  <2>2. Moves
    BY <1>1, RowsTyped DEF Crash, Moves, TypeOK, rows
  <2>3. QED
    BY <2>1, <2>2, MovesKeep
<1>2. ASSUME NEW e \in Event, LoseEvent(e) PROVE IInv'
  <2>1. TypeOK'
    BY <1>2 DEF LoseEvent, TypeOK, rows
  <2>2. Moves
    BY <1>2 DEF LoseEvent, Moves, rows
  <2>3. QED
    BY <2>1, <2>2, MovesKeep
<1>3. QED
  BY <1>1, <1>2

LEMMA StepStutter == IInv /\ UNCHANGED vars => IInv'
<1> SUFFICES ASSUME IInv, UNCHANGED vars PROVE IInv'
  OBVIOUS
<1>1. TypeOK'
  BY DEF IInv, TypeOK, vars, rows
<1>2. Moves
  BY DEF Moves, vars, rows
<1>3. QED
  BY <1>1, <1>2, MovesKeep

LEMMA StepIInv == IInv /\ [Next]_vars => IInv'
<1> SUFFICES ASSUME IInv, [Next]_vars PROVE IInv'
  OBVIOUS
<1>1. ASSUME NEW s \in Subscriber, PendingCall(s) PROVE IInv'
  BY <1>1, StepPendingCall
<1>2. ASSUME NEW w \in Worker, TaskStep(w) PROVE IInv'
  BY <1>2, StepSave, StepRetry DEF TaskStep
<1>3. ASSUME NEW w \in Worker, EventDies(w) PROVE IInv'
  BY <1>3, StepRetry
<1>4. ASSUME NEW w \in Worker, NEW c \in CallrequestId, StartDial(w, c) PROVE IInv'
  BY <1>4, StepStartDial
<1>5. ASSUME NEW w \in Worker, NEW e \in Event, StartEvent(w, e) PROVE IInv'
  BY <1>5, StepStartEvent
<1>6. ASSUME NEW c \in CallrequestId, CallStep(c) PROVE IInv'
  BY <1>6, StepCall
<1>7. CASE UNCHANGED vars
  BY <1>7, StepStutter
<1>8. QED
  BY <1>1, <1>2, <1>3, <1>4, <1>5, <1>6, <1>7, StepLoss DEF Next

LEMMA Invariance == Spec => []IInv
BY InitIInv, StepIInv, PTL DEF Spec

-----------------------------------------------------------------------------
\* Every row, message and task copy keeps its type: in particular no
\* completion count is negative and no task ever names a row that is not there.
THEOREM TypeCorrect == Spec => []TypeOK
<1>1. IInv => TypeOK
  BY DEF IInv
<1>2. QED
  BY <1>1, Invariance, PTL

\* In every Env, with any number of workers: a queued message names a call
\* request that nothing has dialled, so no call request is dialled twice.
THEOREM NeverDialledTwice == Spec => []QueuedUndialled
<1>1. IInv => QueuedUndialled
  BY DEF IInv, Fresh, QueuedUndialled
<1>2. QED
  BY <1>1, Invariance, PTL

\* In every Env: no stale save of a whole row makes pending_call_processing
\* take a subscriber a second time.
THEOREM TakenOnce == Spec => []SpooledOnce
<1>1. IInv => SpooledOnce
  BY DEF IInv
<1>2. QED
  BY <1>1, Invariance, PTL

\* In every Env: the column never exceeds the campaign's limit, because each
\* task tests the very copy it increments and saves.
THEOREM CompletionNeverExceeded == Spec => []CompletionBounded
<1>1. IInv => CompletionBounded
  BY DEF IInv, Sound, Bounded, CompletionBounded
<1>2. QED
  BY <1>1, Invariance, PTL

-----------------------------------------------------------------------------
(***************************************************************************)
(* One live call request per contact.  It needs every call to end in at    *)
(* most one row of call_event, handed over at most once; then a call       *)
(* request goes through queue, call, row and task one after the other, and *)
(* the next one is created by the task that ends its predecessor.          *)
(***************************************************************************)
OneReport == Env \cap {"duplicate", "transfer", "rejected"} = {}

Phases ==
  /\ \A e \in callEvent : ~InCall(e.cr)
  /\ \A e, f \in callEvent : e.cr = f.cr => e = f
  /\ \A w \in Worker : worker[w].pc \in EventPc =>
       ~InCall(worker[w].cr) /\ ~Reported(worker[w].cr)
  /\ \A v, w \in Worker :
       worker[v].pc \in EventPc /\ worker[w].pc \in EventPc /\ worker[v].cr = worker[w].cr
         => v = w

LInv == IInv /\ Phases /\ OneLiveCallrequest

LEMMA InitLInv == Init => LInv
<1> SUFFICES ASSUME Init PROVE Phases /\ OneLiveCallrequest
  BY InitIInv DEF LInv
<1>1. \A w \in Worker : worker[w].pc \notin EventPc
  BY RowsTyped DEF Init, EventPc
<1>2. QED
  BY <1>1 DEF Init, Phases, OneLiveCallrequest

\* A step after which no call request is live that was not live before.
LEMMA LiveKept ==
  ASSUME OneLiveCallrequest, owner' = owner, lastId' = lastId,
         \A c \in 1 .. lastId : Live(c)' => Live(c)
  PROVE  OneLiveCallrequest'
BY DEF OneLiveCallrequest

\* A step that makes one new call request live, when no other of its owner is.
LEMMA LiveGrown ==
  ASSUME TypeOK, OneLiveCallrequest, NEW s \in Subscriber, NEW why \in Origin, Enqueue(s, why),
         \A c \in 1 .. lastId : Live(c)' => Live(c) /\ owner[c] # s
  PROVE  OneLiveCallrequest'
<1>1. /\ 1 .. lastId' = (1 .. lastId) \cup {lastId + 1}
      /\ \A c \in 1 .. lastId : owner'[c] = owner[c]
      /\ owner'[lastId + 1] = s
  BY EnqueueTyped
<1>2. QED
  BY <1>1 DEF OneLiveCallrequest

LEMMA LivePendingCall ==
  ASSUME LInv, NEW s \in Subscriber, PendingCall(s)
  PROVE  Phases' /\ OneLiveCallrequest'
<1>1. UNCHANGED <<call, callEvent, worker>> /\ Enqueue(s, "first")
      /\ queue' \subseteq queue \cup {lastId + 1}
  BY DEF PendingCall, Enqueue
<1>2. \A c \in 1 .. lastId : owner[c] # s
  BY DEF LInv, IInv, Sound, Taken, PendingCall
<1>3. Phases'
  BY <1>1 DEF LInv, Phases, InCall, Reported
<1>4. \A c \in 1 .. lastId : Live(c)' => Live(c)
  BY <1>1 DEF LInv, IInv, TypeOK, Live, InQueue, InCall, Reported, Judged
<1>5. QED
  BY <1>1, <1>2, <1>3, <1>4, LiveGrown DEF LInv, IInv, Origin

LEMMA LiveStartDial ==
  ASSUME LInv, NEW w \in Worker, NEW c \in CallrequestId, StartDial(w, c)
  PROVE  Phases' /\ OneLiveCallrequest'
<1>1. /\ c \in queue /\ IsIdle(w) /\ queue' = queue \ {c}
      /\ UNCHANGED <<rows, callEvent>>
      /\ call' = call \/ call' = [call EXCEPT ![c] = "ringing"]
  BY DEF StartDial, InitDial, InitDialError, InitBadNumber
<1>2. \A e \in callEvent : e.cr # c
  BY <1>1 DEF LInv, IInv, Fresh
<1>3. \A v \in Worker : worker[v].pc \in EventPc => worker[v].cr \in CallrequestId \ {c}
  BY <1>1, BusyTask DEF LInv, IInv, IsIdle, EventPc
<1>4. /\ \A v \in Worker \ {w} : worker'[v] = worker[v]
      /\ worker'[w].pc \notin EventPc
  <2>1. DialTask(c, TRUE).pc \notin EventPc /\ DialTask(c, FALSE).pc \notin EventPc
    BY DEF DialTask, EventPc
  <2>2. worker[w].pc \notin EventPc
    BY <1>1 DEF IsIdle, EventPc
  <2>3. worker' \in {worker, [worker EXCEPT ![w] = DialTask(c, TRUE)],
                     [worker EXCEPT ![w] = DialTask(c, FALSE)]}
    BY DEF StartDial, InitDial, InitDialError, InitBadNumber
  <2>4. QED
    BY <2>1, <2>2, <2>3 DEF LInv, IInv, TypeOK
<1>5. Phases'
  <2>1. \A d \in CallrequestId \ {c} : InCall(d)' => InCall(d)
    BY <1>1 DEF LInv, IInv, TypeOK, InCall
  <2>2. \A d \in CallrequestId : Reported(d)' => Reported(d)
    BY <1>1 DEF Reported
  <2>3. \A e \in callEvent : e.cr \in CallrequestId \ {c}
    BY <1>2 DEF LInv, IInv, TypeOK, Event
  <2>4. \A v \in Worker : worker'[v].pc \in EventPc => worker'[v] = worker[v]
    BY <1>4
  <2>5. callEvent' = callEvent
    BY <1>1
  <2>6. QED
    BY <1>3, <2>1, <2>2, <2>3, <2>4, <2>5 DEF LInv, Phases
<1>6. \A d \in 1 .. lastId : Live(d)' => Live(d)
  BY <1>1, <1>4, BoundAssumption
  DEF LInv, IInv, TypeOK, CallrequestId, Live, InQueue, InCall, Reported, Judged
<1>7. QED
  BY <1>1, <1>5, <1>6, LiveKept DEF LInv, rows

LEMMA LiveSave ==
  ASSUME LInv, NEW w \in Worker,
         InitSaveSubscriber(w) \/ InitSaveCallrequest(w)
           \/ EventSaveCallrequest(w) \/ EventSaveSubscriber(w)
  PROVE  Phases' /\ OneLiveCallrequest'
<1>1. UNCHANGED <<owner, lastId, queue, call, callEvent>>
  BY DEF InitSaveSubscriber, InitSaveCallrequest, EventSaveCallrequest, EventSaveSubscriber
<1>2. \A v \in Worker :
        worker'[v].pc \in EventPc => worker[v].pc \in EventPc /\ worker'[v].cr = worker[v].cr
  <2> USE DEF LInv, IInv, TypeOK
  <2>1. CASE InitSaveSubscriber(w)
    BY <2>1 DEF InitSaveSubscriber, EventPc, Task
  <2>2. CASE InitSaveCallrequest(w)
    BY <2>2, RowsTyped DEF InitSaveCallrequest, EventPc
  <2>3. CASE EventSaveCallrequest(w)
    BY <2>3 DEF EventSaveCallrequest, EventPc, Task
  <2>4. CASE EventSaveSubscriber(w)
    BY <2>4 DEF EventSaveSubscriber, EventPc, Task
  <2>5. QED
    BY <2>1, <2>2, <2>3, <2>4
<1>3. Phases'
  BY <1>1, <1>2 DEF LInv, Phases, InCall, Reported
<1>4. \A d \in 1 .. lastId : Live(d)' => Live(d)
  BY <1>1, <1>2 DEF Live, InQueue, InCall, Reported, Judged
<1>5. QED
  BY <1>1, <1>3, <1>4, LiveKept DEF LInv

LEMMA LiveCall ==
  ASSUME LInv, OneReport, NEW c \in CallrequestId, CallStep(c)
  PROVE  Phases' /\ OneLiveCallrequest'
<1>1. /\ InCall(c) /\ UNCHANGED <<owner, lastId, queue, worker>>
      /\ \A d \in CallrequestId \ {c} : call'[d] = call[d]
  BY DEF CallStep, Answer, Fail, HangUp, TransferEnds, MarkCompleted, InCall, rows,
         LInv, IInv, TypeOK
<1>2. /\ \A e \in callEvent : e.cr \in CallrequestId \ {c}
      /\ \A v \in Worker : worker[v].pc \in EventPc => worker[v].cr \in CallrequestId \ {c}
  BY <1>1, BusyTask DEF LInv, IInv, TypeOK, Phases, Event, IsIdle, EventPc
<1>3. CASE callEvent' = callEvent
  <2>1. Phases'
    BY <1>1, <1>2, <1>3 DEF LInv, Phases, InCall, Reported
  <2>2. \A d \in 1 .. lastId : Live(d)' => Live(d)
    BY <1>1, <1>3, BoundAssumption
    DEF LInv, IInv, TypeOK, CallrequestId, Live, InQueue, InCall, Reported, Judged
  <2>3. QED
    BY <1>1, <2>1, <2>2, LiveKept DEF LInv
<1>4. CASE ~InCall(c)' /\ \E k \in EventKind : Report(c, {k})
  <2>1. PICK k \in EventKind : Report(c, {k})
    BY <1>4
  <2>2. callEvent' = callEvent \cup {[cr |-> c, kind |-> k]}
    BY <2>1 DEF Report
  <2>3. Phases'
    <3>1. \A e \in callEvent' : ~InCall(e.cr)'
      BY <1>1, <1>2, <1>4, <2>2 DEF LInv, Phases, InCall
    <3>2. \A e, f \in callEvent' : e.cr = f.cr => e = f
      BY <1>2, <2>2 DEF LInv, Phases
    <3>3. (\A v \in Worker : worker[v].pc \in EventPc =>
              ~InCall(worker[v].cr) /\ ~Reported(worker[v].cr))'
      BY <1>1, <1>2, <2>2 DEF LInv, Phases, InCall, Reported
    <3>4. QED
      BY <1>1, <3>1, <3>2, <3>3 DEF LInv, Phases
  <2>4. \A d \in 1 .. lastId : Live(d)' => Live(d)
    <3>1. \A d \in CallrequestId \ {c} : Live(d)' => Live(d)
      BY <1>1, <2>2 DEF Live, InQueue, InCall, Reported, Judged
    <3>2. Live(c)
      BY <1>1 DEF Live
    <3>3. QED
      BY <3>1, <3>2, BoundAssumption DEF LInv, IInv, TypeOK, CallrequestId
  <2>5. QED
    BY <1>1, <2>3, <2>4, LiveKept DEF LInv
<1>5. callEvent' = callEvent \/ (~InCall(c)' /\ \E k \in EventKind : Report(c, {k}))
  <2> USE DEF LInv, IInv, TypeOK
  <2>1. "rejected" \notin Env /\ "transfer" \notin Env
    BY DEF OneReport
  <2>2. HangupKind \subseteq EventKind /\ "failed" \in EventKind
    BY DEF HangupKind, EventKind
  <2>3. CASE Fail(c)
    BY <2>1, <2>2, <2>3 DEF Fail, InCall
  <2>4. CASE HangUp(c)
    BY <2>2, <2>4 DEF HangUp, InCall
  <2>5. CASE Answer(c) \/ MarkCompleted(c)
    BY <2>5 DEF Answer, MarkCompleted
  <2>6. QED
    BY <2>1, <2>3, <2>4, <2>5 DEF CallStep, TransferEnds
<1>6. QED
  BY <1>3, <1>4, <1>5

LEMMA LiveStartEvent ==
  ASSUME LInv, OneReport, NEW w \in Worker, NEW e \in Event, StartEvent(w, e)
  PROVE  Phases' /\ OneLiveCallrequest'
<1>1. /\ e \in callEvent /\ callEvent' = callEvent \ {e} /\ UNCHANGED <<rows, queue, call>>
  BY DEF StartEvent, EventRead, EventNotFound, TakeEvent, OneReport
<1>2. \/ worker' = worker
      \/ worker' = [worker EXCEPT ![w] = EventTask(e)] /\ EventTask(e).cr = e.cr
  BY DEF StartEvent, EventRead, EventNotFound, EventTask
<1>3. ~InCall(e.cr) /\ Reported(e.cr) /\ \A f \in callEvent' : f.cr # e.cr
  BY <1>1 DEF LInv, Phases, Reported
<1>4. \A v \in Worker : worker[v].pc \in EventPc => worker[v].cr # e.cr
  BY <1>3 DEF LInv, Phases
<1>5. \A v \in Worker :
        \/ worker'[v] = worker[v]
        \/ v = w /\ worker'[v].cr = e.cr
  BY <1>2 DEF LInv, IInv, TypeOK
<1>6. Phases'
  BY <1>1, <1>3, <1>4, <1>5 DEF LInv, Phases, InCall, Reported
<1>7. \A d \in 1 .. lastId : Live(d)' => Live(d)
  BY <1>1, <1>3, <1>5 DEF Live, InQueue, InCall, Reported, Judged
<1>8. QED
  BY <1>1, <1>6, <1>7, LiveKept DEF LInv, rows

LEMMA LiveRetry ==
  ASSUME LInv, NEW w \in Worker,
         EventBasicRetry(w) \/ EventCompletionRetry(w) \/ EventNoRetry(w) \/ EventCountUnset(w)
           \/ EventDies(w)
  PROVE  Phases' /\ OneLiveCallrequest'
<1>1. /\ UNCHANGED <<call, callEvent>> /\ worker[w].pc = "event_retry"
      /\ worker' = [worker EXCEPT ![w] = Idle]
  BY DEF EventBasicRetry, EventCompletionRetry, EventNoRetry, EventCountUnset,
         EventDies
<1>2. PICK c \in 1 .. lastId : c = worker[w].cr /\ c \notin queue /\ owner[c] \in Subscriber
  BY <1>1, BusyTask DEF LInv, IsIdle
<1>3. \A v \in Worker : worker'[v].pc \in EventPc => v # w /\ worker'[v] = worker[v]
  BY <1>1, RowsTyped DEF LInv, IInv, TypeOK, EventPc
<1>4. Live(c) /\ ~InCall(c) /\ ~Reported(c)
  BY <1>1, <1>2 DEF LInv, Phases, Live, Judged, EventPc
<1>5. \A v \in Worker \ {w} : worker[v].pc \in EventPc => worker[v].cr # c
  BY <1>1, <1>2 DEF LInv, Phases, EventPc
<1>6. Phases'
  BY <1>1, <1>3 DEF LInv, Phases, InCall, Reported
<1>7. CASE UNCHANGED <<owner, lastId, queue>>
  <2>1. \A d \in 1 .. lastId : Live(d)' => Live(d)
    BY <1>1, <1>3, <1>7 DEF Live, InQueue, InCall, Reported, Judged
  <2>2. QED
    BY <1>6, <1>7, <2>1, LiveKept DEF LInv
<1>8. CASE \E why \in Origin : Enqueue(owner[c], why)
  <2>1. PICK why \in Origin : Enqueue(owner[c], why)
    BY <1>8
  <2>2. queue' \subseteq queue \cup {lastId + 1}
    BY <2>1 DEF Enqueue
  <2>3. \A d \in 1 .. lastId : Live(d)' => Live(d)
    BY <1>1, <1>3, <2>2 DEF LInv, IInv, TypeOK, Live, InQueue, InCall, Reported, Judged
  <2>4. ~Live(c)'
    BY <1>1, <1>2, <1>3, <1>4, <1>5, <2>2
    DEF LInv, IInv, TypeOK, Live, InQueue, InCall, Reported, Judged
  <2>5. \A d \in 1 .. lastId : Live(d)' => Live(d) /\ owner[d] # owner[c]
    BY <1>2, <1>4, <2>3, <2>4 DEF LInv, OneLiveCallrequest
  <2>6. QED
    BY <1>2, <1>6, <2>1, <2>5, LiveGrown DEF LInv, IInv
<1>9. QED
  BY <1>2, <1>7, <1>8 DEF EventBasicRetry, EventCompletionRetry, EventNoRetry, EventCountUnset,
         EventDies, Origin

LEMMA LiveLoss ==
  ASSUME LInv, (\E w \in Worker : Crash(w)) \/ (\E e \in Event : LoseEvent(e)) \/ UNCHANGED vars
  PROVE  Phases' /\ OneLiveCallrequest'
<1>1. UNCHANGED <<owner, lastId, queue, call>> /\ callEvent' \subseteq callEvent
  BY DEF Crash, LoseEvent, vars, rows
<1>2. \A v \in Worker : worker'[v].pc \in EventPc => worker'[v] = worker[v]
  BY RowsTyped DEF Crash, LoseEvent, vars, LInv, IInv, TypeOK, EventPc
<1>3. Phases'
  BY <1>1, <1>2 DEF LInv, Phases, InCall, Reported
<1>4. \A d \in 1 .. lastId : Live(d)' => Live(d)
  BY <1>1, <1>2 DEF Live, InQueue, InCall, Reported, Judged
<1>5. QED
  BY <1>1, <1>3, <1>4, LiveKept DEF LInv

LEMMA StepLInv ==
  ASSUME OneReport
  PROVE  LInv /\ [Next]_vars => LInv'
<1> SUFFICES ASSUME LInv, [Next]_vars PROVE Phases' /\ OneLiveCallrequest'
  BY StepIInv DEF LInv
<1>1. ASSUME NEW w \in Worker, TaskStep(w) PROVE Phases' /\ OneLiveCallrequest'
  BY <1>1, LiveSave, LiveRetry DEF TaskStep
<1>2. QED
  BY <1>1, LiveRetry, LivePendingCall, LiveStartDial, LiveStartEvent, LiveCall, LiveLoss DEF Next

\* Without duplicated, second-leg or double reports, a contact is never served
\* by two call requests at once, whatever crashes, lags, fails or is lost.
THEOREM OneAtATime == OneReport => (Spec => []OneLiveCallrequest)
<1> SUFFICES ASSUME OneReport PROVE Spec => []OneLiveCallrequest
  OBVIOUS
<1>1. LInv /\ [Next]_vars => LInv'
  BY StepLInv
<1>2. LInv => OneLiveCallrequest
  BY DEF LInv
<1>3. QED
  BY <1>1, <1>2, InitLInv, PTL DEF Spec

-----------------------------------------------------------------------------
(***************************************************************************)
(* The two counters of a subscriber.  init_callrequest and                 *)
(* process_callevent increment COPIES of the row and save them whole, so   *)
(* the counters mean something only when no two tasks work for the same    *)
(* contact at once and every copy still agrees with its row when saved.    *)
(* That needs, beside one report per call, tasks that are not killed and   *)
(* that save before the call they dialled ends.                            *)
(***************************************************************************)
KeptUp == OneReport /\ Env \cap {"crash", "slow_worker"} = {}

\* One task at most works for a contact, and only on the call request that is live.
Held(c) ==
  InQueue(c) \/ InCall(c) \/ Reported(c) \/ \E w \in Worker : ~IsIdle(w) /\ worker[w].cr = c
OneHeld == \A c, d \in 1 .. lastId : Held(c) /\ Held(d) /\ owner[c] = owner[d] => c = d
OneTask == \A v, w \in Worker : ~IsIdle(v) /\ ~IsIdle(w) /\ worker[v].cr = worker[w].cr => v = w

\* What the copy of a task says of the counters of the row it is going to overwrite.
Agrees(t, row) ==
  /\ t.pc = "init_save_subscriber" => t.subscriber.count_attempt = row.count_attempt + 1
  /\ t.pc \in EventPc => t.subscriber.count_attempt = row.count_attempt
  /\ t.pc \in EventPc \cup {"init_save_subscriber"} =>
       t.subscriber.completion_count_attempt = row.completion_count_attempt
Agree == \A w \in Worker : ~IsIdle(w) => Agrees(worker[w], subscriber[owner[worker[w].cr]])

AInv == LInv /\ OneHeld /\ OneTask /\ Agree

SameCounts(row, old) ==
  /\ row.count_attempt = old.count_attempt
  /\ row.completion_count_attempt = old.completion_count_attempt

LEMMA InitAInv == Init => AInv
<1> SUFFICES ASSUME Init PROVE OneHeld /\ OneTask /\ Agree
  BY InitLInv DEF AInv
<1>1. \A w \in Worker : IsIdle(w)
  BY RowsTyped DEF Init, IsIdle
<1>2. QED
  BY <1>1 DEF Init, OneHeld, OneTask, Agree

\* Two workers with something to do never work for the same contact.
LEMMA OneServant ==
  ASSUME AInv, NEW v \in Worker, NEW w \in Worker, ~IsIdle(v), ~IsIdle(w),
         owner[worker[v].cr] = owner[worker[w].cr]
  PROVE  v = w
<1>1. Held(worker[v].cr) /\ Held(worker[w].cr)
  BY DEF Held
<1>2. worker[v].cr \in 1 .. lastId /\ worker[w].cr \in 1 .. lastId
  BY BusyTask DEF AInv, LInv
<1>3. worker[v].cr = worker[w].cr
  BY <1>1, <1>2 DEF AInv, OneHeld
<1>4. QED
  BY <1>3 DEF AInv, OneTask

\* A call request someone works on is not queued, nor is any other of its contact.
LEMMA ServedNotQueued ==
  ASSUME AInv, NEW w \in Worker, ~IsIdle(w)
  PROVE  \A c \in queue : owner[c] # owner[worker[w].cr]
<1> SUFFICES ASSUME NEW c \in queue, owner[c] = owner[worker[w].cr] PROVE FALSE
  OBVIOUS
<1>1. c \in 1 .. lastId /\ worker[w].cr \in 1 .. lastId /\ worker[w].cr \notin queue
  BY BusyTask DEF AInv, LInv, IInv, Known
<1>2. Held(c) /\ Held(worker[w].cr)
  BY DEF Held, InQueue
<1>3. QED
  BY <1>1, <1>2 DEF AInv, OneHeld

LEMMA HeldKept ==
  ASSUME OneHeld, owner' = owner, lastId' = lastId,
         \A c \in 1 .. lastId : Held(c)' => Held(c)
  PROVE  OneHeld'
BY DEF OneHeld

LEMMA HeldGrown ==
  ASSUME TypeOK, OneHeld, NEW s \in Subscriber, NEW why \in Origin, Enqueue(s, why),
         \A c \in 1 .. lastId : Held(c)' => Held(c) /\ owner[c] # s
  PROVE  OneHeld'
<1>1. /\ 1 .. lastId' = (1 .. lastId) \cup {lastId + 1}
      /\ \A c \in 1 .. lastId : owner'[c] = owner[c]
      /\ owner'[lastId + 1] = s
  BY EnqueueTyped
<1>2. QED
  BY <1>1 DEF OneHeld

\* A step that changes what one worker does and counters of its contact only.
LEMMA AgreeKept ==
  ASSUME AInv, NEW w \in Worker,
         \A c \in 1 .. lastId : owner'[c] = owner[c],
         \A v \in Worker \ {w} : worker'[v] = worker[v],
         \A v \in Worker \ {w} : ~IsIdle(v) =>
           SameCounts(subscriber'[owner[worker[v].cr]], subscriber[owner[worker[v].cr]]),
         IsIdle(w)' \/ Agrees(worker'[w], subscriber'[owner'[worker'[w].cr]])
  PROVE  Agree'
<1> SUFFICES ASSUME NEW v \in Worker, ~IsIdle(v)', v # w
             PROVE  Agrees(worker'[v], subscriber'[owner'[worker'[v].cr]])
  BY DEF Agree, IsIdle, Agrees
<1>1. worker'[v] = worker[v] /\ ~IsIdle(v)
  BY DEF IsIdle
<1>2. worker[v].cr \in 1 .. lastId
  BY <1>1, BusyTask DEF AInv, LInv
<1>3. Agrees(worker[v], subscriber[owner[worker[v].cr]])
  BY <1>1 DEF AInv, Agree
<1>4. QED
  BY <1>1, <1>2, <1>3 DEF Agrees, SameCounts

LEMMA TaskKept ==
  ASSUME OneTask, NEW w \in Worker,
         \A v \in Worker \ {w} : worker'[v] = worker[v],
         \/ IsIdle(w)'
         \/ ~IsIdle(w) /\ worker'[w].cr = worker[w].cr
         \/ \A v \in Worker : ~IsIdle(v) => worker[v].cr # worker'[w].cr
  PROVE  OneTask'
BY DEF OneTask, IsIdle
-----------------------------------------------------------------------------
(***************************************************************************)
(* The counters as a ledger: every step is one of five entries.            *)
(***************************************************************************)
OtherRows(s) == \A r \in Subscriber \ {s} : subscriber'[r] = subscriber[r]

\* Nothing the counters are compared with changes.
Keeps ==
  /\ UNCHANGED <<lastId, owner, origin, queue>>
  /\ \A s \in Subscriber : SameCounts(subscriber'[s], subscriber[s]) /\ Unsaved(s)' = Unsaved(s)

\* A call request is dialled for s, by a worker that has to count it.
Dials(s, c, w) ==
  /\ UNCHANGED <<lastId, owner, origin, subscriber>>
  /\ c \in queue /\ owner[c] = s /\ queue' = queue \ {c}
  /\ Unsaved(s) = {} /\ Unsaved(s)' = {w}
  /\ \A r \in Subscriber \ {s} : Unsaved(r)' = Unsaved(r)

\* A message is spent without a call.
Drops(c) ==
  /\ "bad_number" \in Env
  /\ UNCHANGED <<lastId, owner, origin, subscriber>>
  /\ queue' = queue \ {c}
  /\ \A s \in Subscriber : Unsaved(s)' = Unsaved(s)

\* The worker that dialled for s counts it.
Saves(s, w) ==
  /\ UNCHANGED <<lastId, owner, origin, queue>>
  /\ Unsaved(s) = {w} /\ Unsaved(s)' = {}
  /\ \A r \in Subscriber \ {s} : Unsaved(r)' = Unsaved(r)
  /\ OtherRows(s)
  /\ subscriber'[s].count_attempt = subscriber[s].count_attempt + 1
  /\ subscriber'[s].completion_count_attempt = subscriber[s].completion_count_attempt

\* A call request is created for s.
Grants(s, why) ==
  /\ Enqueue(s, why)
  /\ \A r \in Subscriber : Unsaved(r)' = Unsaved(r)
  /\ OtherRows(s)
  /\ subscriber'[s].count_attempt = subscriber[s].count_attempt
  /\ subscriber'[s].completion_count_attempt
       = IF why = "completion" THEN subscriber[s].completion_count_attempt + 1
                               ELSE subscriber[s].completion_count_attempt
  /\ why # "first" => \E c \in (1 .. lastId) \ queue : owner[c] = s
  /\ why = "retry" => /\ subscriber[s].count_attempt - 1 < MaxRetry
                      /\ Unsaved(s) = {} /\ \A c \in queue : owner[c] # s

Entry ==
  \/ Keeps
  \/ \E s \in Subscriber, c \in CallrequestId, w \in Worker : Dials(s, c, w)
  \/ \E c \in CallrequestId : Drops(c)
  \/ \E s \in Subscriber, w \in Worker : Saves(s, w)
  \/ \E s \in Subscriber, why \in Origin : Grants(s, why)

Kept == OneHeld' /\ OneTask' /\ Agree' /\ Entry

LEMMA UnsavedKept ==
  ASSUME IInv, NEW w \in Worker,
         \A c \in 1 .. lastId : owner'[c] = owner[c],
         \A v \in Worker \ {w} : worker'[v] = worker[v],
         worker[w].pc # "init_save_subscriber", worker'[w].pc # "init_save_subscriber"
  PROVE  \A s \in Subscriber : Unsaved(s)' = Unsaved(s)
<1> TAKE s \in Subscriber
<1>1. ASSUME NEW v \in Worker PROVE v \in Unsaved(s)' <=> v \in Unsaved(s)
  <2>1. CASE v = w
    BY <2>1 DEF Unsaved
  <2>2. CASE v # w /\ worker[v].pc = "init_save_subscriber"
    <3>1. worker[v].cr \in 1 .. lastId
      BY <2>2, BusyTask DEF IsIdle
    <3>2. QED
      BY <2>2, <3>1 DEF Unsaved
  <2>3. CASE v # w /\ worker[v].pc # "init_save_subscriber"
    BY <2>3 DEF Unsaved
  <2>4. QED
    BY <2>1, <2>2, <2>3
<1>2. QED
  BY <1>1 DEF Unsaved

LEMMA TaskCounts ==
  ASSUME NEW c \in CallrequestId, NEW f \in BOOLEAN, NEW e \in Event,
         subscriber[owner[c]] \in SubscriberRow, subscriber[owner[e.cr]] \in SubscriberRow,
         callrequest[c] \in CallrequestRow
  PROVE  /\ Agrees(DialTask(c, f), subscriber[owner[c]])
         /\ SameCounts(EventTask(e).subscriber, subscriber[owner[e.cr]])
<1>1. Agrees(DialTask(c, f), subscriber[owner[c]])
  <2>1. DialedSubscriber(subscriber[owner[c]], f).count_attempt
          = subscriber[owner[c]].count_attempt + 1
    BY DEF DialedSubscriber, SubscriberRow
  <2>2. DialTask(c, f).pc = "init_save_subscriber"
        /\ DialTask(c, f).subscriber = DialedSubscriber(subscriber[owner[c]], f)
    BY DEF DialTask
  <2>3. QED
    BY <2>1, <2>2, DialedTyped DEF Agrees, EventPc
<1>2. SameCounts(EventTask(e).subscriber, subscriber[owner[e.cr]])
  BY DEF EventTask, SameCounts, SubscriberRow
<1>3. QED
  BY <1>1, <1>2

LEMMA KeptPendingCall ==
  ASSUME AInv, KeptUp, NEW s \in Subscriber, PendingCall(s)
  PROVE  Kept
<1> USE DEF AInv, LInv, IInv
<1>1. /\ UNCHANGED <<call, callEvent, worker>> /\ Enqueue(s, "first")
      /\ queue' \subseteq queue \cup {lastId + 1}
  BY DEF PendingCall, Enqueue
<1>2. \A c \in 1 .. lastId : owner[c] # s /\ owner'[c] = owner[c]
  BY <1>1, EnqueueTyped DEF Sound, Taken, PendingCall, Origin
<1>3. /\ subscriber[s] \in SubscriberRow
      /\ subscriber' = [subscriber EXCEPT ![s] = [subscriber[s] EXCEPT !.status = "IN_PROCESS"]]
  BY DEF PendingCall, TypeOK
<1>4. OtherRows(s) /\ SameCounts(subscriber'[s], subscriber[s])
  BY <1>3 DEF OtherRows, SameCounts, TypeOK, SubscriberRow
<1>5. OneTask'
  BY <1>1 DEF OneTask, IsIdle
<1>6. \A c \in 1 .. lastId : Held(c)' => Held(c)
  BY <1>1 DEF TypeOK, Held, InQueue, InCall, Reported, IsIdle
<1>7. OneHeld'
  BY <1>1, <1>2, <1>6, HeldGrown DEF Origin
<1>8. Agree'
  <2> SUFFICES ASSUME NEW v \in Worker, ~IsIdle(v)
               PROVE  Agrees(worker[v], subscriber'[owner'[worker[v].cr]])
    BY <1>1 DEF Agree, IsIdle
  <2>1. worker[v].cr \in 1 .. lastId /\ owner[worker[v].cr] \in Subscriber
    BY BusyTask
  <2>2. QED
    BY <1>2, <1>4, <2>1 DEF OtherRows, Agree
<1>9. Grants(s, "first")
  <2>1. \A r \in Subscriber : Unsaved(r)' = Unsaved(r)
    <3> TAKE r \in Subscriber
    <3>1. \A v \in Worker : v \in Unsaved(r)' <=> v \in Unsaved(r)
      BY <1>1, <1>2, BusyTask DEF Unsaved, IsIdle
    <3>2. QED
      BY <3>1 DEF Unsaved
  <2>2. QED
    BY <1>1, <1>4, <2>1 DEF Grants, SameCounts
<1>10. QED
  BY <1>5, <1>7, <1>8, <1>9 DEF Kept, Entry, Origin

LEMMA KeptStartDial ==
  ASSUME AInv, KeptUp, NEW w \in Worker, NEW c \in CallrequestId, StartDial(w, c)
  PROVE  Kept
<1> USE DEF AInv, LInv, IInv
<1>1. /\ c \in queue /\ IsIdle(w) /\ queue' = queue \ {c}
      /\ UNCHANGED <<subscriber, callrequest, owner, origin, lastId, callEvent>>
      /\ \A d \in CallrequestId \ {c} : call'[d] = call[d]
      /\ \A v \in Worker \ {w} : worker'[v] = worker[v]
  BY DEF StartDial, InitDial, InitDialError, InitBadNumber, rows, TypeOK
<1>2. /\ c \in 1 .. lastId /\ owner[c] \in Subscriber
      /\ subscriber[owner[c]] \in SubscriberRow /\ callrequest[c] \in CallrequestRow
      /\ \A v \in Worker : ~IsIdle(v) => worker[v].cr # c
  BY <1>1 DEF Known, Fresh, TypeOK
<1>6. PICK s \in Subscriber : s = owner[c]
  BY <1>2
<1>3. CASE worker'[w] = worker[w] /\ InitBadNumber(w, c)
  <2>1. worker' = worker
    BY <1>3 DEF InitBadNumber
  <2>2. Agree' /\ OneTask' /\ \A t \in Subscriber : Unsaved(t)' = Unsaved(t)
    BY <1>1, <2>1 DEF Agree, OneTask, Unsaved, IsIdle
  <2>3. \A d \in 1 .. lastId : Held(d)' => Held(d)
    BY <1>1, <1>3, <2>1 DEF Held, InQueue, InCall, Reported, IsIdle, InitBadNumber
  <2>4. Drops(c)
    BY <1>1, <1>3, <2>2 DEF Drops, InitBadNumber
  <2>5. QED
    BY <1>1, <2>2, <2>3, <2>4, HeldKept DEF Kept, Entry
<1>4. CASE \E f \in BOOLEAN : worker'[w] = DialTask(c, f)
  <2>1. PICK f \in BOOLEAN : worker'[w] = DialTask(c, f)
    BY <1>4
  <2>2. /\ worker'[w].pc = "init_save_subscriber" /\ worker'[w].cr = c
        /\ Agrees(worker'[w], subscriber[owner[c]])
    <3>1. Agrees(DialTask(c, f), subscriber[owner[c]])
      <4>1. [cr |-> c, kind |-> "answered"] \in Event
        BY DEF Event, EventKind
      <4>2. QED
        BY <1>2, <4>1, TaskCounts
    <3>2. QED
      BY <2>1, <3>1 DEF DialTask
  <2>3. Agree'
    BY <1>1, <2>2, AgreeKept DEF SameCounts
  <2>4. OneTask'
    BY <1>1, <1>2, <2>2, TaskKept
  <2>5. \A d \in 1 .. lastId : Held(d)' => Held(d)
    <3>1. Held(c)
      BY <1>1 DEF Held, InQueue
    <3>2. ASSUME NEW d \in 1 .. lastId, d # c, Held(d)' PROVE Held(d)
      <4>1. d \in CallrequestId
        BY BoundAssumption DEF TypeOK, CallrequestId
      <4>2. QED
        BY <1>1, <2>2, <3>2, <4>1 DEF Held, InQueue, InCall, Reported, IsIdle
    <3>3. QED
      BY <3>1, <3>2
  <2>6. OneHeld'
    BY <1>1, <2>5, HeldKept
  <2>7. Unsaved(s) = {}
    BY <1>1, <1>6, ServedNotQueued DEF Unsaved, IsIdle
  <2>8. Unsaved(s)' = {w}
    BY <1>1, <1>6, <2>2, <2>7 DEF Unsaved
  <2>9. \A r \in Subscriber \ {s} : Unsaved(r)' = Unsaved(r)
    <3> TAKE r \in Subscriber \ {s}
    <3>1. \A v \in Worker : v \in Unsaved(r)' <=> v \in Unsaved(r)
      BY <1>1, <1>6, <2>2 DEF Unsaved, IsIdle
    <3>2. QED
      BY <3>1 DEF Unsaved
  <2>10. Dials(s, c, w)
    BY <1>1, <1>6, <2>7, <2>8, <2>9 DEF Dials
  <2>11. QED
    BY <1>2, <2>3, <2>4, <2>6, <2>10 DEF Kept, Entry
<1>5. QED
  BY <1>3, <1>4 DEF StartDial, InitDial, InitDialError, InitBadNumber, TypeOK

LEMMA KeptInitSaveSubscriber ==
  ASSUME AInv, KeptUp, NEW w \in Worker, InitSaveSubscriber(w)
  PROVE  Kept
<1> DEFINE t == worker[w]
<1> USE DEF AInv, LInv, IInv
<1>1. ~IsIdle(w) /\ t.pc = "init_save_subscriber"
  BY DEF InitSaveSubscriber, IsIdle
<1>2. PICK s \in Subscriber : s = owner[t.cr]
  BY <1>1, BusyTask
<1>3. t \in Task /\ t.cr \in 1 .. lastId /\ t.subscriber \in SubscriberRow
  BY <1>1, BusyTask
<1>4. /\ UNCHANGED <<owner, origin, lastId, queue, call, callEvent>>
      /\ \A v \in Worker \ {w} : worker'[v] = worker[v]
      /\ worker'[w].pc = "init_save_callrequest" /\ worker'[w].cr = t.cr
  BY <1>2, <1>3, PcTyped DEF InitSaveSubscriber, TypeOK, InitPc, Task
<1>5. subscriber'[s] = t.subscriber /\ OtherRows(s)
  BY <1>2, <1>3 DEF InitSaveSubscriber, TypeOK, OtherRows
<1>6. OneTask'
  BY <1>1, <1>3, <1>4, TaskKept
<1>7. \A d \in 1 .. lastId : Held(d)' => Held(d)
  BY <1>1, <1>3, <1>4 DEF Held, InQueue, InCall, Reported, IsIdle
<1>8. OneHeld'
  BY <1>4, <1>7, HeldKept
<1>9. \A v \in Worker \ {w} : ~IsIdle(v) =>
        owner[worker[v].cr] \in Subscriber /\ owner[worker[v].cr] # s
  BY <1>1, <1>2, OneServant, BusyTask
<1>10. Agree'
  <2>1. Agrees(worker'[w], subscriber'[owner'[worker'[w].cr]])
    BY <1>4 DEF Agrees, EventPc
  <2>2. \A v \in Worker \ {w} : ~IsIdle(v) =>
           SameCounts(subscriber'[owner[worker[v].cr]], subscriber[owner[worker[v].cr]])
    BY <1>5, <1>9 DEF OtherRows, SameCounts
  <2>3. QED
    BY <1>4, <2>1, <2>2, AgreeKept
<1>11. Saves(s, w)
  <2>1. Agrees(t, subscriber[s])
    BY <1>1, <1>2 DEF Agree
  <2>2. Unsaved(s) = {w} /\ Unsaved(s)' = {}
    BY <1>1, <1>2, <1>4, <1>9 DEF Unsaved, IsIdle
  <2>3. \A r \in Subscriber \ {s} : Unsaved(r)' = Unsaved(r)
    <3> TAKE r \in Subscriber \ {s}
    <3>1. \A v \in Worker : v \in Unsaved(r)' <=> v \in Unsaved(r)
      BY <1>1, <1>4, <1>2 DEF Unsaved
    <3>2. QED
      BY <3>1 DEF Unsaved
  <2>4. QED
    BY <1>1, <1>3, <1>4, <1>5, <2>1, <2>2, <2>3 DEF Saves, Agrees
<1>12. QED
  BY <1>2, <1>6, <1>8, <1>10, <1>11 DEF Kept, Entry

\* The other saves write a copy that agrees with the row, or another table.
LEMMA KeptSave ==
  ASSUME AInv, KeptUp, NEW w \in Worker,
         InitSaveCallrequest(w) \/ EventSaveCallrequest(w) \/ EventSaveSubscriber(w)
  PROVE  Kept
<1> DEFINE t == worker[w]
           s == owner[t.cr]
<1> USE DEF AInv, LInv, IInv
<1>1. ~IsIdle(w) /\ t.pc \in EventPc \cup {"init_save_callrequest"}
  BY DEF InitSaveCallrequest, EventSaveCallrequest, EventSaveSubscriber, IsIdle, EventPc
<1>2. t \in Task /\ t.cr \in 1 .. lastId /\ s \in Subscriber /\ t.subscriber \in SubscriberRow
  BY <1>1, BusyTask
<1>3. /\ UNCHANGED <<owner, origin, lastId, queue, call, callEvent>>
      /\ \A v \in Worker \ {w} : worker'[v] = worker[v]
  BY DEF InitSaveCallrequest, EventSaveCallrequest, EventSaveSubscriber, TypeOK
<1>4. \/ worker'[w].pc = "idle" /\ subscriber' = subscriber
      \/ /\ t.pc \in EventPc /\ worker'[w].pc \in EventPc
         /\ worker'[w].cr = t.cr /\ worker'[w].subscriber = t.subscriber
         /\ \/ subscriber' = subscriber
            \/ subscriber' = [subscriber EXCEPT ![s] = t.subscriber]
  <2>1. CASE InitSaveCallrequest(w)
    BY <2>1, RowsTyped DEF InitSaveCallrequest, TypeOK
  <2>2. CASE EventSaveCallrequest(w)
    BY <1>2, <2>2, PcTyped DEF EventSaveCallrequest, TypeOK, EventPc
  <2>3. CASE EventSaveSubscriber(w)
    BY <1>2, <2>3, PcTyped DEF EventSaveSubscriber, TypeOK, EventPc
  <2>4. QED
    BY <2>1, <2>2, <2>3
<1>5. \A r \in Subscriber : SameCounts(subscriber'[r], subscriber[r])
  <2>1. t.pc \in EventPc => SameCounts(t.subscriber, subscriber[s])
    BY <1>1 DEF Agree, Agrees, SameCounts
  <2>2. QED
    BY <1>2, <1>4, <2>1 DEF SameCounts, TypeOK
<1>6. OneTask'
  BY <1>1, <1>3, <1>4, TaskKept DEF IsIdle
<1>7. \A d \in 1 .. lastId : Held(d)' => Held(d)
  BY <1>1, <1>3, <1>4 DEF Held, InQueue, InCall, Reported, IsIdle
<1>8. OneHeld'
  BY <1>3, <1>7, HeldKept
<1>9. Agree'
  <2>1. IsIdle(w)' \/ Agrees(worker'[w], subscriber'[owner'[worker'[w].cr]])
    <3>1. Agrees(t, subscriber[s])
      BY <1>1 DEF Agree
    <3>2. SameCounts(subscriber'[s], subscriber[s])
      BY <1>2, <1>5
    <3>3. QED
      BY <1>3, <1>4, <3>1, <3>2 DEF IsIdle, Agrees, SameCounts, EventPc
  <2>2. \A v \in Worker \ {w} : ~IsIdle(v) => owner[worker[v].cr] \in Subscriber
    BY BusyTask
  <2>3. QED
    BY <1>3, <1>5, <2>1, <2>2, AgreeKept
<1>10. \A r \in Subscriber : Unsaved(r)' = Unsaved(r)
  <2>1. t.pc # "init_save_subscriber" /\ worker'[w].pc # "init_save_subscriber"
    BY <1>1, <1>4 DEF EventPc
  <2>2. QED
    BY <1>3, <2>1, UnsavedKept
<1>11. QED
  BY <1>3, <1>5, <1>6, <1>8, <1>9, <1>10 DEF Kept, Entry, Keeps

LEMMA KeptStartEvent ==
  ASSUME AInv, KeptUp, NEW w \in Worker, NEW e \in Event, StartEvent(w, e)
  PROVE  Kept
<1> USE DEF AInv, LInv, IInv
<1>1. /\ IsIdle(w) /\ e \in callEvent /\ callEvent' \subseteq callEvent
      /\ UNCHANGED <<subscriber, callrequest, owner, origin, lastId, queue, call>>
      /\ \A v \in Worker \ {w} : worker'[v] = worker[v]
      /\ Saved(e.cr)
  BY DEF StartEvent, EventRead, EventNotFound, TakeEvent, rows, TypeOK
<1>2. /\ e.cr \in 1 .. lastId /\ e.cr \in CallrequestId /\ owner[e.cr] \in Subscriber
      /\ subscriber[owner[e.cr]] \in SubscriberRow /\ callrequest[e.cr] \in CallrequestRow
  BY <1>1 DEF Known, TypeOK, Event
<1>3. \A v \in Worker : ~IsIdle(v) => worker[v].cr # e.cr
  <2>1. \A v \in Worker : worker[v].pc \in InitPc => worker[v].cr # e.cr
    BY <1>1 DEF Saved, KeptUp
  <2>2. \A v \in Worker : worker[v].pc \in EventPc => worker[v].cr # e.cr
    BY <1>1 DEF Phases, Reported
  <2>3. \A v \in Worker : ~IsIdle(v) => worker[v].pc \in InitPc \cup EventPc
    BY DEF TypeOK, Task, IsIdle
  <2>4. QED
    BY <2>1, <2>2, <2>3
<1>4. \/ worker'[w] = worker[w]
      \/ /\ worker'[w].pc \in EventPc /\ worker'[w].cr = e.cr
         /\ SameCounts(worker'[w].subscriber, subscriber[owner[e.cr]])
  <2>1. CASE EventRead(w, e)
    <3>1. worker'[w] = EventTask(e)
      BY <2>1 DEF EventRead, TypeOK
    <3>2. SameCounts(EventTask(e).subscriber, subscriber[owner[e.cr]])
      BY <1>2, TaskCounts
    <3>3. QED
      BY <1>2, <3>1, <3>2, EventTaskTyped
  <2>2. CASE EventNotFound(w, e)
    BY <2>2 DEF EventNotFound
  <2>3. QED
    BY <2>1, <2>2 DEF StartEvent
<1>5. OneTask'
  BY <1>1, <1>3, <1>4, TaskKept DEF IsIdle
<1>6. \A d \in 1 .. lastId : Held(d)' => Held(d)
  <2>1. Reported(e.cr)
    BY <1>1 DEF Reported
  <2>2. QED
    BY <1>1, <1>4, <2>1 DEF Held, InQueue, InCall, Reported, IsIdle
<1>7. OneHeld'
  BY <1>1, <1>6, HeldKept
<1>8. Agree'
  <2>1. IsIdle(w)' \/ Agrees(worker'[w], subscriber'[owner'[worker'[w].cr]])
    BY <1>1, <1>4 DEF Agrees, SameCounts, EventPc, IsIdle
  <2>2. QED
    BY <1>1, <2>1, AgreeKept DEF SameCounts
<1>9. \A r \in Subscriber : Unsaved(r)' = Unsaved(r)
  <2>1. worker[w].pc # "init_save_subscriber" /\ worker'[w].pc # "init_save_subscriber"
    BY <1>1, <1>4 DEF EventPc, IsIdle
  <2>2. QED
    BY <1>1, <2>1, UnsavedKept
<1>10. QED
  BY <1>1, <1>5, <1>7, <1>8, <1>9 DEF Kept, Entry, Keeps, SameCounts

LEMMA KeptCall ==
  ASSUME AInv, KeptUp, NEW c \in CallrequestId, CallStep(c)
  PROVE  Kept
<1> USE DEF AInv, LInv, IInv
<1>1. /\ InCall(c) /\ UNCHANGED <<owner, origin, lastId, queue, worker>>
      /\ \A d \in CallrequestId \ {c} : call'[d] = call[d]
      /\ c \in 1 .. lastId /\ owner[c] \in Subscriber
  BY DEF CallStep, Answer, Fail, HangUp, TransferEnds, MarkCompleted, InCall, rows, TypeOK, Known
<1>2. \A e \in callEvent' : e \in callEvent \/ e.cr = c
  BY DEF CallStep, Answer, Fail, HangUp, TransferEnds, MarkCompleted, Report
<1>3. \A r \in Subscriber : SameCounts(subscriber'[r], subscriber[r])
  <2>1. CASE MarkCompleted(c)
    <3>1. subscriber' = [subscriber EXCEPT ![owner[c]] =
                           [subscriber[owner[c]] EXCEPT !.status = "COMPLETED"]]
      BY <2>1 DEF MarkCompleted
    <3>2. QED
      BY <1>1, <3>1 DEF TypeOK, SubscriberRow, SameCounts
  <2>2. CASE ~MarkCompleted(c)
    BY <2>2 DEF CallStep, Answer, Fail, HangUp, TransferEnds, rows, SameCounts
  <2>3. QED
    BY <2>1, <2>2
<1>4. OneTask'
  BY <1>1 DEF OneTask, IsIdle
<1>5. \A d \in 1 .. lastId : Held(d)' => Held(d)
  <2>1. Held(c)
    BY <1>1 DEF Held
  <2>2. ASSUME NEW d \in 1 .. lastId, d # c, Held(d)' PROVE Held(d)
    <3>1. d \in CallrequestId
      BY BoundAssumption DEF TypeOK, CallrequestId
    <3>2. QED
      BY <1>1, <1>2, <2>2, <3>1 DEF Held, InQueue, InCall, Reported, IsIdle
  <2>3. QED
    BY <2>1, <2>2
<1>6. OneHeld'
  BY <1>1, <1>5, HeldKept
<1>7. Agree'
  <2> SUFFICES ASSUME NEW v \in Worker, ~IsIdle(v)
               PROVE  Agrees(worker[v], subscriber'[owner[worker[v].cr]])
    BY <1>1 DEF Agree, IsIdle
  <2>1. owner[worker[v].cr] \in Subscriber
    BY BusyTask
  <2>2. Agrees(worker[v], subscriber[owner[worker[v].cr]])
    BY DEF Agree
  <2>3. QED
    BY <1>3, <2>1, <2>2 DEF Agrees, SameCounts
<1>8. \A r \in Subscriber : Unsaved(r)' = Unsaved(r)
  BY <1>1 DEF Unsaved
<1>9. QED
  BY <1>1, <1>3, <1>4, <1>6, <1>7, <1>8 DEF Kept, Entry, Keeps

LEMMA KeptLoss ==
  ASSUME AInv, KeptUp,
         \/ \E w \in Worker : Crash(w) \/ EventDies(w)
         \/ \E e \in Event : LoseEvent(e)
         \/ UNCHANGED vars
  PROVE  Kept
<1>1. /\ UNCHANGED <<subscriber, owner, origin, lastId, queue, call, worker>>
      /\ callEvent' \subseteq callEvent
  BY DEF Crash, EventDies, LoseEvent, KeptUp, vars, rows
<1>2. OneTask' /\ Agree' /\ \A s \in Subscriber : Unsaved(s)' = Unsaved(s)
  BY <1>1 DEF AInv, OneTask, Agree, IsIdle, Unsaved
<1>3. \A d \in 1 .. lastId : Held(d)' => Held(d)
  BY <1>1 DEF Held, InQueue, InCall, Reported, IsIdle
<1>4. OneHeld'
  BY <1>1, <1>3, HeldKept DEF AInv
<1>5. QED
  BY <1>1, <1>2, <1>4 DEF Kept, Entry, Keeps, SameCounts

\* The end of process_callevent: the task decides on a copy that is still right.
LEMMA KeptRetry ==
  ASSUME AInv, KeptUp, NEW w \in Worker,
         EventBasicRetry(w) \/ EventCompletionRetry(w) \/ EventNoRetry(w) \/ EventCountUnset(w)
  PROVE  Kept
<1> DEFINE t == worker[w]
<1> USE DEF AInv, LInv, IInv
<1>1. /\ ~IsIdle(w) /\ t.pc = "event_retry" /\ UNCHANGED <<call, callEvent>>
      /\ IsIdle(w)' /\ worker'[w].pc = "idle"
      /\ \A v \in Worker \ {w} : worker'[v] = worker[v]
  BY RowsTyped DEF EventBasicRetry, EventCompletionRetry, EventNoRetry, EventCountUnset,
     IsIdle, TypeOK
<1>2. PICK c \in 1 .. lastId, s \in Subscriber : c = t.cr /\ s = owner[c]
  BY <1>1, BusyTask
<1>3. t \in Task /\ c \notin queue /\ t.subscriber \in SubscriberRow
  BY <1>1, <1>2, BusyTask
<1>4. SameCounts(t.subscriber, subscriber[s])
  BY <1>1, <1>2 DEF Agree, Agrees, SameCounts, EventPc
<1>5. OneTask'
  BY <1>1, <1>2, TaskKept
<1>6. \A v \in Worker \ {w} : ~IsIdle(v) =>
        owner[worker[v].cr] \in Subscriber /\ owner[worker[v].cr] # s
  BY <1>1, <1>2, OneServant, BusyTask
<1>7. CASE EventNoRetry(w) \/ EventCountUnset(w)
  <2>1. UNCHANGED <<subscriber, owner, origin, lastId, queue>>
    BY <1>7 DEF EventNoRetry, EventCountUnset
  <2>2. \A d \in 1 .. lastId : Held(d)' => Held(d)
    BY <1>1, <1>2, <2>1 DEF Held, InQueue, InCall, Reported, IsIdle
  <2>3. OneHeld'
    BY <2>1, <2>2, HeldKept
  <2>4. Agree'
    BY <1>1, <1>2, <2>1, AgreeKept DEF SameCounts
  <2>5. \A r \in Subscriber : Unsaved(r)' = Unsaved(r)
    BY <1>1, <1>2, <2>1, UnsavedKept
  <2>6. QED
    BY <1>5, <2>1, <2>3, <2>4, <2>5 DEF Kept, Entry, Keeps, SameCounts
<1>8. ASSUME NEW why \in {"retry", "completion"}, Enqueue(s, why),
             OtherRows(s),
             subscriber'[s].count_attempt = subscriber[s].count_attempt,
             subscriber'[s].completion_count_attempt
               = IF why = "completion" THEN subscriber[s].completion_count_attempt + 1
                                       ELSE subscriber[s].completion_count_attempt,
             why = "retry" => subscriber[s].count_attempt - 1 < MaxRetry
      PROVE  Kept
  <2>1. why \in Origin
    BY DEF Origin
  <2>2. /\ \A d \in 1 .. lastId : owner'[d] = owner[d]
        /\ queue' \subseteq queue \cup {lastId + 1}
    BY <1>2, <1>3, <1>8, <2>1, EnqueueTyped DEF Enqueue
  <2>3. \A d \in 1 .. lastId : Held(d)' => Held(d)
    BY <1>1, <1>2, <2>2 DEF Held, InQueue, InCall, Reported, IsIdle, TypeOK
  <2>4. ~Held(c)'
    <3>1. ~InCall(c) /\ ~Reported(c)
      BY <1>1, <1>2 DEF Phases, EventPc
    <3>2. \A v \in Worker : v # w /\ ~IsIdle(v) => worker[v].cr # c
      BY <1>1, <1>2 DEF OneTask
    <3>3. c \notin queue'
      BY <1>2, <1>3, <2>2 DEF TypeOK
    <3>4. QED
      BY <1>1, <1>2, <3>1, <3>2, <3>3 DEF Held, InQueue, InCall, Reported, IsIdle
  <2>5. Held(c)
    BY <1>1, <1>2 DEF Held
  <2>6. \A d \in 1 .. lastId : Held(d)' => Held(d) /\ owner[d] # s
    BY <1>2, <1>3, <2>3, <2>4, <2>5 DEF OneHeld
  <2>7. OneHeld'
    BY <1>2, <1>3, <1>8, <2>1, <2>6, HeldGrown
  <2>8. Agree'
    <3>1. \A v \in Worker \ {w} : ~IsIdle(v) =>
             SameCounts(subscriber'[owner[worker[v].cr]], subscriber[owner[worker[v].cr]])
      BY <1>6, <1>8 DEF OtherRows, SameCounts
    <3>2. QED
      BY <1>1, <1>2, <2>2, <3>1, AgreeKept
  <2>9. \A r \in Subscriber : Unsaved(r)' = Unsaved(r)
    BY <1>1, <1>2, <2>2, UnsavedKept
  <2>10. Unsaved(s) = {}
    BY <1>1, <1>2, <1>6 DEF Unsaved, IsIdle
  <2>11. \A d \in queue : owner[d] # s
    BY <1>1, <1>2, ServedNotQueued
  <2>12. Grants(s, why)
    BY <1>2, <1>3, <1>8, <2>9, <2>10, <2>11 DEF Grants
  <2>13. QED
    BY <1>2, <1>3, <1>5, <2>1, <2>7, <2>8, <2>12 DEF Kept, Entry
<1>9. CASE EventBasicRetry(w)
  <2>1. t.subscriber.count_attempt - 1 < MaxRetry /\ UNCHANGED subscriber
        /\ Enqueue(s, "retry")
    BY <1>9, <1>2 DEF EventBasicRetry, RetryAllowed
  <2>2. QED
    BY <1>4, <1>8, <2>1 DEF OtherRows, SameCounts
<1>10. CASE EventCompletionRetry(w)
  <2> DEFINE row == [t.subscriber EXCEPT !.completion_count_attempt = @ + 1]
  <2>1. subscriber' = [subscriber EXCEPT ![s] = row] /\ Enqueue(s, "completion")
    BY <1>10, <1>2 DEF EventCompletionRetry, CountCompletion
  <2>2. row.count_attempt = t.subscriber.count_attempt
        /\ row.completion_count_attempt = t.subscriber.completion_count_attempt + 1
    BY <1>2, <1>3 DEF SubscriberRow
  <2> HIDE DEF row
  <2>3. subscriber'[s] = row /\ OtherRows(s)
    BY <1>2, <1>3, <2>1 DEF TypeOK, OtherRows
  <2>4. QED
    BY <1>4, <1>8, <2>1, <2>2, <2>3 DEF SameCounts
<1>11. QED
  BY <1>7, <1>9, <1>10

LEMMA LedgerStep ==
  ASSUME AInv, KeptUp, [Next]_vars
  PROVE  AInv' /\ Entry
<1>1. ASSUME NEW w \in Worker, TaskStep(w) PROVE Kept
  BY <1>1, KeptInitSaveSubscriber, KeptSave, KeptRetry DEF TaskStep
<1>2. Kept
  BY <1>1, KeptPendingCall, KeptStartDial, KeptStartEvent, KeptCall, KeptLoss DEF Next
<1>3. LInv'
  BY StepLInv DEF AInv, KeptUp
<1>4. QED
  BY <1>2, <1>3 DEF AInv, Kept

-----------------------------------------------------------------------------
(***************************************************************************)
(* The accounts.                                                           *)
(***************************************************************************)
\* A contact served at all was spooled: its first call request is not a retry.
FirstMade ==
  \A c \in 1 .. lastId : \E d \in 1 .. lastId : owner[d] = owner[c] /\ origin[d] = "first"

Dialled(s) == {c \in (1 .. lastId) \ queue : owner[c] = s}

LEMMA CountsFinite ==
  ASSUME TypeOK, NEW s, NEW why
  PROVE  /\ IsFiniteSet(CallrequestsOf(s, why)) /\ IsFiniteSet(Dialled(s))
         /\ Cardinality(CallrequestsOf(s, why)) \in Nat /\ Cardinality(Dialled(s)) \in Nat
<1>1. IsFiniteSet(1 .. lastId)
  BY FS_Interval DEF TypeOK
<1>2. CallrequestsOf(s, why) \in SUBSET (1 .. lastId) /\ Dialled(s) \in SUBSET (1 .. lastId)
  BY DEF CallrequestsOf, Dialled
<1>3. QED
  BY <1>1, <1>2, FS_Subset, FS_CardinalityType

\* One more row of s created for a reason, and nothing else of the kind.
LEMMA EnqueueCounts ==
  ASSUME IInv, NEW s \in Subscriber, NEW why \in Origin, Enqueue(s, why),
         NEW r \in Subscriber, NEW o \in Origin
  PROVE  Cardinality(CallrequestsOf(r, o)')
           = IF r = s /\ o = why THEN Cardinality(CallrequestsOf(r, o)) + 1
                                 ELSE Cardinality(CallrequestsOf(r, o))
<1>1. /\ 1 .. lastId' = (1 .. lastId) \cup {lastId + 1}
      /\ \A c \in 1 .. lastId : owner'[c] = owner[c] /\ origin'[c] = origin[c]
      /\ owner'[lastId + 1] = s /\ origin'[lastId + 1] = why
      /\ lastId + 1 \notin 1 .. lastId
  BY EnqueueTyped DEF IInv, TypeOK
<1>2. CASE r = s /\ o = why
  <2>1. CallrequestsOf(r, o)' = CallrequestsOf(r, o) \cup {lastId + 1}
    BY <1>1, <1>2 DEF CallrequestsOf
  <2>2. lastId + 1 \notin CallrequestsOf(r, o)
    BY <1>1 DEF CallrequestsOf
  <2>3. QED
    BY <1>2, <2>1, <2>2, CountsFinite, FS_AddElement DEF IInv
<1>3. CASE ~(r = s /\ o = why)
  <2>1. CallrequestsOf(r, o)' = CallrequestsOf(r, o)
    BY <1>1, <1>3 DEF CallrequestsOf
  <2>2. QED
    BY <1>3, <2>1
<1>4. QED
  BY <1>2, <1>3

LEMMA FirstKept ==
  ASSUME IInv, FirstMade, Entry
  PROVE  FirstMade'
<1>1. CASE UNCHANGED <<lastId, owner, origin>>
  BY <1>1 DEF FirstMade
<1>2. ASSUME NEW s \in Subscriber, NEW why \in Origin, Grants(s, why) PROVE FirstMade'
  <2>1. /\ 1 .. lastId' = (1 .. lastId) \cup {lastId + 1}
        /\ \A c \in 1 .. lastId : owner'[c] = owner[c] /\ origin'[c] = origin[c]
        /\ owner'[lastId + 1] = s /\ origin'[lastId + 1] = why
    BY <1>2, EnqueueTyped DEF IInv, Grants
  <2>2. why = "first" \/ \E c \in 1 .. lastId : owner[c] = s
    BY <1>2 DEF Grants
  <2>3. QED
    BY <2>1, <2>2 DEF FirstMade
<1>3. QED
  BY <1>1, <1>2 DEF Entry, Keeps, Dials, Drops, Saves

LEMMA CompletionsKept ==
  ASSUME IInv, CompletionBounded', CompletionRetriesCounted, Entry
  PROVE  CompletionRetriesCounted'
<1> SUFFICES ASSUME NEW r \in Subscriber
             PROVE  Cardinality(CallrequestsOf(r, "completion")')
                      = subscriber'[r].completion_count_attempt
  BY DEF CompletionRetriesCounted, CompletionBounded
<1>1. Cardinality(CallrequestsOf(r, "completion")) = subscriber[r].completion_count_attempt
  BY DEF CompletionRetriesCounted
<1>2. CASE /\ UNCHANGED <<lastId, owner, origin>>
           /\ subscriber'[r].completion_count_attempt = subscriber[r].completion_count_attempt
  BY <1>1, <1>2 DEF CallrequestsOf
<1>3. ASSUME NEW s \in Subscriber, NEW why \in Origin, Grants(s, why)
      PROVE  Cardinality(CallrequestsOf(r, "completion")')
               = subscriber'[r].completion_count_attempt
  <2>1. Cardinality(CallrequestsOf(r, "completion")')
          = IF r = s /\ "completion" = why THEN Cardinality(CallrequestsOf(r, "completion")) + 1
                                           ELSE Cardinality(CallrequestsOf(r, "completion"))
    BY <1>3, EnqueueCounts DEF Grants, Origin
  <2>2. CASE r = s
    BY <1>1, <1>3, <2>1, <2>2 DEF Grants
  <2>3. CASE r # s
    BY <1>1, <1>3, <2>1, <2>3 DEF Grants, OtherRows
  <2>4. QED
    BY <2>2, <2>3
<1>4. CASE Keeps \/ (\E c \in CallrequestId : Drops(c))
           \/ (\E s \in Subscriber, c \in CallrequestId, w \in Worker : Dials(s, c, w))
  BY <1>2, <1>4 DEF Keeps, Dials, Drops, SameCounts
<1>5. ASSUME NEW s \in Subscriber, NEW w \in Worker, Saves(s, w)
      PROVE  Cardinality(CallrequestsOf(r, "completion")')
               = subscriber'[r].completion_count_attempt
  BY <1>2, <1>5 DEF Saves, OtherRows
<1>6. QED
  BY <1>3, <1>4, <1>5 DEF Entry

\* Once nothing of a contact is queued, all its call requests but those it was spooled
\* for are retries or completion retries, and each was dialled.
LEMMA RetriesDialled ==
  ASSUME IInv, FirstMade, NEW s \in Subscriber, \E c \in 1 .. lastId : owner[c] = s,
         \A c \in queue : owner[c] # s
  PROVE  Cardinality(CallrequestsOf(s, "retry")) < Cardinality(Dialled(s))
<1>1. PICK d \in 1 .. lastId : owner[d] = s /\ origin[d] = "first"
  BY DEF FirstMade
<1>2. d \in Dialled(s)
  BY <1>1 DEF Dialled
<1>3. CallrequestsOf(s, "retry") \in SUBSET (Dialled(s) \ {d})
  BY <1>1 DEF CallrequestsOf, Dialled
<1>4. IsFiniteSet(Dialled(s)) /\ Cardinality(Dialled(s)) \in Nat
      /\ Cardinality(CallrequestsOf(s, "retry")) \in Nat
  BY CountsFinite DEF IInv
<1>5. IsFiniteSet(Dialled(s) \ {d})
      /\ Cardinality(Dialled(s) \ {d}) = Cardinality(Dialled(s)) - 1
  BY <1>2, <1>4, FS_RemoveElement
<1>6. Cardinality(CallrequestsOf(s, "retry")) <= Cardinality(Dialled(s) \ {d})
  BY <1>3, <1>5, FS_Subset
<1>7. QED
  BY <1>4, <1>5, <1>6

LEMMA AttemptsKept ==
  ASSUME IInv, FirstMade, AttemptsCounted, Entry, "bad_number" \notin Env, "crash" \notin Env
  PROVE  AttemptsCounted'
<1> DEFINE Account(s) ==
      /\ subscriber[s].count_attempt + Cardinality(Unsaved(s)) = Cardinality(Dialled(s))
      /\ Cardinality(CallrequestsOf(s, "retry")) <= MaxRetry
<1> USE DEF IInv
<1>1. \A s \in Subscriber : Account(s)
  BY DEF AttemptsCounted, Dialled
<1>2. SUFFICES ASSUME NEW r \in Subscriber PROVE Account(r)'
  BY DEF AttemptsCounted, Dialled
<1>3. /\ subscriber[r].count_attempt \in Nat
      /\ IsFiniteSet(Dialled(r)) /\ Cardinality(Dialled(r)) \in Nat
      /\ Cardinality(CallrequestsOf(r, "retry")) \in Nat
  BY CountsFinite DEF TypeOK, SubscriberRow
<1>4. Cardinality({}) = 0 /\ \A w \in Worker : Cardinality({w}) = 1
  BY FS_EmptySet, FS_Singleton
<1>5. CASE Keeps
  <2>1. /\ Dialled(r)' = Dialled(r) /\ CallrequestsOf(r, "retry")' = CallrequestsOf(r, "retry")
        /\ Unsaved(r)' = Unsaved(r) /\ subscriber'[r].count_attempt = subscriber[r].count_attempt
    BY <1>5 DEF Keeps, SameCounts, Dialled, CallrequestsOf
  <2>2. QED
    BY <1>1, <2>1
<1>6. ASSUME NEW s \in Subscriber, NEW c \in CallrequestId, NEW w \in Worker, Dials(s, c, w)
      PROVE  Account(r)'
  <2>1. CallrequestsOf(r, "retry")' = CallrequestsOf(r, "retry") /\ UNCHANGED subscriber
    BY <1>6 DEF Dials, CallrequestsOf
  <2>2. CASE r = s
    <3>1. Dialled(r)' = Dialled(r) \cup {c} /\ c \notin Dialled(r)
      BY <1>6, <2>2 DEF Dials, Dialled, Known
    <3>2. Cardinality(Dialled(r)') = Cardinality(Dialled(r)) + 1
      BY <1>3, <3>1, FS_AddElement
    <3>3. Unsaved(r) = {} /\ Unsaved(r)' = {w}
      BY <1>6, <2>2 DEF Dials
    <3>4. Cardinality(Unsaved(r)) = 0 /\ Cardinality(Unsaved(r)') = 1
      BY <1>4, <3>3, Zenon
    <3>5. QED
      BY <1>1, <1>3, <2>1, <3>2, <3>4
  <2>3. CASE r # s
    <3>1. Dialled(r)' = Dialled(r) /\ Unsaved(r)' = Unsaved(r)
      BY <1>6, <2>3 DEF Dials, Dialled
    <3>2. QED
      BY <1>1, <2>1, <3>1
  <2>4. QED
    BY <2>2, <2>3
<1>7. ASSUME NEW s \in Subscriber, NEW w \in Worker, Saves(s, w) PROVE Account(r)'
  <2>1. CallrequestsOf(r, "retry")' = CallrequestsOf(r, "retry") /\ Dialled(r)' = Dialled(r)
    BY <1>7 DEF Saves, CallrequestsOf, Dialled
  <2>2. CASE r = s
    <3>1. /\ Unsaved(r) = {w} /\ Unsaved(r)' = {}
          /\ subscriber'[r].count_attempt = subscriber[r].count_attempt + 1
      BY <1>7, <2>2 DEF Saves
    <3>2. QED
      BY <1>1, <1>3, <1>4, <2>1, <3>1
  <2>3. CASE r # s
    BY <1>1, <1>7, <2>1, <2>3 DEF Saves, OtherRows
  <2>4. QED
    BY <2>2, <2>3
<1>8. ASSUME NEW s \in Subscriber, NEW why \in Origin, Grants(s, why) PROVE Account(r)'
  <2>1. Dialled(r)' = Dialled(r)
    <3>1. /\ 1 .. lastId' = (1 .. lastId) \cup {lastId + 1}
          /\ \A c \in 1 .. lastId : owner'[c] = owner[c]
          /\ lastId + 1 \notin 1 .. lastId /\ lastId + 1 \notin queue
          /\ queue' = queue \cup {lastId + 1}
      BY <1>8, EnqueueTyped DEF Grants, Enqueue, TypeOK, Known
    <3>2. QED
      BY <3>1 DEF Dialled
  <2>2. Unsaved(r)' = Unsaved(r) /\ subscriber'[r].count_attempt = subscriber[r].count_attempt
    BY <1>8 DEF Grants, OtherRows
  <2>3. Cardinality(CallrequestsOf(r, "retry")') <= MaxRetry
    <3>1. Cardinality(CallrequestsOf(r, "retry")')
            = IF r = s /\ "retry" = why THEN Cardinality(CallrequestsOf(r, "retry")) + 1
                                        ELSE Cardinality(CallrequestsOf(r, "retry"))
      BY <1>8, EnqueueCounts DEF Grants, Origin
    <3>2. CASE r = s /\ why = "retry"
      <4>1. /\ subscriber[r].count_attempt - 1 < MaxRetry /\ Unsaved(r) = {}
            /\ \A c \in queue : owner[c] # r
            /\ \E c \in 1 .. lastId : owner[c] = r
        BY <1>8, <3>2 DEF Grants
      <4>2. Cardinality(CallrequestsOf(r, "retry")) < Cardinality(Dialled(r))
        BY <4>1, RetriesDialled
      <4>3. Cardinality(Unsaved(r)) = 0
        BY <1>4, <4>1, Zenon
      <4>4. Cardinality(Dialled(r)) = subscriber[r].count_attempt
        BY <1>1, <1>3, <4>3
      <4>5. QED
        BY <1>3, <3>1, <3>2, <4>1, <4>2, <4>4, RetryAssumption
    <3>3. CASE ~(r = s /\ why = "retry")
      BY <1>1, <3>1, <3>3
    <3>4. QED
      BY <3>2, <3>3
  <2>4. QED
    BY <1>1, <2>1, <2>2, <2>3
<1>9. QED
  BY <1>5, <1>6, <1>7, <1>8 DEF Entry, Drops

\* While the tasks keep up with the calls and none is killed, completion_count_attempt
\* counts the completion retries of the contact, so campaign.completion_maxretry bounds
\* them, whatever calls fail, are refused before they are dialled or go unreported.
THEOREM CompletionsAccounted == KeptUp => (Spec => []CompletionRetriesCounted)
<1> SUFFICES ASSUME KeptUp PROVE Spec => []CompletionRetriesCounted
  OBVIOUS
<1> DEFINE CInv == AInv /\ CompletionRetriesCounted
<1>1. Init => CInv
  <2> SUFFICES ASSUME Init PROVE CompletionRetriesCounted
    BY InitAInv
  <2>1. \A s \in Subscriber : CallrequestsOf(s, "completion") = {}
    BY DEF Init, CallrequestsOf
  <2>2. \A s \in Subscriber : Cardinality(CallrequestsOf(s, "completion")) = 0
    BY <2>1, FS_EmptySet, Zenon
  <2>3. QED
    BY <2>2, RetryAssumption DEF Init, CompletionRetriesCounted, NewSubscriber
<1>2. CInv /\ [Next]_vars => CInv'
  <2> SUFFICES ASSUME CInv, [Next]_vars PROVE CInv'
    OBVIOUS
  <2>1. AInv' /\ Entry
    BY LedgerStep
  <2>2. CompletionBounded'
    BY <2>1 DEF AInv, LInv, IInv, Sound, Bounded, CompletionBounded
  <2>3. QED
    BY <2>1, <2>2, CompletionsKept DEF AInv, LInv
<1>3. QED
  BY <1>1, <1>2, PTL DEF Spec

\* If besides every message is dialled, count_attempt counts the calls of the contact, so
\* campaign.maxretry bounds its retries on failure.
THEOREM AttemptsAccounted ==
  KeptUp /\ "bad_number" \notin Env => (Spec => []AttemptsCounted)
<1> SUFFICES ASSUME KeptUp, "bad_number" \notin Env PROVE Spec => []AttemptsCounted
  OBVIOUS
<1> DEFINE CInv == AInv /\ FirstMade /\ AttemptsCounted
<1>1. Init => CInv
  <2> SUFFICES ASSUME Init PROVE FirstMade /\ AttemptsCounted
    BY InitAInv
  <2>1. \A s \in Subscriber : CallrequestsOf(s, "retry") = {} /\ Unsaved(s) = {}
          /\ {c \in (1 .. lastId) \ queue : owner[c] = s} = {}
    BY RowsTyped DEF Init, CallrequestsOf, Unsaved
  <2>2. \A s \in Subscriber :
          /\ Cardinality(CallrequestsOf(s, "retry")) = 0 /\ Cardinality(Unsaved(s)) = 0
          /\ Cardinality({c \in (1 .. lastId) \ queue : owner[c] = s}) = 0
    BY <2>1, FS_EmptySet, Zenon
  <2>3. QED
    BY <2>2, RetryAssumption DEF Init, AttemptsCounted, FirstMade, NewSubscriber
<1>2. CInv /\ [Next]_vars => CInv'
  <2> SUFFICES ASSUME CInv, [Next]_vars PROVE CInv'
    OBVIOUS
  <2>1. AInv' /\ Entry
    BY LedgerStep
  <2>2. IInv /\ "crash" \notin Env
    BY DEF AInv, LInv, KeptUp
  <2>3. QED
    BY <2>1, <2>2, FirstKept, AttemptsKept
<1>3. QED
  BY <1>1, <1>2, PTL DEF Spec

-----------------------------------------------------------------------------
(***************************************************************************)
(* Contacts that completed the survey.  COMPLETED is one column of a row   *)
(* that tasks overwrite whole, so it lasts only if every copy in flight    *)
(* knows of it.  Besides tasks that keep up this needs calls that end in   *)
(* NORMAL_CLEARING without amd_status, the one report that keeps it.       *)
(***************************************************************************)
PlainHangup == Env \cap {"machine", "time_limit"} = {}

Surveyed(s) == \E c \in surveyed : owner[c] = s

\* What a task of a contact must know of the survey.
Aware(t) ==
  /\ t.cr \in surveyed => t.pc \in EventPc /\ t.kind = "answered"
  /\ t.subscriber.status = "COMPLETED" <=> Surveyed(owner[t.cr])

Finished ==
  /\ surveyed \subseteq 1 .. lastId
  /\ \A s \in Subscriber : subscriber[s].status = "COMPLETED" <=> Surveyed(s)
  /\ \A c \in 1 .. lastId : Held(c) /\ Surveyed(owner[c]) => c \in surveyed
  /\ \A c \in surveyed : call[c] \in {"talking", "hungup"}
  /\ \A e \in callEvent : e.cr \in surveyed => e.kind = "answered"
  /\ \A w \in Worker : ~IsIdle(w) => Aware(worker[w])

\* What a step may not take from a contact that completed the survey.
Spares ==
  /\ \A s \in Subscriber :
       subscriber[s].status = "COMPLETED" => subscriber'[s].status = "COMPLETED"
  /\ lastId' # lastId => \A c \in surveyed : owner[c] # owner'[lastId']

LEMMA InitFinished == Init => Finished
<1> SUFFICES ASSUME Init PROVE Finished
  OBVIOUS
<1>1. \A w \in Worker : IsIdle(w)
  BY RowsTyped DEF Init, IsIdle
<1>2. \A s \in Subscriber : subscriber[s].status # "COMPLETED"
  BY DEF Init, NewSubscriber
<1>3. QED
  BY <1>1, <1>2 DEF Init, Finished, Surveyed

SameOutcome == \A s \in Subscriber :
  subscriber'[s].status = "COMPLETED" <=> subscriber[s].status = "COMPLETED"

\* A step in which nobody completes the survey and no one who did is served again.
LEMMA FinishedKept ==
  ASSUME AInv, Finished, surveyed' = surveyed, SameOutcome,
         \A c \in surveyed : call'[c] \in {"talking", "hungup"},
         \A c \in 1 .. lastId : c \in 1 .. lastId' /\ owner'[c] = owner[c],
         \A c \in 1 .. lastId' :
           Held(c)' => ~Surveyed(owner'[c]) \/ (c \in 1 .. lastId /\ Held(c)),
         \A e \in callEvent' : e \in callEvent \/ (e.cr \in surveyed => e.kind = "answered"),
         \A w \in Worker :
           \/ worker'[w] = worker[w] \/ IsIdle(w)'
           \/ worker'[w].cr \in 1 .. lastId /\ Aware(worker'[w]),
         lastId' = lastId \/ ~Surveyed(owner'[lastId'])
  PROVE  Finished' /\ Spares
<1>1. surveyed \subseteq 1 .. lastId /\ \A s : Surveyed(s)' <=> Surveyed(s)
  BY DEF Finished, Surveyed
<1>2. \A s \in Subscriber : (subscriber[s].status = "COMPLETED" <=> Surveyed(s))'
  BY <1>1 DEF Finished, SameOutcome
<1>3. \A c \in 1 .. lastId' : (Held(c) /\ Surveyed(owner[c]) => c \in surveyed)'
  BY <1>1 DEF Finished
<1>4. \A c \in surveyed' : call'[c] \in {"talking", "hungup"}
  BY DEF Finished
<1>5. \A e \in callEvent' : e.cr \in surveyed => e.kind = "answered"
  BY DEF Finished
<1>6. ASSUME NEW w \in Worker, ~IsIdle(w)' PROVE Aware(worker[w])'
  <2>1. worker'[w].cr \in 1 .. lastId /\ Aware(worker'[w])
    BY <1>6, BusyTask DEF AInv, LInv, Finished, IsIdle
  <2>2. QED
    BY <1>1, <2>1 DEF Aware
<1>7. Finished'
  BY <1>1, <1>2, <1>3, <1>4, <1>5, <1>6 DEF Finished
<1>8. Spares
  BY DEF Spares, SameOutcome, Surveyed
<1>9. QED
  BY <1>7, <1>8

LEMMA FinishedPendingCall ==
  ASSUME AInv, KeptUp, Finished, NEW s \in Subscriber, PendingCall(s)
  PROVE  Finished' /\ Spares
<1> USE DEF AInv, LInv, IInv
<1>1. /\ UNCHANGED <<call, surveyed, callEvent, worker>> /\ Enqueue(s, "first")
      /\ queue' \subseteq queue \cup {lastId + 1} /\ lastId' = lastId + 1
  BY DEF PendingCall, Enqueue
<1>2. /\ \A c \in 1 .. lastId : owner[c] # s /\ owner'[c] = owner[c]
      /\ 1 .. lastId' = (1 .. lastId) \cup {lastId + 1} /\ owner'[lastId + 1] = s
  BY <1>1, EnqueueTyped DEF Sound, Taken, PendingCall, Origin
<1>3. ~Surveyed(s)
  BY <1>2 DEF Finished, Surveyed
<1>4. SameOutcome
  <2>1. subscriber[s] \in SubscriberRow
        /\ subscriber' = [subscriber EXCEPT ![s] = [subscriber[s] EXCEPT !.status = "IN_PROCESS"]]
    BY DEF PendingCall, TypeOK
  <2>2. subscriber[s].status # "COMPLETED"
    BY DEF PendingCall
  <2>3. QED
    BY <2>1, <2>2, StatusTyped DEF TypeOK, SameOutcome, SubscriberRow, SubscriberStatus
<1>5. \A c \in 1 .. lastId : Held(c)' => Held(c)
  BY <1>1 DEF TypeOK, Held, InQueue, InCall, Reported, IsIdle
<1>6. QED
  BY <1>1, <1>2, <1>3, <1>4, <1>5, FinishedKept DEF Finished

LEMMA FinishedStartDial ==
  ASSUME AInv, KeptUp, Finished, NEW w \in Worker, NEW c \in CallrequestId, StartDial(w, c)
  PROVE  Finished' /\ Spares
<1> USE DEF AInv, LInv, IInv
<1>1. /\ c \in queue /\ IsIdle(w) /\ queue' = queue \ {c}
      /\ UNCHANGED <<subscriber, owner, lastId, surveyed, callEvent>>
      /\ \A d \in CallrequestId \ {c} : call'[d] = call[d]
      /\ \A v \in Worker \ {w} : worker'[v] = worker[v]
  BY DEF StartDial, InitDial, InitDialError, InitBadNumber, rows, TypeOK
<1>2. /\ c \in 1 .. lastId /\ owner[c] \in Subscriber /\ call[c] = "none"
      /\ subscriber[owner[c]] \in SubscriberRow /\ callrequest[c] \in CallrequestRow
  BY <1>1 DEF Known, Fresh, TypeOK
<1>3. c \notin surveyed /\ ~Surveyed(owner[c])
  <2>1. c \notin surveyed
    BY <1>2 DEF Finished
  <2>2. Held(c)
    BY <1>1 DEF Held, InQueue
  <2>3. QED
    BY <1>2, <2>1, <2>2 DEF Finished
<1>4. \/ worker'[w] = worker[w]
      \/ worker'[w].cr \in 1 .. lastId /\ worker'[w].cr = c /\ Aware(worker'[w])
  <2>1. CASE InitBadNumber(w, c)
    BY <2>1 DEF InitBadNumber
  <2>2. CASE \E f \in BOOLEAN : worker'[w] = DialTask(c, f)
    <3>1. PICK f \in BOOLEAN : worker'[w] = DialTask(c, f)
      BY <2>2
    <3>2. /\ DialTask(c, f).cr = c
          /\ DialTask(c, f).subscriber.status \in {subscriber[owner[c]].status, "FAIL"}
      BY <1>2, DialTaskTyped, DialedTyped
    <3>3. subscriber[owner[c]].status # "COMPLETED"
      BY <1>2, <1>3 DEF Finished
    <3>4. QED
      BY <1>2, <1>3, <3>1, <3>2, <3>3 DEF Aware
  <2>3. QED
    BY <2>1, <2>2 DEF StartDial, InitDial, InitDialError, TypeOK
<1>5. \A d \in 1 .. lastId : Held(d)' => Held(d)
  <2>1. Held(c)
    BY <1>1 DEF Held, InQueue
  <2>2. ASSUME NEW d \in 1 .. lastId, d # c, Held(d)' PROVE Held(d)
    <3>1. d \in CallrequestId
      BY BoundAssumption DEF TypeOK, CallrequestId
    <3>2. QED
      BY <1>1, <1>4, <2>2, <3>1 DEF Held, InQueue, InCall, Reported, IsIdle
  <2>3. QED
    BY <2>1, <2>2
<1>6. \A d \in surveyed : call'[d] \in {"talking", "hungup"}
  <2>1. surveyed \subseteq CallrequestId
    BY DEF TypeOK
  <2>2. QED
    BY <1>1, <1>3, <2>1 DEF Finished
<1>7. SameOutcome
  BY <1>1 DEF SameOutcome
<1>8. \A v \in Worker :
           \/ worker'[v] = worker[v] \/ IsIdle(v)'
           \/ worker'[v].cr \in 1 .. lastId /\ Aware(worker'[v])
  BY <1>1, <1>4
<1>9. QED
  BY <1>1, <1>5, <1>6, <1>7, <1>8, FinishedKept

\* A save writes a copy that knows of the survey, or another table.
LEMMA FinishedSave ==
  ASSUME AInv, KeptUp, Finished, NEW w \in Worker,
         InitSaveSubscriber(w) \/ InitSaveCallrequest(w)
           \/ EventSaveCallrequest(w) \/ EventSaveSubscriber(w)
  PROVE  Finished' /\ Spares
<1> DEFINE t == worker[w]
           s == owner[t.cr]
<1> USE DEF AInv, LInv, IInv
<1>1. /\ ~IsIdle(w)
      /\ UNCHANGED <<owner, lastId, queue, call, surveyed, callEvent>>
      /\ \A v \in Worker \ {w} : worker'[v] = worker[v]
  BY DEF InitSaveSubscriber, InitSaveCallrequest, EventSaveCallrequest, EventSaveSubscriber,
     IsIdle, TypeOK
<1>2. t \in Task /\ t.cr \in 1 .. lastId /\ s \in Subscriber /\ t.subscriber \in SubscriberRow
  BY <1>1, BusyTask
<1>3. Aware(t)
  BY <1>1 DEF Finished
<1>4. \/ worker'[w].pc = "idle"
      \/ \E pc \in InitPc \cup EventPc :
           /\ worker'[w] = [t EXCEPT !.pc = pc]
           /\ t.pc \in EventPc => pc \in EventPc
  <2>1. CASE InitSaveCallrequest(w)
    BY <2>1, RowsTyped DEF InitSaveCallrequest, TypeOK
  <2>2. CASE InitSaveSubscriber(w)
    BY <2>2 DEF InitSaveSubscriber, TypeOK, InitPc, EventPc
  <2>3. CASE EventSaveCallrequest(w)
    BY <2>3 DEF EventSaveCallrequest, TypeOK, EventPc
  <2>4. CASE EventSaveSubscriber(w)
    BY <2>4 DEF EventSaveSubscriber, TypeOK, EventPc
  <2>5. QED
    BY <2>1, <2>2, <2>3, <2>4
<1>5. \/ worker'[w].pc = "idle"
      \/ worker'[w].cr = t.cr /\ worker'[w].cr \in 1 .. lastId /\ Aware(worker'[w])
  BY <1>2, <1>3, <1>4 DEF Aware, Task
<1>6. SameOutcome
  <2>1. subscriber' = subscriber \/ subscriber' = [subscriber EXCEPT ![s] = t.subscriber]
    BY DEF InitSaveSubscriber, InitSaveCallrequest, EventSaveCallrequest, EventSaveSubscriber
  <2>2. t.subscriber.status = "COMPLETED" <=> subscriber[s].status = "COMPLETED"
    BY <1>2, <1>3 DEF Aware, Finished
  <2>3. QED
    BY <1>2, <2>1, <2>2 DEF SameOutcome, TypeOK
<1>7. \A d \in 1 .. lastId : Held(d)' => Held(d)
  BY <1>1, <1>5 DEF Held, InQueue, InCall, Reported, IsIdle
<1>8. QED
  BY <1>1, <1>5, <1>6, <1>7, FinishedKept DEF Finished, IsIdle

LEMMA FinishedStartEvent ==
  ASSUME AInv, KeptUp, Finished, NEW w \in Worker, NEW e \in Event, StartEvent(w, e)
  PROVE  Finished' /\ Spares
<1> USE DEF AInv, LInv, IInv
<1>1. /\ IsIdle(w) /\ e \in callEvent /\ callEvent' \subseteq callEvent
      /\ UNCHANGED <<subscriber, owner, lastId, queue, call, surveyed>>
      /\ \A v \in Worker \ {w} : worker'[v] = worker[v]
  BY DEF StartEvent, EventRead, EventNotFound, TakeEvent, rows, TypeOK
<1>2. /\ e.cr \in 1 .. lastId /\ owner[e.cr] \in Subscriber
      /\ subscriber[owner[e.cr]] \in SubscriberRow /\ callrequest[e.cr] \in CallrequestRow
  BY <1>1 DEF Known, TypeOK, Event
<1>3. Held(e.cr)
  BY <1>1 DEF Held, Reported
<1>4. Surveyed(owner[e.cr]) => e.kind = "answered"
  BY <1>1, <1>2, <1>3 DEF Finished
<1>5. subscriber[owner[e.cr]].status = "COMPLETED" <=> Surveyed(owner[e.cr])
  BY <1>2 DEF Finished
<1>6. EventTask(e).subscriber.status = "COMPLETED" <=> Surveyed(owner[e.cr])
  <2>1. CASE Surveyed(owner[e.cr])
    <3>1. e.kind \in NormalClearing /\ e.kind \notin BLeg
      BY <1>4, <2>1 DEF NormalClearing, BLeg
    <3>2. EventTask(e).subscriber.status = "COMPLETED"
      BY <1>2, <1>5, <2>1, <3>1 DEF EventTask, SettledStatus, SubscriberRow
    <3>3. QED
      BY <2>1, <3>2
  <2>2. CASE ~Surveyed(owner[e.cr])
    BY <1>2, <1>5, <2>2, EventTaskTyped
  <2>3. QED
    BY <2>1, <2>2
<1>7. Aware(EventTask(e)) /\ EventTask(e).cr = e.cr
  <2>1. EventTask(e).cr = e.cr /\ EventTask(e).pc \in EventPc
    BY <1>2, EventTaskTyped
  <2>2. EventTask(e).kind = e.kind
    BY DEF EventTask
  <2>3. e.cr \in surveyed => e.kind = "answered"
    BY <1>1 DEF Finished
  <2>4. QED
    BY <1>6, <2>1, <2>2, <2>3 DEF Aware
<1>8. worker'[w] = worker[w] \/ worker'[w] = EventTask(e)
  BY DEF StartEvent, EventRead, EventNotFound, TypeOK
<1>9. \A d \in 1 .. lastId : Held(d)' => Held(d)
  BY <1>1, <1>3, <1>7, <1>8 DEF Held, InQueue, InCall, Reported, IsIdle
<1>10. \A v \in Worker :
           \/ worker'[v] = worker[v] \/ IsIdle(v)'
           \/ worker'[v].cr \in 1 .. lastId /\ Aware(worker'[v])
  BY <1>1, <1>2, <1>7, <1>8
<1>11. QED
  BY <1>1, <1>9, <1>10, FinishedKept DEF Finished, SameOutcome

\* The decision to retry: none for a contact that completed the survey.
LEMMA FinishedRetry ==
  ASSUME AInv, KeptUp, Finished, NEW w \in Worker,
         EventBasicRetry(w) \/ EventCompletionRetry(w) \/ EventNoRetry(w) \/ EventCountUnset(w)
  PROVE  Finished' /\ Spares
<1> DEFINE t == worker[w]
<1> USE DEF AInv, LInv, IInv
<1>1. /\ ~IsIdle(w) /\ t.pc = "event_retry" /\ UNCHANGED <<call, surveyed, callEvent>>
      /\ IsIdle(w)' /\ worker'[w].pc = "idle"
      /\ \A v \in Worker \ {w} : worker'[v] = worker[v]
  BY RowsTyped DEF EventBasicRetry, EventCompletionRetry, EventNoRetry, EventCountUnset,
     IsIdle, TypeOK
<1>2. PICK c \in 1 .. lastId, s \in Subscriber : c = t.cr /\ s = owner[c]
  BY <1>1, BusyTask
<1>3. t \in Task /\ t.subscriber \in SubscriberRow
  BY <1>1, BusyTask
<1>4. Aware(t) /\ Held(c)
  BY <1>1, <1>2 DEF Finished, Held
<1>5. /\ t.subscriber.status = "COMPLETED" <=> Surveyed(s)
      /\ Surveyed(s) => t.kind = "answered"
  BY <1>2, <1>4 DEF Aware, Finished
<1>6. \A v \in Worker : worker'[v] = worker[v] \/ IsIdle(v)'
  BY <1>1
<1>7. CASE EventNoRetry(w) \/ EventCountUnset(w)
  <2>1. UNCHANGED <<subscriber, owner, lastId, queue>>
    BY <1>7 DEF EventNoRetry, EventCountUnset
  <2>2. \A d \in 1 .. lastId : Held(d)' => Held(d)
    BY <1>1, <1>2, <2>1 DEF Held, InQueue, InCall, Reported, IsIdle
  <2>3. QED
    BY <1>1, <1>6, <2>1, <2>2, FinishedKept DEF Finished, SameOutcome
<1>8. ASSUME NEW why \in {"retry", "completion"}, Enqueue(s, why), ~Surveyed(s), SameOutcome
      PROVE  Finished' /\ Spares
  <2>1. /\ 1 .. lastId' = (1 .. lastId) \cup {lastId + 1}
        /\ \A d \in 1 .. lastId : owner'[d] = owner[d]
        /\ owner'[lastId + 1] = s
        /\ queue' \subseteq queue \cup {lastId + 1} /\ lastId' = lastId + 1
    BY <1>2, <1>8, EnqueueTyped DEF Enqueue, Origin
  <2>2. \A d \in 1 .. lastId : Held(d)' => Held(d)
    BY <1>1, <1>2, <2>1 DEF Held, InQueue, InCall, Reported, IsIdle, TypeOK
  <2>3. QED
    BY <1>1, <1>6, <1>8, <2>1, <2>2, FinishedKept DEF Finished
<1>9. CASE EventBasicRetry(w)
  <2>1. UNCHANGED subscriber /\ Enqueue(s, "retry") /\ WantsRetry(t)
    BY <1>2, <1>9 DEF EventBasicRetry
  <2>2. ~Surveyed(s)
    BY <1>5, <2>1 DEF WantsRetry, NormalClearing, Machine
  <2>3. QED
    BY <1>8, <2>1, <2>2 DEF SameOutcome
<1>10. CASE EventCompletionRetry(w)
  <2> DEFINE row == [t.subscriber EXCEPT !.completion_count_attempt = @ + 1]
  <2>1. subscriber' = [subscriber EXCEPT ![s] = row] /\ Enqueue(s, "completion")
        /\ t.subscriber.status # "COMPLETED"
    BY <1>10, <1>2 DEF EventCompletionRetry, CountCompletion, CompletionDue
  <2>2. row.status = t.subscriber.status
    BY <1>3, CountTyped
  <2> HIDE DEF row
  <2>3. ~Surveyed(s) /\ subscriber[s].status # "COMPLETED"
    BY <1>5, <2>1 DEF Finished
  <2>4. SameOutcome
    BY <2>1, <2>2, <2>3 DEF SameOutcome, TypeOK
  <2>5. QED
    BY <1>8, <2>1, <2>3, <2>4
<1>11. QED
  BY <1>7, <1>9, <1>10

LEMMA FinishedMark ==
  ASSUME AInv, KeptUp, Finished, NEW c \in CallrequestId, MarkCompleted(c)
  PROVE  Finished' /\ Spares
<1> USE DEF AInv, LInv, IInv
<1>1. /\ call[c] = "talking" /\ Saved(c) /\ surveyed' = surveyed \cup {c}
      /\ UNCHANGED <<owner, lastId, queue, call, callEvent, worker>>
      /\ subscriber' = [subscriber EXCEPT ![owner[c]] =
                          [subscriber[owner[c]] EXCEPT !.status = "COMPLETED"]]
  BY DEF MarkCompleted
<1>2. c \in 1 .. lastId /\ owner[c] \in Subscriber /\ Held(c)
  BY <1>1 DEF Known, Held, InCall
<1>3. subscriber[owner[c]] \in SubscriberRow
  BY <1>2 DEF TypeOK
<1>4. subscriber'[owner[c]].status = "COMPLETED"
      /\ \A s \in Subscriber : s # owner[c] => subscriber'[s] = subscriber[s]
  BY <1>1, <1>2, <1>3, StatusTyped DEF TypeOK, SubscriberStatus
<1>5. \A s : Surveyed(s)' <=> (s = owner[c] \/ Surveyed(s))
  BY <1>1 DEF Surveyed
<1>6. \A s \in Subscriber : (subscriber[s].status = "COMPLETED" <=> Surveyed(s))'
  BY <1>4, <1>5 DEF Finished
<1>7. \A d : Held(d)' <=> Held(d)
  BY <1>1 DEF Held, InQueue, InCall, Reported, IsIdle
<1>8. \A d \in 1 .. lastId : (Held(d) /\ Surveyed(owner[d]) => d \in surveyed)'
  BY <1>1, <1>2, <1>5, <1>7 DEF Finished, OneHeld
<1>9. \A e \in callEvent : e.cr # c
  BY <1>1 DEF Phases, InCall
<1>10. \A w \in Worker : ~IsIdle(w) => worker[w].cr # c
  <2>1. \A w \in Worker : worker[w].pc \in InitPc => worker[w].cr # c
    BY <1>1 DEF Saved, KeptUp
  <2>2. \A w \in Worker : worker[w].pc \in EventPc => worker[w].cr # c
    BY <1>1 DEF Phases, InCall
  <2>3. \A w \in Worker : ~IsIdle(w) => worker[w].pc \in InitPc \cup EventPc
    BY DEF TypeOK, Task, IsIdle
  <2>4. QED
    BY <2>1, <2>2, <2>3
<1>11. ASSUME NEW w \in Worker, ~IsIdle(w) PROVE Aware(worker[w])'
  <2>1. worker[w].cr \in 1 .. lastId /\ Held(worker[w].cr)
    BY <1>11, BusyTask DEF Held
  <2>2. worker[w].cr # c /\ owner[worker[w].cr] # owner[c]
    BY <1>2, <1>10, <1>11, <2>1 DEF OneHeld
  <2>3. Aware(worker[w])
    BY <1>11 DEF Finished
  <2>4. QED
    BY <1>1, <1>5, <2>2, <2>3 DEF Aware
<1>12. Finished'
  <2>1. \A w \in Worker : (~IsIdle(w) => Aware(worker[w]))'
    BY <1>1, <1>11 DEF IsIdle
  <2>2. \A d \in surveyed' : call'[d] \in {"talking", "hungup"}
    BY <1>1 DEF Finished
  <2>3. surveyed' \subseteq 1 .. lastId'
    BY <1>1, <1>2 DEF Finished
  <2>4. \A e \in callEvent' : e.cr \in surveyed' => e.kind = "answered"
    BY <1>1, <1>9 DEF Finished
  <2>5. QED
    BY <1>1, <1>6, <1>8, <2>1, <2>2, <2>3, <2>4 DEF Finished
<1>13. Spares
  BY <1>1, <1>4 DEF Spares
<1>14. QED
  BY <1>12, <1>13

LEMMA FinishedCall ==
  ASSUME AInv, KeptUp, PlainHangup, Finished, NEW c \in CallrequestId,
         Answer(c) \/ Fail(c) \/ HangUp(c) \/ TransferEnds(c)
  PROVE  Finished' /\ Spares
<1> USE DEF AInv, LInv, IInv
<1>1. /\ InCall(c) /\ UNCHANGED <<subscriber, owner, lastId, queue, surveyed, worker>>
      /\ \A d \in CallrequestId \ {c} : call'[d] = call[d]
      /\ c \in 1 .. lastId
  BY DEF Answer, Fail, HangUp, TransferEnds, InCall, rows, TypeOK, Known
<1>2. c \in surveyed => HangUp(c) /\ call'[c] = "hungup"
  BY DEF Finished, Answer, Fail, HangUp, TransferEnds, KeptUp, OneReport, TypeOK
<1>3. \A e \in callEvent' : e \in callEvent \/ e.cr = c
  BY DEF Answer, Fail, HangUp, TransferEnds, Report
<1>4. \A e \in callEvent' : e \in callEvent \/ (e.cr \in surveyed => e.kind = "answered")
  <2>1. HangUp(c) => \A e \in callEvent' : e \in callEvent \/ e.kind = "answered"
    <3>1. HangupKind = {"answered"}
      BY DEF HangupKind, PlainHangup
    <3>2. QED
      BY <3>1 DEF HangUp, Report
  <2>2. QED
    BY <1>2, <1>3, <2>1
<1>5. \A d \in 1 .. lastId : Held(d)' => Held(d)
  <2>1. Held(c)
    BY <1>1 DEF Held
  <2>2. ASSUME NEW d \in 1 .. lastId, d # c, Held(d)' PROVE Held(d)
    <3>1. d \in CallrequestId
      BY BoundAssumption DEF TypeOK, CallrequestId
    <3>2. QED
      BY <1>1, <1>3, <2>2, <3>1 DEF Held, InQueue, InCall, Reported, IsIdle
  <2>3. QED
    BY <2>1, <2>2
<1>6. \A d \in surveyed : call'[d] \in {"talking", "hungup"}
  BY <1>1, <1>2 DEF Finished, TypeOK
<1>7. QED
  BY <1>1, <1>4, <1>5, <1>6, FinishedKept DEF SameOutcome

LEMMA FinishedLoss ==
  ASSUME AInv, KeptUp, Finished,
         \/ \E w \in Worker : Crash(w) \/ EventDies(w)
         \/ \E e \in Event : LoseEvent(e)
         \/ UNCHANGED vars
  PROVE  Finished' /\ Spares
<1>1. /\ UNCHANGED <<subscriber, owner, lastId, queue, call, surveyed, worker>>
      /\ callEvent' \subseteq callEvent
  BY DEF Crash, EventDies, LoseEvent, KeptUp, vars, rows
<1>2. \A d \in 1 .. lastId : Held(d)' => Held(d)
  BY <1>1 DEF Held, InQueue, InCall, Reported, IsIdle
<1>3. QED
  BY <1>1, <1>2, FinishedKept DEF Finished, SameOutcome

LEMMA StepFinished ==
  ASSUME AInv, KeptUp, PlainHangup, Finished, [Next]_vars
  PROVE  Finished' /\ Spares
<1>1. ASSUME NEW w \in Worker, TaskStep(w) PROVE Finished' /\ Spares
  BY <1>1, FinishedSave, FinishedRetry DEF TaskStep
<1>2. ASSUME NEW c \in CallrequestId, CallStep(c) PROVE Finished' /\ Spares
  BY <1>2, FinishedMark, FinishedCall DEF CallStep
<1>3. QED
  BY <1>1, <1>2, FinishedPendingCall, FinishedStartDial, FinishedStartEvent, FinishedLoss
  DEF Next

\* While tasks keep up and calls end plainly, COMPLETED lasts: no copy of the row taken
\* before the survey ended overwrites it and no task that read it retries the contact.
THEOREM CompletedIsFinal == KeptUp /\ PlainHangup => (Spec => [][Spares]_vars)
<1> SUFFICES ASSUME KeptUp, PlainHangup PROVE Spec => [][Spares]_vars
  OBVIOUS
<1> DEFINE FInv == AInv /\ Finished
<1>1. Init => FInv
  BY InitAInv, InitFinished
<1>2. FInv /\ [Next]_vars => FInv' /\ [Spares]_vars
  BY LedgerStep, StepFinished
<1>3. QED
  BY <1>1, <1>2, PTL DEF Spec
=============================================================================
