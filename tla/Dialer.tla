------------------------------- MODULE Dialer -------------------------------
(***************************************************************************)
(* The life of the call requests of one voice campaign, from the moment    *)
(* pending_call_processing creates one for a subscriber to the moment no   *)
(* retry of it is due any more.                                            *)
(*                                                                         *)
(*   Celery tasks   init_callrequest and process_callevent, dialer_cdr     *)
(*   Lua script     marked_node_completed, fsm_callflow.lua                *)
(*   listener.lua   which hangups become call_event rows                   *)
(*                                                                         *)
(* A task reads a row, works on the copy, and saves the WHOLE copy later   *)
(* (Model.save of Django), so every task is split at its saves and carries *)
(* the copies it read.  The hand-over of call_event rows to the workers is *)
(* one step here; a row can be lost or handed over twice when Env says so. *)
(***************************************************************************)
EXTENDS Integers, FiniteSets

CONSTANTS
  Subscriber,          \* rows of dialer_subscriber, one per contact of the campaign
  Worker,              \* Celery worker processes
  MaxRetry,            \* campaign.maxretry
  UserMaxRetry,        \* dialersetting.maxretry of the campaign's user
  CompletionMaxRetry,  \* campaign.completion_maxretry
  HumanOnly,           \* campaign.voicemail and amd_behavior = HUMAN_ONLY
  NoSubscriber,        \* the foreign key of a call request that does not exist
  MaxCallrequest,      \* bound: rows of dialer_callrequest a behaviour may create
  Env                  \* what the deployment and FreeSWITCH may do, see EnvBehaviour

EnvBehaviour == {
  "crash",         \* a worker process dies and its task is gone (acknowledged early)
  "slow_worker",   \* a call ends or completes before the task that dialled it saved
  "lost",          \* the listener drops a row: its insert failed twice
  "duplicate",     \* callevent_processing dies between the dispatch and the UPDATE
  "bad_number",    \* prepare_phonenumber returns False (gateway not active)
  "esl_error",     \* dial_out returns 'error'
  "time_limit",    \* sched_hangup ends an answered call with ALLOTTED_TIMEOUT
  "abnormal",      \* an answered call ends with a cause the listener marks status 0
  "machine",       \* the answered call is flagged amd_status = machine
  "rejected",      \* originate fails with cause NORMAL_CLEARING
  "transfer" }     \* the survey bridges the call to a second leg

ASSUME RetryAssumption ==
  /\ MaxRetry \in Nat
  /\ UserMaxRetry \in Nat
  /\ CompletionMaxRetry \in Nat
  /\ HumanOnly \in BOOLEAN
ASSUME NullAssumption == NoSubscriber \notin Subscriber
ASSUME BoundAssumption == MaxCallrequest \in Nat
ASSUME EnvAssumption == Env \subseteq EnvBehaviour

CallrequestId == 1 .. MaxCallrequest

(***************************************************************************)
(* Rows.  Columns no property reads are left out; subscriber_id and the    *)
(* reason a call request was created for never change after the INSERT and *)
(* live in the variables owner and origin.                                 *)
(***************************************************************************)
SubscriberStatus == {"PENDING", "IN_PROCESS", "SENT", "FAIL", "COMPLETED"}
SubscriberRow == [status : SubscriberStatus,
                  count_attempt : Nat,
                  completion_count_attempt : Nat]

CallrequestStatus == {"NONE", "PENDING", "CALLING", "SUCCESS", "FAILURE"}
CallrequestType == {"ALLOW_RETRY", "CANNOT_RETRY", "RETRY_DONE"}
CallrequestRow == [status : CallrequestStatus,
                   call_type : CallrequestType,
                   job_uuid : BOOLEAN]     \* request_uuid holds the bgapi Job-UUID
NoCallrequest == [status |-> "NONE", call_type |-> "CANNOT_RETRY", job_uuid |-> FALSE]

Origin == {"first", "retry", "completion"}

(***************************************************************************)
(* The rows of call_event that carry status 1, by what they report.        *)
(***************************************************************************)
EventKind == {
  "answered",         \* CHANNEL_HANGUP_COMPLETE, aleg, NORMAL_CLEARING
  "machine",          \* the same with amd_status = machine
  "time_limit",       \* CHANNEL_HANGUP_COMPLETE, aleg, ALLOTTED_TIMEOUT
  "machine_limit",    \* the same with amd_status = machine
  "failed",           \* BACKGROUND_JOB, body -ERR: names the job, not the call request
  "bleg_answered",    \* CHANNEL_HANGUP_COMPLETE, bleg, NORMAL_CLEARING
  "bleg_failed" }     \* CHANNEL_HANGUP_COMPLETE, bleg, any other cause
Event == [cr : CallrequestId, kind : EventKind]
NormalClearing == {"answered", "machine", "bleg_answered"}
Machine == {"machine", "machine_limit"}
BLeg == {"bleg_answered", "bleg_failed"}

CallState == {"none", "ringing", "talking", "hungup", "unanswered"}

InitPc == {"init_save_subscriber", "init_save_callrequest"}
EventPc == {"event_save_callrequest", "event_save_subscriber", "event_retry"}
Task == [pc : {"idle"} \cup InitPc \cup EventPc,
         cr : CallrequestId \cup {0},
         kind : EventKind \cup {"none"},
         subscriber : SubscriberRow,       \* the copy of the subscriber row
         callrequest : CallrequestRow]     \* the copy of the call request row

NewSubscriber == [status |-> "PENDING", count_attempt |-> 0, completion_count_attempt |-> 0]
Idle == [pc |-> "idle", cr |-> 0, kind |-> "none",
         subscriber |-> NewSubscriber, callrequest |-> NoCallrequest]

VARIABLES
  subscriber,    \* dialer_subscriber
  callrequest,   \* dialer_callrequest, NoCallrequest where no row exists
  owner,         \* dialer_callrequest.subscriber_id
  origin,        \* why the row was created
  lastId,        \* the serial of dialer_callrequest
  queue,         \* call requests with an init_callrequest message in the broker
  call,          \* the FreeSWITCH call of each call request
  surveyed,      \* calls that reached a node marked "Survey Complete"
  callEvent,     \* call_event rows no process_callevent task has taken
  worker         \* what each Celery process is running

rows == <<subscriber, callrequest, owner, origin, lastId>>
vars == <<rows, queue, call, surveyed, callEvent, worker>>

TypeOK ==
  /\ subscriber \in [Subscriber -> SubscriberRow]
  /\ callrequest \in [CallrequestId -> CallrequestRow]
  /\ owner \in [CallrequestId -> Subscriber \cup {NoSubscriber}]
  /\ origin \in [CallrequestId -> Origin]
  /\ lastId \in 0 .. MaxCallrequest
  /\ queue \subseteq CallrequestId
  /\ call \in [CallrequestId -> CallState]
  /\ surveyed \subseteq CallrequestId
  /\ callEvent \subseteq Event
  /\ worker \in [Worker -> Task]

Init ==
  /\ subscriber = [s \in Subscriber |-> NewSubscriber]
  /\ callrequest = [c \in CallrequestId |-> NoCallrequest]
  /\ owner = [c \in CallrequestId |-> NoSubscriber]
  /\ origin = [c \in CallrequestId |-> "first"]
  /\ lastId = 0
  /\ queue = {}
  /\ call = [c \in CallrequestId |-> "none"]
  /\ surveyed = {}
  /\ callEvent = {}
  /\ worker = [w \in Worker |-> Idle]

-----------------------------------------------------------------------------
(***************************************************************************)
(* Creating call requests.                                                 *)
(***************************************************************************)
NewCallrequest(type) == [status |-> "PENDING", call_type |-> type, job_uuid |-> FALSE]

\* The INSERT of a call request for s and the init_callrequest message sent
\* right after it, unless the process dies in between; callrequest' is left to
\* the caller.
Enqueue(s, why) ==
  /\ lastId < MaxCallrequest
  /\ lastId' = lastId + 1
  /\ owner' = [owner EXCEPT ![lastId + 1] = s]
  /\ origin' = [origin EXCEPT ![lastId + 1] = why]
  /\ \/ queue' = queue \cup {lastId + 1}
     \/ "crash" \in Env /\ UNCHANGED queue

\* The type pending_call_processing gives the call requests of a batch.
FirstCallType == IF MaxRetry = 0 \/ UserMaxRetry = 0 THEN "CANNOT_RETRY" ELSE "ALLOW_RETRY"

\* pending_call_processing for one PENDING subscriber of a running campaign.
PendingCall(s) ==
  /\ subscriber[s].status = "PENDING"
  /\ subscriber' = [subscriber EXCEPT ![s].status = "IN_PROCESS"]
  /\ Enqueue(s, "first")
  /\ callrequest' = [callrequest EXCEPT ![lastId + 1] = NewCallrequest(FirstCallType)]
  /\ UNCHANGED <<call, surveyed, callEvent, worker>>

-----------------------------------------------------------------------------
(***************************************************************************)
(* init_callrequest: read both rows, dial, save the subscriber copy, save  *)
(* the call request copy.  Neither the status of the call request nor that *)
(* of the campaign is looked at.                                           *)
(***************************************************************************)
IsIdle(w) == worker[w].pc = "idle"

DialedSubscriber(row, failed) ==
  [row EXCEPT !.count_attempt = @ + 1, !.status = IF failed THEN "FAIL" ELSE @]
DialedCallrequest(row, failed) ==
  [row EXCEPT !.status = IF failed THEN "FAILURE" ELSE "CALLING", !.job_uuid = TRUE]

DialTask(c, failed) ==
  [pc |-> "init_save_subscriber", cr |-> c, kind |-> "none",
   subscriber |-> DialedSubscriber(subscriber[owner[c]], failed),
   callrequest |-> DialedCallrequest(callrequest[c], failed)]

\* Mutant: the message is acknowledged late and a second worker takes it too.
InitDial_AcksLate(w, c) ==
  /\ IsIdle(w)
  /\ c \in queue
  /\ call' = [call EXCEPT ![c] = "ringing"]
  /\ worker' = [worker EXCEPT ![w] = DialTask(c, FALSE)]
  /\ UNCHANGED <<rows, queue, surveyed, callEvent>>

\* The bgapi originate was accepted: FreeSWITCH is ringing the contact.
InitDial(w, c) ==
  /\ IsIdle(w)
  /\ c \in queue
  /\ queue' = queue \ {c}
  /\ call' = [call EXCEPT ![c] = "ringing"]
  /\ worker' = [worker EXCEPT ![w] = DialTask(c, FALSE)]
  /\ UNCHANGED <<rows, surveyed, callEvent>>

\* dial_out returned 'error': outbound_failure.
InitDialError(w, c) ==
  /\ "esl_error" \in Env
  /\ IsIdle(w)
  /\ c \in queue
  /\ queue' = queue \ {c}
  /\ worker' = [worker EXCEPT ![w] = DialTask(c, TRUE)]
  /\ UNCHANGED <<rows, call, surveyed, callEvent>>

\* prepare_phonenumber returned False: the task returns and no row changes.
InitBadNumber(w, c) ==
  /\ "bad_number" \in Env
  /\ IsIdle(w)
  /\ c \in queue
  /\ queue' = queue \ {c}
  /\ UNCHANGED <<rows, call, surveyed, callEvent, worker>>

InitSaveSubscriber(w) ==
  LET t == worker[w] IN
  /\ t.pc = "init_save_subscriber"
  /\ subscriber' = [subscriber EXCEPT ![owner[t.cr]] = t.subscriber]
  /\ worker' = [worker EXCEPT ![w].pc = "init_save_callrequest"]
  /\ UNCHANGED <<callrequest, owner, origin, lastId, queue, call, surveyed, callEvent>>

InitSaveCallrequest(w) ==
  LET t == worker[w] IN
  /\ t.pc = "init_save_callrequest"
  /\ callrequest' = [callrequest EXCEPT ![t.cr] = t.callrequest]
  /\ worker' = [worker EXCEPT ![w] = Idle]
  /\ UNCHANGED <<subscriber, owner, origin, lastId, queue, call, surveyed, callEvent>>

-----------------------------------------------------------------------------
(***************************************************************************)
(* FreeSWITCH, the survey script and the listener.                         *)
(***************************************************************************)
\* The task that dialled c has saved its rows: what a deployment whose workers
\* keep up guarantees to whatever happens seconds later in the call.
Saved(c) ==
  \/ "slow_worker" \in Env
  \/ \A w \in Worker : ~(worker[w].cr = c /\ worker[w].pc \in InitPc)

Report(c, kinds) == callEvent' = callEvent \cup [cr : {c}, kind : kinds]

Answer(c) ==
  /\ call[c] = "ringing"
  /\ call' = [call EXCEPT ![c] = "talking"]
  /\ UNCHANGED <<rows, queue, surveyed, callEvent, worker>>

\* The originate fails: a BACKGROUND_JOB row and, when the cause happens to be
\* NORMAL_CLEARING, the CHANNEL_HANGUP_COMPLETE row as well.
Fail(c) ==
  /\ call[c] = "ringing"
  /\ call' = [call EXCEPT ![c] = "unanswered"]
  /\ \/ Report(c, {"failed"})
     \/ "rejected" \in Env /\ Report(c, {"failed", "answered"})
  /\ UNCHANGED <<rows, queue, surveyed, worker>>

HangupKind ==
  {"answered"} \cup ({"time_limit", "machine"} \cap Env)
    \cup (IF {"time_limit", "machine"} \subseteq Env THEN {"machine_limit"} ELSE {})

\* An answered call ends.
HangUp(c) ==
  /\ call[c] = "talking"
  /\ call' = [call EXCEPT ![c] = "hungup"]
  /\ \/ \E k \in HangupKind : Report(c, {k})
     \/ "abnormal" \in Env /\ UNCHANGED callEvent
  /\ UNCHANGED <<rows, queue, surveyed, worker>>

\* The leg a CALL_TRANSFER node bridged hangs up.
TransferEnds(c) ==
  /\ "transfer" \in Env
  /\ call[c] = "talking"
  /\ \E k \in BLeg : Report(c, {k})
  /\ UNCHANGED <<rows, queue, call, surveyed, worker>>

\* marked_node_completed on a node marked "Survey Complete".
MarkCompleted(c) ==
  /\ call[c] = "talking"
  /\ Saved(c)
  /\ subscriber' = [subscriber EXCEPT ![owner[c]].status = "COMPLETED"]
  /\ surveyed' = surveyed \cup {c}
  /\ UNCHANGED <<callrequest, owner, origin, lastId, queue, call, callEvent, worker>>

LoseEvent(e) ==
  /\ "lost" \in Env
  /\ e \in callEvent
  /\ callEvent' = callEvent \ {e}
  /\ UNCHANGED <<rows, queue, call, surveyed, worker>>

-----------------------------------------------------------------------------
(***************************************************************************)
(* process_callevent.                                                      *)
(***************************************************************************)
\* Mutants: the value of the call request's table; a failure makes the contact
\* pending again.
SettledStatus_OtherTable(status, kind) ==
  IF kind \in NormalClearing
  THEN IF status = "COMPLETED" THEN status ELSE "SUCCESS"
  ELSE "FAIL"
SettledStatus_Requeues(status, kind) ==
  IF kind \in NormalClearing
  THEN IF status = "COMPLETED" THEN status ELSE "SENT"
  ELSE "PENDING"

SettledStatus(status, kind) ==
  IF kind \in NormalClearing
  THEN IF status = "COMPLETED" THEN status ELSE "SENT"
  ELSE "FAIL"

\* The copies the task holds once it has read the rows and, for the A-leg, set
\* the two statuses in memory.
EventTask(e) ==
  LET row == subscriber[owner[e.cr]]
      cr == callrequest[e.cr] IN
  IF e.kind \in BLeg
  THEN [pc |-> "event_retry", cr |-> e.cr, kind |-> e.kind,
        subscriber |-> row, callrequest |-> cr]
  ELSE [pc |-> "event_save_callrequest", cr |-> e.cr, kind |-> e.kind,
        subscriber |-> [row EXCEPT !.status = SettledStatus(@, e.kind)],
        callrequest |-> [cr EXCEPT !.status = IF e.kind \in NormalClearing
                                              THEN "SUCCESS" ELSE "FAILURE"]]

\* A BACKGROUND_JOB row is looked up by request_uuid, the others by id.
Found(e) == e.kind = "failed" => callrequest[e.cr].job_uuid

\* Mutant: the UPDATE that takes the row off the pending ones is left out.
TakeEvent_NoUpdate(e) ==
  /\ e \in callEvent
  /\ Saved(e.cr)
  /\ UNCHANGED callEvent

\* The row stays pending when callevent_processing dies before its UPDATE.
TakeEvent(e) ==
  /\ e \in callEvent
  /\ Saved(e.cr)
  /\ \/ callEvent' = callEvent \ {e}
     \/ "duplicate" \in Env /\ UNCHANGED callEvent

EventRead(w, e) ==
  /\ IsIdle(w)
  /\ TakeEvent(e)
  /\ Found(e)
  /\ worker' = [worker EXCEPT ![w] = EventTask(e)]
  /\ UNCHANGED <<rows, queue, call, surveyed>>

\* "Cannot find Callrequest": the task gives up and the row is spent.
EventNotFound(w, e) ==
  /\ IsIdle(w)
  /\ TakeEvent(e)
  /\ ~Found(e)
  /\ UNCHANGED <<rows, queue, call, surveyed, worker>>

EventSaveCallrequest(w) ==
  LET t == worker[w] IN
  /\ t.pc = "event_save_callrequest"
  /\ callrequest' = [callrequest EXCEPT ![t.cr] = t.callrequest]
  /\ worker' = [worker EXCEPT ![w].pc = "event_save_subscriber"]
  /\ UNCHANGED <<subscriber, owner, origin, lastId, queue, call, surveyed, callEvent>>

EventSaveSubscriber(w) ==
  LET t == worker[w] IN
  /\ t.pc = "event_save_subscriber"
  /\ subscriber' = [subscriber EXCEPT ![owner[t.cr]] = t.subscriber]
  /\ worker' = [worker EXCEPT ![w].pc = "event_retry"]
  /\ UNCHANGED <<callrequest, owner, origin, lastId, queue, call, surveyed, callEvent>>

(***************************************************************************)
(* The end of process_callevent: a retry, a completion retry or neither.   *)
(* It decides on the copies, whatever the tables say by now.               *)
(***************************************************************************)
WantsRetry(t) ==
  \/ t.kind \notin NormalClearing /\ t.callrequest.call_type = "ALLOW_RETRY"
  \/ t.kind \in Machine /\ HumanOnly

\* Mutant: one retry too many.
RetryAllowed_OffByOne(row) == row.count_attempt - 1 <= MaxRetry /\ MaxRetry # 0

RetryAllowed(row) == row.count_attempt - 1 < MaxRetry /\ MaxRetry # 0

\* Mutants: one completion retry too many; the survey may be completed.
CompletionDue_OffByOne(row) ==
  /\ row.status # "COMPLETED"
  /\ row.completion_count_attempt <= CompletionMaxRetry
CompletionDue_AnyStatus(row) == row.completion_count_attempt < CompletionMaxRetry

\* The test of check_retrycall_completion.
CompletionDue(row) ==
  /\ row.status # "COMPLETED"
  /\ row.completion_count_attempt < CompletionMaxRetry

\* callrequest.call_type = RETRY_DONE and save(), only when a retry is wanted.
RetryDoneRows(t) ==
  IF WantsRetry(t)
  THEN [callrequest EXCEPT ![t.cr] = [t.callrequest EXCEPT !.call_type = "RETRY_DONE"]]
  ELSE callrequest

EventBasicRetry(w) ==
  LET t == worker[w] IN
  /\ t.pc = "event_retry"
  /\ WantsRetry(t)
  /\ RetryAllowed(t.subscriber)
  /\ Enqueue(owner[t.cr], "retry")
  /\ callrequest' = [RetryDoneRows(t) EXCEPT ![lastId + 1] = NewCallrequest("ALLOW_RETRY")]
  /\ worker' = [worker EXCEPT ![w] = Idle]
  /\ UNCHANGED <<subscriber, call, surveyed, callEvent>>

\* check_retrycall_completion, up to the save of the incremented copy.
CountCompletion(t) ==
  /\ WantsRetry(t) => ~RetryAllowed(t.subscriber)
  /\ CompletionDue(t.subscriber)
  /\ subscriber' = [subscriber EXCEPT ![owner[t.cr]] =
                      [t.subscriber EXCEPT !.completion_count_attempt = @ + 1]]

EventCompletionRetry(w) ==
  LET t == worker[w] IN
  /\ t.pc = "event_retry"
  /\ CountCompletion(t)
  /\ Enqueue(owner[t.cr], "completion")
  /\ callrequest' = [RetryDoneRows(t) EXCEPT ![lastId + 1] = NewCallrequest("ALLOW_RETRY")]
  /\ worker' = [worker EXCEPT ![w] = Idle]
  /\ UNCHANGED <<call, surveyed, callEvent>>

\* Mutant: the row is made pending again.
EventNoRetry_Reopens(w) ==
  LET t == worker[w] IN
  /\ t.pc = "event_retry"
  /\ WantsRetry(t) => ~RetryAllowed(t.subscriber)
  /\ ~CompletionDue(t.subscriber)
  /\ callEvent' = callEvent \cup {[cr |-> t.cr, kind |-> t.kind]}
  /\ callrequest' = RetryDoneRows(t)
  /\ worker' = [worker EXCEPT ![w] = Idle]
  /\ UNCHANGED <<subscriber, owner, origin, lastId, queue, call, surveyed>>

EventNoRetry(w) ==
  LET t == worker[w] IN
  /\ t.pc = "event_retry"
  /\ WantsRetry(t) => ~RetryAllowed(t.subscriber)
  /\ ~CompletionDue(t.subscriber)
  /\ callrequest' = RetryDoneRows(t)
  /\ worker' = [worker EXCEPT ![w] = Idle]
  /\ UNCHANGED <<subscriber, owner, origin, lastId, queue, call, surveyed, callEvent>>

\* count_attempt is NULL in an imported row until a first init_callrequest has
\* saved it: NULL - 1 raises, after RETRY_DONE was saved.
EventCountUnset(w) ==
  LET t == worker[w] IN
  /\ t.pc = "event_retry"
  /\ WantsRetry(t)
  /\ t.subscriber.count_attempt = 0
  /\ callrequest' = RetryDoneRows(t)
  /\ worker' = [worker EXCEPT ![w] = Idle]
  /\ UNCHANGED <<subscriber, owner, origin, lastId, queue, call, surveyed, callEvent>>

\* The process dies after one of the saves above and before the INSERT.
EventDies(w) ==
  LET t == worker[w] IN
  /\ "crash" \in Env
  /\ t.pc = "event_retry"
  /\ callrequest' = RetryDoneRows(t)
  /\ CountCompletion(t) \/ UNCHANGED subscriber
  /\ worker' = [worker EXCEPT ![w] = Idle]
  /\ UNCHANGED <<owner, origin, lastId, queue, call, surveyed, callEvent>>

Crash(w) ==
  /\ "crash" \in Env
  /\ ~IsIdle(w)
  /\ worker' = [worker EXCEPT ![w] = Idle]
  /\ UNCHANGED <<rows, queue, call, surveyed, callEvent>>

-----------------------------------------------------------------------------
TaskStep(w) ==
  \/ InitSaveSubscriber(w) \/ InitSaveCallrequest(w)
  \/ EventSaveCallrequest(w) \/ EventSaveSubscriber(w)
  \/ EventBasicRetry(w) \/ EventCompletionRetry(w) \/ EventNoRetry(w)
  \/ EventCountUnset(w)

StartDial(w, c) == InitDial(w, c) \/ InitDialError(w, c) \/ InitBadNumber(w, c)

StartEvent(w, e) == EventRead(w, e) \/ EventNotFound(w, e)

CallStep(c) == Answer(c) \/ Fail(c) \/ HangUp(c) \/ TransferEnds(c) \/ MarkCompleted(c)

Next ==
  \/ \E s \in Subscriber : PendingCall(s)
  \/ \E w \in Worker : TaskStep(w) \/ EventDies(w) \/ Crash(w)
  \/ \E w \in Worker, c \in CallrequestId : StartDial(w, c)
  \/ \E w \in Worker, e \in Event : StartEvent(w, e)
  \/ \E c \in CallrequestId : CallStep(c)
  \/ \E e \in Event : LoseEvent(e)

Spec == Init /\ [][Next]_vars

-----------------------------------------------------------------------------
(***************************************************************************)
(* Fairness.  The workers keep consuming and finish what they start, and   *)
(* FreeSWITCH ends every call (originate_timeout, sched_hangup): as long   *)
(* as one of these is possible, one of them happens.  Nothing is assumed   *)
(* about which, nor about faults, transfers or the survey.                 *)
(***************************************************************************)
Progress ==
  \/ \E s \in Subscriber : PendingCall(s)
  \/ \E w \in Worker : TaskStep(w)
  \/ \E w \in Worker, c \in CallrequestId : StartDial(w, c)
  \/ \E w \in Worker, e \in Event : StartEvent(w, e)
  \/ \E c \in CallrequestId : Answer(c) \/ Fail(c) \/ HangUp(c)

FairSpec == Spec /\ WF_vars(Progress)

-----------------------------------------------------------------------------
(***************************************************************************)
(* Properties.                                                             *)
(***************************************************************************)
InQueue(c) == c \in queue
InCall(c) == call[c] \in {"ringing", "talking"}
Reported(c) == \E e \in callEvent : e.cr = c
Judged(c) == \E w \in Worker : worker[w].cr = c /\ worker[w].pc \in EventPc

\* Something can still happen to the contact on behalf of c.
Live(c) == InQueue(c) \/ InCall(c) \/ Reported(c) \/ Judged(c)

\* A contact is served by one call request at a time, from the message that
\* dials it to the decision to retry it: no contact is ever rung by two calls,
\* whatever workers crash, lag or lose.  It rests on each call ending in one
\* call_event row that is handed over once (no "duplicate", "transfer" or
\* "rejected" in Env).
OneLiveCallrequest ==
  \A c, d \in 1 .. lastId : Live(c) /\ Live(d) /\ owner[c] = owner[d] => c = d

\* A message in the broker always names a call request that was never dialled:
\* no call request is dialled twice, although init_callrequest never looks at
\* its status.
QueuedUndialled ==
  \A c \in queue : call[c] = "none" /\ callrequest[c].status = "PENDING"

\* A subscriber is taken by pending_call_processing once: no stale full-row
\* save ever puts it back to PENDING.
SpooledOnce ==
  \A c, d \in 1 .. lastId :
    origin[c] = "first" /\ origin[d] = "first" /\ owner[c] = owner[d] => c = d

\* completion_count_attempt never passes campaign.completion_maxretry, even when
\* two tasks increment copies of the same row.
CompletionBounded ==
  \A s \in Subscriber : subscriber[s].completion_count_attempt <= CompletionMaxRetry

CallrequestsOf(s, why) == {c \in 1 .. lastId : owner[c] = s /\ origin[c] = why}

\* A contact gets at most campaign.completion_maxretry completion retries, and
\* the column counts exactly them.
CompletionRetriesCounted ==
  \A s \in Subscriber :
    /\ Cardinality(CallrequestsOf(s, "completion")) = subscriber[s].completion_count_attempt
    /\ subscriber[s].completion_count_attempt <= CompletionMaxRetry

Unsaved(s) == {w \in Worker : worker[w].pc = "init_save_subscriber" /\ owner[worker[w].cr] = s}

\* count_attempt, which the maxretry test reads, is the number of calls dialled to the
\* contact, up to the one whose task has not saved yet; and so the test grants at most
\* campaign.maxretry retries on failure.
AttemptsCounted ==
  \A s \in Subscriber :
    /\ subscriber[s].count_attempt + Cardinality(Unsaved(s))
         = Cardinality({c \in (1 .. lastId) \ queue : owner[c] = s})
    /\ Cardinality(CallrequestsOf(s, "retry")) <= MaxRetry

Quiet ==
  /\ queue = {} /\ callEvent = {}
  /\ \A c \in CallrequestId : ~InCall(c)
  /\ \A w \in Worker : IsIdle(w)

\* The retries of a campaign come to an end: some day nothing is queued,
\* ringing, reported or running any more.
Drains == <>[]Quiet
=============================================================================
