------------------------------- MODULE Alarm -------------------------------
(***************************************************************************)
(* The recurring events of a calendar and the alarms of each event: a      *)
(* phone call that is retried, an SMS or an e-mail.                        *)
(*                                                                         *)
(*   update_last_child_status pauses a recurring event and resumes it       *)
(*   event_dispatcher         copies a due event and its alarms for the    *)
(*                            next occurrence, then completes it           *)
(*   alarm_dispatcher         sends a perform_alarm for each due alarm     *)
(*   perform_alarm            creates an alarm request, or a message       *)
(*   alarmrequest_dispatcher  creates and sends the call of each request   *)
(*   init_callrequest, process_callevent, check_retry_alarm                *)
(*                            place the call, store its outcome, retry     *)
(*   mailspooler_pending, sendmail_task                                    *)
(*                            send the e-mails                             *)
(*                                                                         *)
(* only_one keeps the runs of a dispatcher apart.  Rows are saved whole.   *)
(* The clock counts the occurrences of the rule, days for a daily rule.    *)
(***************************************************************************)
EXTENDS Integers, Sequences, FiniteSets

CONSTANTS
  Method,          \* the alarms of an event, by method
  MaxRetry,        \* alarm.maxretry
  LastOccurrence,  \* the UNTIL of the rule
  Window,          \* the 12 hours event_dispatcher looks back, in occurrences
  MaxEvent,        \* bound: rows of appointment_event
  MaxOutage,       \* bound: ticks that come before the dispatchers are done
  MaxFaults,       \* bound: the faults below
  MaxCalls,        \* bound: calls of an alarm
  MaxPatch,        \* bound: requests that pause or resume the event
  Env

EnvBehaviour == {
  "death",        \* a worker process dies and its task is gone
  "lost",         \* the report of a call is lost, see module EventHandover
  "duplicate",    \* ... or handed over twice
  "bad_number",   \* prepare_phonenumber returns False
  "early",        \* a call starts before alarmrequest_dispatcher saved its rows
  "overlap" }     \* an event changes between the two statements of a request

ASSUME MethodAssumption == Method \subseteq {"CALL", "SMS", "EMAIL"}
ASSUME BoundAssumption ==
  /\ {MaxRetry, LastOccurrence, Window, MaxOutage, MaxFaults, MaxCalls, MaxPatch}
       \subseteq Nat
  /\ MaxEvent \in Nat \ {0}
ASSUME EnvAssumption == Env \subseteq EnvBehaviour

EventId == 1 .. MaxEvent
NoEvent == [occ |-> 0, status |-> "none"]
EventRow == [occ : 0 .. LastOccurrence, status : {"PENDING", "COMPLETED", "PAUSED", "none"}]

AlarmStatus == {"PENDING", "IN_PROCESS", "RETRY", "SUCCESS", "FAILURE"}
AlarmRow == [status : AlarmStatus \cup {"none"}, num_attempt : Nat]
NoAlarm == [status |-> "none", num_attempt |-> 0]
NewAlarm == [status |-> "PENDING", num_attempt |-> 0]

\* A report waits as "answered" or "failed" until process_callevent takes it.
CallState == {"created", "queued", "calling", "answered", "failed", "over"}
Call == [request : Nat, state : CallState]

Idle == [pc |-> "idle"]

VARIABLES
  clock,
  event,        \* appointment_event
  alarm,        \* appointment_alarm, by event and method
  request,      \* the statuses of the alarm requests of each event's CALL alarm
  call,         \* their call requests and calls
  failureSms,   \* failure SMS sent, per event
  mail,         \* the e-mail of each event: its row, its task, how often it was sent
  performs,     \* perform_alarm messages for the CALL alarm
  notice,       \* perform_alarm for an SMS or an e-mail
  patch,        \* the REST request that pauses or resumes the event
  eventRun, alarmRun, requestRun, mailRun,   \* the four dispatchers
  worker,       \* the process that runs init_callrequest and process_callevent
  outages,
  faults

tables == <<event, alarm, request, call, failureSms, mail>>
queues == <<performs, notice, patch>>
runs == <<eventRun, alarmRun, requestRun, mailRun, worker>>
bounds == <<clock, outages, faults>>
vars == <<tables, queues, runs, bounds>>

NoMail == [status |-> "none", task |-> "none", sent |-> 0]

TypeOK ==
  /\ clock \in 0 .. LastOccurrence
  /\ event \in [EventId -> EventRow]
  /\ alarm \in [EventId -> [Method -> AlarmRow]]
  /\ \A e \in EventId : /\ request[e] \in Seq(AlarmStatus)
                        /\ call[e] \in Seq(Call)
                        /\ \A i \in DOMAIN call[e] : call[e][i].request \in DOMAIN request[e]
  /\ failureSms \in [EventId -> Nat]
  /\ mail \in [EventId -> [status : {"none", "PENDING", "IN_PROCESS", "SENT"},
                           task : {"none", "queued", "sending"}, sent : Nat]]
  /\ performs \in [EventId -> Nat]
  /\ notice \in [EventId -> [Method \ {"CALL"} -> {"none", "queued", "save"}]]
  /\ patch.pc \in {"idle", "save"} /\ patch.count \in 0 .. MaxPatch
  /\ eventRun.pc \in {"idle", "scan", "alarms"}
  /\ alarmRun.pc \in {"idle", "send"}
  /\ requestRun.pc \in {"idle", "send", "save", "count"}
  /\ mailRun.pc \in {"idle", "send"}
  /\ worker.pc \in {"idle", "save", "check", "retry", "sms"}
  /\ outages \in 0 .. MaxOutage
  /\ faults \in 0 .. MaxFaults

Init ==
  /\ clock = 0
  /\ event = [e \in EventId |-> IF e = 1 THEN [occ |-> 0, status |-> "PENDING"] ELSE NoEvent]
  /\ alarm = [e \in EventId |-> [m \in Method |-> IF e = 1 THEN NewAlarm ELSE NoAlarm]]
  /\ request = [e \in EventId |-> <<>>]
  /\ call = [e \in EventId |-> <<>>]
  /\ failureSms = [e \in EventId |-> 0]
  /\ mail = [e \in EventId |-> NoMail]
  /\ performs = [e \in EventId |-> 0]
  /\ notice = [e \in EventId |-> [m \in Method \ {"CALL"} |-> "none"]]
  /\ patch = [pc |-> "idle", count |-> 0]
  /\ eventRun = Idle /\ alarmRun = Idle /\ requestRun = Idle /\ mailRun = Idle
  /\ worker = Idle
  /\ outages = 0
  /\ faults = 0

Exists(e) == event[e].status # "none"
Fault == faults < MaxFaults /\ faults' = faults + 1

-----------------------------------------------------------------------------
(***************************************************************************)
(* event_dispatcher, every minute.                                         *)
(***************************************************************************)
\* Mutant: the dispatcher looks for the events that start now.
EventDue_NoWindow(e) == event[e].status = "PENDING" /\ event[e].occ = clock
\* Mutant: events that have been processed are found again.
EventDue_AnyStatus(e) == Exists(e) /\ event[e].occ \in clock - Window .. clock
EventDue(e) == event[e].status = "PENDING" /\ event[e].occ \in clock - Window .. clock

\* get_next_occurrence: the first one after now; end_recurring_period plays no part.
HasNext == clock < LastOccurrence

\* The rows are read once, at the start of the run.
ListEvents ==
  LET due == {e \in EventId : EventDue(e)} IN
  /\ eventRun.pc = "idle"
  /\ due # {}
  /\ eventRun' = [pc |-> "scan", list |-> due]
  /\ UNCHANGED <<tables, queues, alarmRun, requestRun, mailRun, worker, bounds>>

\* copy_event.
CopyEvent(e) ==
  /\ eventRun.pc = "scan"
  /\ e \in eventRun.list
  /\ HasNext
  /\ \E new \in EventId :
       /\ ~Exists(new)
       /\ \A f \in EventId : f < new => Exists(f)
       /\ event' = [event EXCEPT ![new] = [occ |-> clock + 1, status |-> "PENDING"]]
       /\ eventRun' = [pc |-> "alarms", list |-> eventRun.list, e |-> e, new |-> new,
                       left |-> Method]
  /\ UNCHANGED <<alarm, request, call, failureSms, mail, queues, alarmRun, requestRun,
                 mailRun, worker, bounds>>

\* copy_alarm: num_attempt is copied with the rest.
CopyAlarm(m) ==
  LET r == eventRun IN
  /\ r.pc = "alarms"
  /\ m \in r.left
  /\ alarm' = [alarm EXCEPT ![r.new][m] =
       [status |-> "PENDING", num_attempt |-> alarm[r.e][m].num_attempt]]
  /\ eventRun' = [r EXCEPT !.left = @ \ {m}]
  /\ UNCHANGED <<event, request, call, failureSms, mail, queues, alarmRun, requestRun,
                 mailRun, worker, bounds>>

\* The row is saved as it was read: a pause that came meanwhile is lost.
CompleteEvent(e) ==
  /\ \/ eventRun.pc = "scan" /\ e \in eventRun.list /\ ~HasNext
     \/ eventRun.pc = "alarms" /\ eventRun.left = {} /\ eventRun.e = e
  /\ event' = [event EXCEPT ![e].status = "COMPLETED"]
  /\ eventRun' = IF eventRun.list = {e} THEN Idle
                 ELSE [pc |-> "scan", list |-> eventRun.list \ {e}]
  /\ UNCHANGED <<alarm, request, call, failureSms, mail, queues, alarmRun, requestRun,
                 mailRun, worker, bounds>>

-----------------------------------------------------------------------------
(***************************************************************************)
(* update_last_child_status(PAUSED or PENDING) reads the newest copy of    *)
(* the event and saves it.                                                 *)
(***************************************************************************)
LastChild(e) == e # 1 /\ Exists(e) /\ \A f \in EventId : Exists(f) => f <= e

ReadLastChild(e) ==
  /\ patch.pc = "idle"
  /\ patch.count < MaxPatch
  /\ LastChild(e)
  /\ \E status \in {"PAUSED", "PENDING"} \ {event[e].status} :
       patch' = [pc |-> "save", count |-> patch.count + 1, e |-> e, status |-> status,
                 row |-> event[e]]
  /\ UNCHANGED <<tables, performs, notice, runs, bounds>>

SaveLastChild ==
  /\ patch.pc = "save"
  /\ event' = [event EXCEPT ![patch.e].status = patch.status]
  /\ IF event[patch.e] = patch.row THEN UNCHANGED faults ELSE "overlap" \in Env /\ Fault
  /\ patch' = [pc |-> "idle", count |-> patch.count]
  /\ UNCHANGED <<alarm, request, call, failureSms, mail, performs, notice, runs, clock,
                 outages>>

-----------------------------------------------------------------------------
(***************************************************************************)
(* alarm_dispatcher and perform_alarm.                                     *)
(***************************************************************************)
AlarmDue(e, m) ==
  Exists(e) /\ event[e].occ = clock /\ alarm[e][m].status = "PENDING"

MarkAlarm(e, m) ==
  /\ alarmRun.pc = "idle"
  /\ AlarmDue(e, m)
  /\ alarm' = [alarm EXCEPT ![e][m].status = "IN_PROCESS"]
  /\ alarmRun' = [pc |-> "send", e |-> e, m |-> m]
  /\ UNCHANGED <<event, request, call, failureSms, mail, queues, eventRun, requestRun,
                 mailRun, worker, bounds>>

SendPerform ==
  LET r == alarmRun IN
  /\ r.pc = "send"
  /\ IF r.m = "CALL"
     THEN performs' = [performs EXCEPT ![r.e] = @ + 1] /\ UNCHANGED notice
     ELSE notice' = [notice EXCEPT ![r.e][r.m] = "queued"] /\ UNCHANGED performs
  /\ alarmRun' = Idle
  /\ UNCHANGED <<tables, patch, eventRun, requestRun, mailRun, worker, bounds>>

PerformCall(e) ==
  /\ performs[e] > 0
  /\ performs' = [performs EXCEPT ![e] = @ - 1]
  /\ request' = [request EXCEPT ![e] = Append(@, "PENDING")]
  /\ UNCHANGED <<event, alarm, call, failureSms, mail, notice, patch, runs, bounds>>

\* The message of an SMS goes to SendMessage, the e-mail to the spooler.
PerformNotice(e, m) ==
  /\ notice[e][m] = "queued"
  /\ notice' = [notice EXCEPT ![e][m] = "save"]
  /\ mail' = IF m = "EMAIL" THEN [mail EXCEPT ![e].status = "PENDING"] ELSE mail
  /\ UNCHANGED <<event, alarm, request, call, failureSms, performs, patch, runs, bounds>>

\* Mutant: the status of an event is written to the alarm.
NoticeSaved_EventStatus(e, m) ==
  /\ notice[e][m] = "save"
  /\ notice' = [notice EXCEPT ![e][m] = "none"]
  /\ alarm' = [alarm EXCEPT ![e][m].status = "COMPLETED"]
  /\ UNCHANGED <<event, request, call, failureSms, mail, performs, patch, runs, bounds>>

NoticeSaved(e, m) ==
  /\ notice[e][m] = "save"
  /\ notice' = [notice EXCEPT ![e][m] = "none"]
  /\ alarm' = [alarm EXCEPT ![e][m].status = "SUCCESS"]
  /\ UNCHANGED <<event, request, call, failureSms, mail, performs, patch, runs, bounds>>

-----------------------------------------------------------------------------
(***************************************************************************)
(* alarmrequest_dispatcher: the alarm is read when its request's turn      *)
(* comes, and saved with num_attempt + 1 at the end of the turn.           *)
(***************************************************************************)
CreateCall(e, k) ==
  /\ requestRun.pc = "idle"
  /\ k \in DOMAIN request[e]
  /\ request[e][k] = "PENDING"
  /\ Len(call[e]) < MaxCalls
  /\ call' = [call EXCEPT ![e] = Append(@, [request |-> k, state |-> "created"])]
  /\ requestRun' = [pc |-> "send", e |-> e, k |-> k, c |-> Len(call[e]) + 1,
                    row |-> alarm[e]["CALL"]]
  /\ UNCHANGED <<event, alarm, request, failureSms, mail, queues, eventRun, alarmRun,
                 mailRun, worker, bounds>>

SendInit ==
  LET r == requestRun IN
  /\ r.pc = "send"
  /\ call' = [call EXCEPT ![r.e][r.c].state = "queued"]
  /\ requestRun' = [r EXCEPT !.pc = "save"]
  /\ UNCHANGED <<event, alarm, request, failureSms, mail, queues, eventRun, alarmRun,
                 mailRun, worker, bounds>>

SaveRequest ==
  LET r == requestRun IN
  /\ r.pc = "save"
  /\ request' = [request EXCEPT ![r.e][r.k] = "IN_PROCESS"]
  /\ requestRun' = [r EXCEPT !.pc = "count"]
  /\ UNCHANGED <<event, alarm, call, failureSms, mail, queues, eventRun, alarmRun,
                 mailRun, worker, bounds>>

CountAttempt ==
  LET r == requestRun IN
  /\ r.pc = "count"
  /\ alarm' = [alarm EXCEPT ![r.e]["CALL"] = [r.row EXCEPT !.num_attempt = @ + 1]]
  /\ requestRun' = Idle
  /\ UNCHANGED <<event, request, call, failureSms, mail, queues, eventRun, alarmRun,
                 mailRun, worker, bounds>>

-----------------------------------------------------------------------------
(***************************************************************************)
(* The call.                                                               *)
(***************************************************************************)
Dispatched(e, c) == ~(requestRun.pc # "idle" /\ requestRun.e = e /\ requestRun.c = c)
SetCall(e, c, state) == call' = [call EXCEPT ![e][c].state = state]
Timing(e, c) ==
  IF Dispatched(e, c) THEN UNCHANGED faults ELSE "early" \in Env /\ Fault
Task(pc, e, c) == [pc |-> pc, e |-> e, k |-> call[e][c].request]

\* init_callrequest dials, or fails to and checks for a retry.
InitCall(e, c) ==
  /\ worker.pc = "idle"
  /\ c \in DOMAIN call[e]
  /\ call[e][c].state = "queued"
  /\ \/ SetCall(e, c, "calling") /\ UNCHANGED worker /\ Timing(e, c)
     \/ SetCall(e, c, "over") /\ worker' = Task("check", e, c) /\ Timing(e, c)
     \/ "bad_number" \in Env /\ SetCall(e, c, "over") /\ UNCHANGED worker /\ Fault
  /\ UNCHANGED <<event, alarm, request, failureSms, mail, queues, eventRun, alarmRun,
                 requestRun, mailRun, clock, outages>>

\* The call is answered, or ends in any other way (no answer, the maximum duration,
\* a machine when the setting is HUMAN_ONLY).
EndCall(e, c) ==
  /\ c \in DOMAIN call[e]
  /\ call[e][c].state = "calling"
  /\ SetCall(e, c, "answered") \/ SetCall(e, c, "failed")
  /\ UNCHANGED <<event, alarm, request, failureSms, mail, queues, runs, bounds>>

LoseReport(e, c) ==
  /\ "lost" \in Env
  /\ c \in DOMAIN call[e]
  /\ call[e][c].state \in {"answered", "failed"}
  /\ SetCall(e, c, "over")
  /\ Fault
  /\ UNCHANGED <<event, alarm, request, failureSms, mail, queues, runs, clock, outages>>

\* process_callevent reads the request and the alarm.
TakeReport(e, c) ==
  /\ worker.pc = "idle"
  /\ c \in DOMAIN call[e]
  /\ call[e][c].state \in {"answered", "failed"}
  /\ worker' = [pc |-> "save", e |-> e, k |-> call[e][c].request,
                row |-> alarm[e]["CALL"], outcome |-> call[e][c].state]
  /\ \/ SetCall(e, c, "over") /\ UNCHANGED faults
     \/ "duplicate" \in Env /\ Fault /\ UNCHANGED call
  /\ UNCHANGED <<event, alarm, request, failureSms, mail, queues, eventRun, alarmRun,
                 requestRun, mailRun, clock, outages>>

\* Mutant: the outcome of the call is not told apart.
SaveOutcome_Mixed ==
  /\ worker.pc = "save"
  /\ request' = [request EXCEPT ![worker.e][worker.k] = "SUCCESS"]
  /\ alarm' = [alarm EXCEPT ![worker.e]["CALL"] = [worker.row EXCEPT !.status = "SUCCESS"]]
  /\ worker' = [pc |-> "check", e |-> worker.e, k |-> worker.k]
  /\ UNCHANGED <<event, call, failureSms, mail, queues, eventRun, alarmRun, requestRun,
                 mailRun, bounds>>

SaveOutcome ==
  LET w == worker
      status == IF w.outcome = "answered" THEN "SUCCESS" ELSE "FAILURE" IN
  /\ w.pc = "save"
  /\ request' = [request EXCEPT ![w.e][w.k] = status]
  /\ alarm' = [alarm EXCEPT ![w.e]["CALL"] = [w.row EXCEPT !.status = status]]
  /\ worker' = IF w.outcome = "answered" THEN Idle ELSE [pc |-> "check", e |-> w.e, k |-> w.k]
  /\ UNCHANGED <<event, call, failureSms, mail, queues, eventRun, alarmRun, requestRun,
                 mailRun, bounds>>

\* Mutant: maxretry + 1 >= num_attempt.
MayRetry_OffByOne(e) == MaxRetry + 1 >= alarm[e]["CALL"].num_attempt
MayRetry(e) == MaxRetry >= alarm[e]["CALL"].num_attempt

\* check_retry_alarm reads both rows again; update_status saves both.
CheckRetry ==
  LET w == worker
      status == IF MayRetry(w.e) THEN "RETRY" ELSE "FAILURE" IN
  /\ w.pc = "check"
  /\ request' = [request EXCEPT ![w.e][w.k] = status]
  /\ alarm' = [alarm EXCEPT ![w.e]["CALL"].status = status]
  /\ worker' = IF MayRetry(w.e)
               THEN [pc |-> "retry", e |-> w.e, row |-> alarm'[w.e]["CALL"]]
               ELSE [pc |-> "sms", e |-> w.e]
  /\ UNCHANGED <<event, call, failureSms, mail, queues, eventRun, alarmRun, requestRun,
                 mailRun, bounds>>

\* Mutant: nothing is sent.
RetryAlarm_Forgets ==
  /\ worker.pc = "retry"
  /\ alarm' = [alarm EXCEPT ![worker.e]["CALL"] = [worker.row EXCEPT !.status = "IN_PROCESS"]]
  /\ worker' = Idle
  /\ UNCHANGED <<event, request, call, failureSms, mail, queues, eventRun, alarmRun,
                 requestRun, mailRun, bounds>>

RetryAlarm ==
  /\ worker.pc = "retry"
  /\ alarm' = [alarm EXCEPT ![worker.e]["CALL"] = [worker.row EXCEPT !.status = "IN_PROCESS"]]
  /\ performs' = [performs EXCEPT ![worker.e] = @ + 1]
  /\ worker' = Idle
  /\ UNCHANGED <<event, request, call, failureSms, mail, notice, patch, eventRun, alarmRun,
                 requestRun, mailRun, bounds>>

\* phonenumber_sms_failure.
SendFailureSms ==
  /\ worker.pc = "sms"
  /\ failureSms' = [failureSms EXCEPT ![worker.e] = @ + 1]
  /\ worker' = Idle
  /\ UNCHANGED <<event, alarm, request, call, mail, queues, eventRun, alarmRun, requestRun,
                 mailRun, bounds>>

-----------------------------------------------------------------------------
(***************************************************************************)
(* mailspooler_pending and sendmail_task.                                  *)
(***************************************************************************)
MarkMail(e) ==
  /\ mailRun.pc = "idle"
  /\ mail[e].status = "PENDING"
  /\ mail' = [mail EXCEPT ![e].status = "IN_PROCESS"]
  /\ mailRun' = [pc |-> "send", e |-> e]
  /\ UNCHANGED <<event, alarm, request, call, failureSms, queues, eventRun, alarmRun,
                 requestRun, worker, bounds>>

SendMailTask ==
  /\ mailRun.pc = "send"
  /\ mail' = [mail EXCEPT ![mailRun.e].task = "queued"]
  /\ mailRun' = Idle
  /\ UNCHANGED <<event, alarm, request, call, failureSms, queues, eventRun, alarmRun,
                 requestRun, worker, bounds>>

\* sendmail_task refuses a mail that is not IN_PROCESS.
SendMail(e) ==
  /\ mail[e].task = "queued"
  /\ mail' = IF mail[e].status = "IN_PROCESS"
             THEN [mail EXCEPT ![e].task = "sending", ![e].sent = @ + 1]
             ELSE [mail EXCEPT ![e].task = "none"]
  /\ UNCHANGED <<event, alarm, request, call, failureSms, queues, runs, bounds>>

\* Mutant: the row is saved with the status it was created with.
MailSent_Again(e) ==
  /\ mail[e].task = "sending"
  /\ mail' = [mail EXCEPT ![e].status = "PENDING", ![e].task = "none"]
  /\ UNCHANGED <<event, alarm, request, call, failureSms, queues, runs, bounds>>

MailSent(e) ==
  /\ mail[e].task = "sending"
  /\ mail' = [mail EXCEPT ![e].status = "SENT", ![e].task = "none"]
  /\ UNCHANGED <<event, alarm, request, call, failureSms, queues, runs, bounds>>

-----------------------------------------------------------------------------
(***************************************************************************)
(* A process dies with the run, the task or the message it holds.          *)
(***************************************************************************)
Die ==
  /\ "death" \in Env
  /\ Fault
  /\ \/ eventRun # Idle /\ eventRun' = Idle
        /\ UNCHANGED <<alarmRun, requestRun, mailRun, worker, queues, mail>>
     \/ alarmRun # Idle /\ alarmRun' = Idle
        /\ UNCHANGED <<eventRun, requestRun, mailRun, worker, queues, mail>>
     \/ requestRun # Idle /\ requestRun' = Idle
        /\ UNCHANGED <<eventRun, alarmRun, mailRun, worker, queues, mail>>
     \/ mailRun # Idle /\ mailRun' = Idle
        /\ UNCHANGED <<eventRun, alarmRun, requestRun, worker, queues, mail>>
     \/ worker # Idle /\ worker' = Idle
        /\ UNCHANGED <<eventRun, alarmRun, requestRun, mailRun, queues, mail>>
     \/ /\ \E e \in EventId, m \in Method \ {"CALL"} :
             notice[e][m] # "none" /\ notice' = [notice EXCEPT ![e][m] = "none"]
        /\ UNCHANGED <<runs, performs, patch, mail>>
     \/ /\ \E e \in EventId :
             mail[e].task # "none" /\ mail' = [mail EXCEPT ![e].task = "none"]
        /\ UNCHANGED <<runs, queues>>
  /\ UNCHANGED <<event, alarm, request, call, failureSms, clock, outages>>

\* What is done before the next occurrence when nobody is late: the dispatchers have
\* their time windows, calls and retries take less than the period of the rule.
Due ==
  \/ eventRun # Idle \/ alarmRun # Idle \/ requestRun # Idle \/ worker # Idle
  \/ \E e \in EventId : \/ EventDue(e)
                        \/ \E m \in Method : AlarmDue(e, m)
                        \/ \E k \in DOMAIN request[e] : request[e][k] = "PENDING"
                        \/ \E c \in DOMAIN call[e] : call[e][c].state # "over"
                        \/ performs[e] > 0
                        \/ \E m \in Method \ {"CALL"} : notice[e][m] # "none"

\* The next occurrence of the rule; an outage when the dispatchers are late for this one,
\* or when it is paused.
Tick ==
  /\ clock < LastOccurrence
  /\ clock' = clock + 1
  /\ IF Due \/ \E e \in EventId : event[e].status = "PAUSED" /\ event[e].occ <= clock
     THEN outages < MaxOutage /\ outages' = outages + 1
     ELSE UNCHANGED outages
  /\ UNCHANGED <<tables, queues, runs, faults>>

-----------------------------------------------------------------------------
EventStep ==
  \/ ListEvents
  \/ \E e \in EventId : CopyEvent(e) \/ CompleteEvent(e)
  \/ \E m \in Method : CopyAlarm(m)
AlarmStep == SendPerform \/ \E e \in EventId, m \in Method : MarkAlarm(e, m)
RequestStep ==
  \/ SendInit \/ SaveRequest \/ CountAttempt
  \/ \E e \in EventId : \E k \in DOMAIN request[e] : CreateCall(e, k)
NoticeStep == \E e \in EventId, m \in Method \ {"CALL"} : PerformNotice(e, m) \/ NoticeSaved(e, m)
MailStep == SendMailTask \/ \E e \in EventId : MarkMail(e) \/ SendMail(e) \/ MailSent(e)
CallStep == \E e \in EventId : \E c \in DOMAIN call[e] : EndCall(e, c)
WorkerStep ==
  \/ SaveOutcome \/ CheckRetry \/ RetryAlarm \/ SendFailureSms
  \/ \E e \in EventId : \E c \in DOMAIN call[e] : InitCall(e, c) \/ TakeReport(e, c)

Next ==
  \/ EventStep \/ AlarmStep \/ RequestStep \/ NoticeStep \/ MailStep
  \/ CallStep \/ WorkerStep \/ SaveLastChild
  \/ \E e \in EventId : ReadLastChild(e)
  \/ \E e \in EventId : PerformCall(e)
  \/ \E e \in EventId : \E c \in DOMAIN call[e] : LoseReport(e, c)
  \/ Die \/ Tick

Spec == Init /\ [][Next]_vars

(***************************************************************************)
(* Beat runs the dispatchers for ever, workers finish what they take and   *)
(* calls end.  The clock need not advance.                                 *)
(***************************************************************************)
Fairness ==
  /\ WF_vars(EventStep) /\ WF_vars(AlarmStep) /\ WF_vars(RequestStep)
  /\ WF_vars(NoticeStep) /\ WF_vars(MailStep) /\ WF_vars(CallStep) /\ WF_vars(WorkerStep)
  /\ \A e \in EventId : WF_vars(PerformCall(e))

FairSpec == Spec /\ Fairness

-----------------------------------------------------------------------------
(***************************************************************************)
(* Properties.                                                             *)
(***************************************************************************)
\* An occurrence has one event, and one more for each death of a dispatcher between
\* the copy and the completion, or request saved over the completion: later occurrences
\* inherit the second copy but do not multiply it.
OccurrenceOnce ==
  \A n \in 0 .. LastOccurrence :
    Cardinality({e \in EventId : Exists(e) /\ event[e].occ = n}) <= 1 + faults

\* "We can pause an event for 12hours": the event recurs until its rule ends as long as
\* the dispatcher is away and the event paused for no more than the window, whatever of a
\* pause is lost to the dispatcher: some event is always there to be copied.
ChainAlive ==
  outages <= Window =>
    \/ clock = LastOccurrence
    \/ \E e \in EventId : /\ event[e].status \in {"PENDING", "PAUSED"}
                          /\ event[e].occ >= clock - Window

\* "sets the number of retries": while nothing fails, never more calls than maxretry
\* allows, and one at a time, whatever the dispatcher and the retries do.  After a fault
\* nothing bounds them: two calls of one alarm, each retried, save older rows over each
\* other's num_attempt.
CallsBounded ==
  faults = 0 => \A e \in EventId :
    /\ Len(call[e]) <= 1 + MaxRetry
    /\ Cardinality({c \in DOMAIN call[e] : call[e][c].state # "over"}) <= 1

\* While nothing fails, a call that was delivered stays so: it is not placed again and
\* no SMS says that it failed.
DeliveredIsFinal ==
  [][\A e \in EventId :
       "CALL" \in Method /\ faults' = 0 /\ alarm[e]["CALL"].status = "SUCCESS"
         => alarm'[e]["CALL"].status = "SUCCESS" /\ Len(request'[e]) = Len(request[e])
              /\ failureSms'[e] = failureSms[e]]_vars

\* While nothing fails and the dispatchers keep up, every alarm that falls due is
\* delivered or given up.
AlarmSettles ==
  \A e \in EventId, m \in Method :
    AlarmDue(e, m) ~> (alarm[e][m].status \in {"SUCCESS", "FAILURE"}
                         \/ faults > 0 \/ outages > 0)

\* An e-mail leaves once.
MailOnce == \A e \in EventId : mail[e].sent <= 1
=============================================================================
