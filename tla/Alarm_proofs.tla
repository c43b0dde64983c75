---------------------------- MODULE Alarm_proofs ----------------------------
(***************************************************************************)
(* Proofs about the module Alarm, for every set of alarms, every maxretry, *)
(* rule, window and Env, and every bound.                                  *)
(***************************************************************************)
EXTENDS Alarm, FiniteSetTheorems, SequenceTheorems, TLAPS

(***************************************************************************)
(* The types of what the tasks carry.                                      *)
(***************************************************************************)
MailRow == [status : {"none", "PENDING", "IN_PROCESS", "SENT"},
            task : {"none", "queued", "sending"}, sent : Nat]
NoticeMethod == Method \ {"CALL"}
NoticeState == {"none", "queued", "save"}

Idling == [pc : {"idle"}]
Scan == [pc : {"scan"}, list : SUBSET EventId]
Copying == [pc : {"alarms"}, list : SUBSET EventId, e : EventId, new : EventId,
            left : SUBSET Method]
Sending == [pc : {"send"}, e : EventId, m : Method]
Mailing == [pc : {"send"}, e : EventId]
Requesting == [pc : {"send", "save", "count"}, e : EventId, k : Nat, c : Nat, row : AlarmRow]
Saving == [pc : {"save"}, e : EventId, k : Nat, row : AlarmRow, outcome : {"answered", "failed"}]
Checking == [pc : {"check"}, e : EventId, k : Nat]
Retrying == [pc : {"retry"}, e : EventId, row : AlarmRow]
Failing == [pc : {"sms"}, e : EventId]
Patching == [pc : {"save"}, count : 0 .. MaxPatch, e : EventId, status : {"PAUSED", "PENDING"},
             row : EventRow]

\* The calendar.
EventTyped ==
  /\ clock \in 0 .. LastOccurrence /\ outages \in 0 .. MaxOutage
  /\ event \in [EventId -> EventRow]
  /\ eventRun \in Idling \cup Scan \cup Copying
  /\ patch \in [pc : {"idle"}, count : 0 .. MaxPatch] \cup Patching

AlarmTyped == alarm \in [EventId -> [Method -> AlarmRow]]

\* The calls.
CallTyped ==
  /\ request \in [EventId -> Seq(AlarmStatus)]
  /\ call \in [EventId -> Seq(Call)]
  /\ \A e \in EventId : \A c \in 1 .. Len(call[e]) : call[e][c].request \in 1 .. Len(request[e])
  /\ failureSms \in [EventId -> Nat]
  /\ performs \in [EventId -> Nat]
  /\ requestRun \in Idling \cup Requesting
  /\ requestRun.pc # "idle" => /\ requestRun.k \in 1 .. Len(request[requestRun.e])
                               /\ requestRun.c \in 1 .. Len(call[requestRun.e])
  /\ worker \in Idling \cup Saving \cup Checking \cup Retrying \cup Failing
  /\ worker.pc \in {"save", "check"} => worker.k \in 1 .. Len(request[worker.e])
  /\ worker.pc # "idle" => "CALL" \in Method
  /\ \A e \in EventId : performs[e] > 0 \/ Len(request[e]) > 0 => "CALL" \in Method

\* The e-mails and SMS.
MailTyped ==
  /\ mail \in [EventId -> MailRow]
  /\ notice \in [EventId -> [NoticeMethod -> NoticeState]]
  /\ alarmRun \in Idling \cup Sending
  /\ mailRun \in Idling \cup Mailing

FaultTyped == faults \in 0 .. MaxFaults

Typed == EventTyped /\ AlarmTyped /\ CallTyped /\ MailTyped /\ FaultTyped

LEMMA SeqDomain == ASSUME NEW S, NEW s \in Seq(S) PROVE DOMAIN s = 1 .. Len(s) /\ Len(s) \in Nat
OBVIOUS

LEMMA TypedTypeOK == Typed => TypeOK
<1> SUFFICES ASSUME Typed PROVE TypeOK
  OBVIOUS
<1>1. \A e \in EventId : DOMAIN call[e] = 1 .. Len(call[e])
                          /\ DOMAIN request[e] = 1 .. Len(request[e])
  BY SeqDomain DEF Typed, CallTyped
<1>2. /\ eventRun.pc \in {"idle", "scan", "alarms"}
      /\ patch.pc \in {"idle", "save"} /\ patch.count \in 0 .. MaxPatch
  BY DEF Typed, EventTyped, Idling, Scan, Copying, Patching
<1>3. alarmRun.pc \in {"idle", "send"} /\ mailRun.pc \in {"idle", "send"}
  BY DEF Typed, MailTyped, Idling, Sending, Mailing
<1>4. /\ requestRun.pc \in {"idle", "send", "save", "count"}
      /\ worker.pc \in {"idle", "save", "check", "retry", "sms"}
  BY DEF Typed, CallTyped, Idling, Requesting, Saving, Checking, Retrying, Failing
<1>5. QED
  BY <1>1, <1>2, <1>3, <1>4
  DEF Typed, EventTyped, AlarmTyped, CallTyped, MailTyped, FaultTyped, TypeOK, MailRow,
      NoticeMethod, NoticeState

LEMMA InitTyped == Init => Typed
<1> SUFFICES ASSUME Init PROVE Typed
  OBVIOUS
<1>1. 1 \in EventId /\ Idle \in Idling /\ Idle.pc = "idle"
  BY BoundAssumption DEF EventId, Idle, Idling
<1>2. NewAlarm \in AlarmRow /\ NoAlarm \in AlarmRow
  BY DEF NewAlarm, NoAlarm, AlarmRow, AlarmStatus
<1>3. NoEvent \in EventRow /\ [occ |-> 0, status |-> "PENDING"] \in EventRow
  BY BoundAssumption DEF NoEvent, EventRow
<1>4. EventTyped
  BY <1>1, <1>3, BoundAssumption DEF Init, EventTyped
<1>5. AlarmTyped
  BY <1>2 DEF Init, AlarmTyped
<1>6. CallTyped
  BY <1>1 DEF Init, CallTyped
<1>7. MailTyped
  BY <1>1 DEF Init, MailTyped, NoMail, MailRow, NoticeMethod, NoticeState
<1>8. QED
  BY <1>4, <1>5, <1>6, <1>7, BoundAssumption DEF Init, Typed, FaultTyped

(***************************************************************************)
(* Frames: a step that leaves a part alone keeps its type.                 *)
(***************************************************************************)
eventVars == <<event, eventRun, patch, clock, outages>>
callVars == <<request, call, failureSms, performs, requestRun, worker>>
mailVars == <<mail, notice, alarmRun, mailRun>>

LEMMA TypedFrame ==
  /\ EventTyped /\ UNCHANGED eventVars => EventTyped'
  /\ AlarmTyped /\ UNCHANGED alarm => AlarmTyped'
  /\ CallTyped /\ UNCHANGED callVars => CallTyped'
  /\ MailTyped /\ UNCHANGED mailVars => MailTyped'
  /\ FaultTyped /\ (UNCHANGED faults \/ Fault) => FaultTyped'
<1>1. EventTyped /\ UNCHANGED eventVars => EventTyped'
  BY DEF EventTyped, eventVars
<1>2. AlarmTyped /\ UNCHANGED alarm => AlarmTyped'
  BY DEF AlarmTyped
<1>3. CallTyped /\ UNCHANGED callVars => CallTyped'
  BY DEF CallTyped, callVars
<1>4. MailTyped /\ UNCHANGED mailVars => MailTyped'
  BY DEF MailTyped, mailVars
<1>5. FaultTyped /\ (UNCHANGED faults \/ Fault) => FaultTyped'
  BY BoundAssumption DEF FaultTyped, Fault
<1>6. QED
  BY <1>1, <1>2, <1>3, <1>4, <1>5

\* One alarm row written.
LEMMA AlarmWritten ==
  ASSUME AlarmTyped, NEW e \in EventId, NEW m \in Method, NEW row \in AlarmRow
  PROVE  LET new == [alarm EXCEPT ![e][m] = row] IN
         /\ new \in [EventId -> [Method -> AlarmRow]]
         /\ new[e][m] = row
         /\ \A f \in EventId, o \in Method : f # e \/ o # m => new[f][o] = alarm[f][o]
<1> DEFINE rows == [alarm[e] EXCEPT ![m] = row]
<1>1. rows \in [Method -> AlarmRow] /\ rows[m] = row
      /\ \A o \in Method \ {m} : rows[o] = alarm[e][o]
  BY DEF AlarmTyped
<1>2. [alarm EXCEPT ![e][m] = row] = [alarm EXCEPT ![e] = rows]
  OBVIOUS
<1> HIDE DEF rows
<1>3. QED
  BY <1>1, <1>2 DEF AlarmTyped

\* ... or another status of it.
LEMMA StatusWritten ==
  ASSUME AlarmTyped, NEW e \in EventId, NEW m \in Method, NEW st \in AlarmStatus,
         alarm' = [alarm EXCEPT ![e][m].status = st]
  PROVE  /\ AlarmTyped'
         /\ alarm'[e][m].status = st /\ alarm'[e][m].num_attempt = alarm[e][m].num_attempt
         /\ \A f \in EventId, o \in Method : f # e \/ o # m => alarm'[f][o] = alarm[f][o]
<1>1. PICK row \in AlarmRow : /\ row = [alarm[e][m] EXCEPT !.status = st]
                             /\ row.status = st /\ row.num_attempt = alarm[e][m].num_attempt
  BY DEF AlarmTyped, AlarmRow
<1>2. alarm' = [alarm EXCEPT ![e][m] = row]
  BY <1>1
<1>3. QED
  BY <1>1, <1>2, AlarmWritten DEF AlarmTyped

LEMMA RunKinds ==
  /\ EventTyped => /\ eventRun.pc = "idle" => eventRun \in Idling
                   /\ eventRun.pc = "scan" => eventRun \in Scan
                   /\ eventRun.pc = "alarms" => eventRun \in Copying
                   /\ patch.pc = "save" => patch \in Patching
                   /\ patch.count \in 0 .. MaxPatch
  /\ MailTyped => /\ alarmRun.pc = "send" => alarmRun \in Sending
                  /\ mailRun.pc = "send" => mailRun \in Mailing
  /\ CallTyped => /\ requestRun.pc # "idle" => requestRun \in Requesting
                  /\ worker.pc = "save" => worker \in Saving
                  /\ worker.pc = "check" => worker \in Checking
                  /\ worker.pc = "retry" => worker \in Retrying
                  /\ worker.pc = "sms" => worker \in Failing
<1>1. EventTyped => /\ eventRun.pc = "idle" => eventRun \in Idling
                    /\ eventRun.pc = "scan" => eventRun \in Scan
                    /\ eventRun.pc = "alarms" => eventRun \in Copying
  BY DEF EventTyped, Idling, Scan, Copying
<1>2. EventTyped => /\ patch.pc = "save" => patch \in Patching
                    /\ patch.count \in 0 .. MaxPatch
  BY DEF EventTyped, Patching
<1>3. MailTyped => /\ alarmRun.pc = "send" => alarmRun \in Sending
                   /\ mailRun.pc = "send" => mailRun \in Mailing
  BY DEF MailTyped, Idling, Sending, Mailing
<1>4. CallTyped => /\ requestRun.pc # "idle" => requestRun \in Requesting
                   /\ worker.pc = "save" => worker \in Saving
                   /\ worker.pc = "check" => worker \in Checking
                   /\ worker.pc = "retry" => worker \in Retrying
                   /\ worker.pc = "sms" => worker \in Failing
  BY DEF CallTyped, Idling, Requesting, Saving, Checking, Retrying, Failing
<1>5. QED
  BY <1>1, <1>2, <1>3, <1>4

LEMMA IdleTyped == Idle \in Idling /\ Idle.pc = "idle"
BY DEF Idle, Idling

\* One event saved with another status.
LEMMA EventWritten ==
  ASSUME EventTyped, NEW e \in EventId, NEW st \in {"PENDING", "COMPLETED", "PAUSED", "none"}
  PROVE  LET new == [event EXCEPT ![e].status = st] IN
         /\ new \in [EventId -> EventRow]
         /\ new[e].status = st
         /\ \A f \in EventId : new[f].occ = event[f].occ
         /\ \A f \in EventId \ {e} : new[f] = event[f]
<1> DEFINE row == [event[e] EXCEPT !.status = st]
<1>1. row \in EventRow /\ row.status = st /\ row.occ = event[e].occ
  BY DEF EventTyped, EventRow
<1>2. [event EXCEPT ![e].status = st] = [event EXCEPT ![e] = row]
  OBVIOUS
<1> HIDE DEF row
<1>3. QED
  BY <1>1, <1>2 DEF EventTyped

-----------------------------------------------------------------------------
(***************************************************************************)
(* Every step keeps the types.                                             *)
(***************************************************************************)
LEMMA TypedEventStep ==
  ASSUME Typed, EventStep
  PROVE  EventTyped' /\ AlarmTyped'
<1> USE DEF Typed
<1>1. CASE ListEvents
  <2>1. [pc |-> "scan", list |-> {e \in EventId : EventDue(e)}] \in Scan
    BY DEF Scan
  <2>2. EventTyped'
    BY <1>1, <2>1 DEF ListEvents, EventTyped, tables, queues, bounds
  <2>3. QED
    BY <1>1, <2>2, TypedFrame DEF ListEvents, tables
<1>2. ASSUME NEW e \in EventId, CopyEvent(e) PROVE EventTyped' /\ AlarmTyped'
  <2>1. PICK new \in EventId :
          /\ event' = [event EXCEPT ![new] = [occ |-> clock + 1, status |-> "PENDING"]]
          /\ eventRun' = [pc |-> "alarms", list |-> eventRun.list, e |-> e, new |-> new,
                          left |-> Method]
    BY <1>2 DEF CopyEvent
  <2>2. [occ |-> clock + 1, status |-> "PENDING"] \in EventRow
    BY <1>2, BoundAssumption DEF CopyEvent, HasNext, EventTyped, EventRow
  <2>3. event' \in [EventId -> EventRow]
    BY <2>1, <2>2 DEF EventTyped
  <2>4. eventRun' \in Copying
    BY <1>2, <2>1, RunKinds DEF CopyEvent, Scan, Copying
  <2>5. EventTyped'
    BY <1>2, <2>3, <2>4 DEF CopyEvent, EventTyped, queues, bounds
  <2>6. QED
    BY <1>2, <2>5, TypedFrame DEF CopyEvent
<1>3. ASSUME NEW m \in Method, CopyAlarm(m) PROVE EventTyped' /\ AlarmTyped'
  <2>1. eventRun \in Copying
    BY <1>3, RunKinds DEF CopyAlarm
  <2>2. [eventRun EXCEPT !.left = @ \ {m}] \in Copying
    BY <2>1 DEF Copying
  <2>3. EventTyped'
    BY <1>3, <2>2 DEF CopyAlarm, EventTyped, queues, bounds
  <2>4. [status |-> "PENDING", num_attempt |-> alarm[eventRun.e][m].num_attempt] \in AlarmRow
    BY <2>1 DEF AlarmTyped, AlarmRow, AlarmStatus, Copying
  <2>5. eventRun.new \in EventId
    BY <2>1 DEF Copying
  <2>6. AlarmTyped'
    BY <1>3, <2>4, <2>5, AlarmWritten DEF CopyAlarm, AlarmTyped
  <2>7. QED
    BY <2>3, <2>6
<1>4. ASSUME NEW e \in EventId, CompleteEvent(e) PROVE EventTyped' /\ AlarmTyped'
  <2>1. event' \in [EventId -> EventRow]
    BY <1>4, EventWritten DEF CompleteEvent
  <2>2. eventRun' \in Idling \cup Scan
    BY <1>4, RunKinds, IdleTyped DEF CompleteEvent, Scan, Copying
  <2>3. EventTyped'
    BY <1>4, <2>1, <2>2 DEF CompleteEvent, EventTyped, queues, bounds
  <2>4. QED
    BY <1>4, <2>3, TypedFrame DEF CompleteEvent
<1>5. QED
  BY <1>1, <1>2, <1>3, <1>4 DEF EventStep

LEMMA TypedPatch ==
  ASSUME Typed, (\E e \in EventId : ReadLastChild(e)) \/ SaveLastChild \/ Tick
  PROVE  EventTyped' /\ (UNCHANGED faults \/ Fault)
<1> USE DEF Typed
<1>1. ASSUME NEW e \in EventId, ReadLastChild(e) PROVE EventTyped' /\ UNCHANGED faults
  <2>1. PICK status \in {"PAUSED", "PENDING"} :
          patch' = [pc |-> "save", count |-> patch.count + 1, e |-> e, status |-> status,
                    row |-> event[e]]
    BY <1>1 DEF ReadLastChild
  <2>2. patch.count + 1 \in 0 .. MaxPatch
    BY <1>1, RunKinds, BoundAssumption DEF ReadLastChild
  <2>3. patch' \in Patching
    BY <2>1, <2>2 DEF Patching, EventTyped
  <2>4. QED
    BY <1>1, <2>3 DEF ReadLastChild, EventTyped, tables, runs, bounds
<1>2. CASE SaveLastChild
  <2>1. patch \in Patching
    BY <1>2, RunKinds DEF SaveLastChild
  <2>2. event' \in [EventId -> EventRow]
    BY <1>2, <2>1, EventWritten DEF SaveLastChild, Patching
  <2>3. patch' \in [pc : {"idle"}, count : 0 .. MaxPatch]
    BY <1>2, <2>1 DEF SaveLastChild, Patching
  <2>4. QED
    BY <1>2, <2>2, <2>3 DEF SaveLastChild, EventTyped, runs
<1>3. CASE Tick
  BY <1>3, BoundAssumption DEF Tick, EventTyped, tables, queues, runs
<1>4. QED
  BY <1>1, <1>2, <1>3

LEMMA TypedAlarmStep ==
  ASSUME Typed, AlarmStep
  PROVE  AlarmTyped' /\ CallTyped' /\ MailTyped'
<1> USE DEF Typed
<1>1. CASE SendPerform
  <2>1. alarmRun \in Sending
    BY <1>1, RunKinds DEF SendPerform
  <2>2. alarmRun' \in Idling
    BY <1>1, IdleTyped DEF SendPerform
  <2>3. CASE alarmRun.m = "CALL"
    <3>1. performs' = [performs EXCEPT ![alarmRun.e] = @ + 1] /\ notice' = notice
          /\ "CALL" \in Method
      BY <1>1, <2>1, <2>3 DEF SendPerform, Sending
    <3>2. CallTyped'
      BY <1>1, <2>1, <3>1 DEF SendPerform, CallTyped, tables, Sending
    <3>3. MailTyped'
      BY <1>1, <2>2, <3>1 DEF SendPerform, MailTyped, tables
    <3>4. QED
      BY <1>1, <3>2, <3>3, TypedFrame DEF SendPerform, tables
  <2>4. CASE alarmRun.m # "CALL"
    <3>1. notice' = [notice EXCEPT ![alarmRun.e][alarmRun.m] = "queued"] /\ performs' = performs
      BY <1>1, <2>4 DEF SendPerform
    <3>2. alarmRun.e \in EventId /\ alarmRun.m \in NoticeMethod
      BY <2>1, <2>4 DEF Sending, NoticeMethod
    <3>3. notice' \in [EventId -> [NoticeMethod -> NoticeState]]
      BY <3>1, <3>2 DEF MailTyped, NoticeState
    <3>4. MailTyped'
      BY <1>1, <2>2, <3>3 DEF SendPerform, MailTyped, tables
    <3>5. QED
      BY <1>1, <3>1, <3>4, TypedFrame DEF SendPerform, tables, callVars
  <2>5. QED
    BY <2>3, <2>4
<1>2. ASSUME NEW e \in EventId, NEW m \in Method, MarkAlarm(e, m)
      PROVE  AlarmTyped' /\ CallTyped' /\ MailTyped'
  <2>1. AlarmTyped'
    BY <1>2, StatusWritten DEF MarkAlarm, AlarmStatus
  <2>2. [pc |-> "send", e |-> e, m |-> m] \in Sending
    BY DEF Sending
  <2>3. MailTyped'
    BY <1>2, <2>2 DEF MarkAlarm, MailTyped, queues
  <2>4. QED
    BY <1>2, <2>1, <2>3, TypedFrame DEF MarkAlarm, callVars, queues
<1>3. QED
  BY <1>1, <1>2 DEF AlarmStep

\* What SendMail writes.
LEMMA MailWritten ==
  ASSUME MailTyped, NEW e \in EventId, SendMail(e)
  PROVE  \E row \in MailRow :
           /\ mail' = [mail EXCEPT ![e] = row]
           /\ row.status = mail[e].status
           /\ IF row.status = "IN_PROCESS"
              THEN row.task = "sending" /\ row.sent = mail[e].sent + 1
              ELSE row.task = "none" /\ row.sent = mail[e].sent
<1>1. CASE mail[e].status = "IN_PROCESS"
  <2> DEFINE n == mail[e].sent + 1
             row == [mail[e] EXCEPT !.task = "sending", !.sent = n]
  <2>1. n \in Nat
    BY DEF MailTyped, MailRow
  <2>2. mail' = [mail EXCEPT ![e] = row]
    BY <1>1 DEF SendMail, MailTyped
  <2> HIDE DEF n
  <2>3. row \in MailRow /\ row.status = mail[e].status /\ row.task = "sending" /\ row.sent = n
    BY <2>1 DEF MailTyped, MailRow
  <2> HIDE DEF row
  <2>4. QED
    BY <1>1, <2>2, <2>3 DEF n
<1>2. CASE mail[e].status # "IN_PROCESS"
  <2> DEFINE row == [mail[e] EXCEPT !.task = "none"]
  <2>1. mail' = [mail EXCEPT ![e] = row]
    BY <1>2 DEF SendMail
  <2>2. row \in MailRow /\ row.status = mail[e].status /\ row.task = "none" /\ row.sent = mail[e].sent
    BY DEF MailTyped, MailRow
  <2> HIDE DEF row
  <2>3. QED
    BY <1>2, <2>1, <2>2
<1>3. QED
  BY <1>1, <1>2

LEMMA TypedNotice ==
  ASSUME Typed, NoticeStep \/ MailStep
  PROVE  AlarmTyped' /\ MailTyped'
<1> USE DEF Typed
<1>1. ASSUME NEW e \in EventId, NEW m \in NoticeMethod, PerformNotice(e, m) \/ NoticeSaved(e, m)
      PROVE  AlarmTyped' /\ MailTyped'
  <2>1. notice' \in [EventId -> [NoticeMethod -> NoticeState]]
    BY <1>1 DEF PerformNotice, NoticeSaved, MailTyped, NoticeState
  <2>2. mail' \in [EventId -> MailRow]
    BY <1>1 DEF PerformNotice, NoticeSaved, MailTyped, MailRow
  <2>3. AlarmTyped'
    <3>1. m \in Method
      BY DEF NoticeMethod
    <3>2. CASE PerformNotice(e, m)
      BY <3>2, TypedFrame DEF PerformNotice
    <3>3. CASE NoticeSaved(e, m)
      BY <3>1, <3>3, StatusWritten DEF NoticeSaved, AlarmStatus
    <3>4. QED
      BY <1>1, <3>2, <3>3
  <2>4. MailTyped'
    BY <1>1, <2>1, <2>2 DEF PerformNotice, NoticeSaved, MailTyped, runs
  <2>5. QED
    BY <2>3, <2>4
<1>2. CASE SendMailTask
  <2>1. mailRun.e \in EventId
    BY <1>2, RunKinds DEF SendMailTask, Mailing
  <2>2. mail' \in [EventId -> MailRow]
    BY <1>2, <2>1 DEF SendMailTask, MailTyped, MailRow
  <2>3. QED
    BY <1>2, <2>2, IdleTyped, TypedFrame DEF SendMailTask, MailTyped, queues
<1>3. ASSUME NEW e \in EventId, MarkMail(e) PROVE AlarmTyped' /\ MailTyped'
  <2>1. mail' \in [EventId -> MailRow]
    BY <1>3 DEF MarkMail, MailTyped, MailRow
  <2>2. mailRun' \in Mailing
    BY <1>3 DEF MarkMail, Mailing
  <2>3. QED
    BY <1>3, <2>1, <2>2, TypedFrame DEF MarkMail, MailTyped, queues
<1>4. ASSUME NEW e \in EventId, SendMail(e) \/ MailSent(e) PROVE AlarmTyped' /\ MailTyped'
  <2>1. mail' \in [EventId -> MailRow]
    <3>1. CASE SendMail(e)
      BY <3>1, MailWritten DEF SendMail, MailTyped
    <3>2. CASE MailSent(e)
      <4> DEFINE row == [mail[e] EXCEPT !.status = "SENT", !.task = "none"]
      <4>1. row \in MailRow
        BY DEF MailTyped, MailRow
      <4>2. mail' = [mail EXCEPT ![e] = row]
        BY <3>2 DEF MailSent, MailTyped
      <4> HIDE DEF row
      <4>3. QED
        BY <4>1, <4>2 DEF MailTyped
    <3>3. QED
      BY <1>4, <3>1, <3>2
  <2>2. QED
    BY <1>4, <2>1, TypedFrame DEF SendMail, MailSent, MailTyped, queues, runs
<1>5. QED
  BY <1>1, <1>2, <1>3, <1>4 DEF NoticeStep, MailStep, NoticeMethod

\* One call, or one request, in another state.
LEMMA CallWritten ==
  ASSUME CallTyped, NEW e \in EventId, NEW c \in 1 .. Len(call[e]), NEW st \in CallState,
         SetCall(e, c, st)
  PROVE  /\ call' \in [EventId -> Seq(Call)]
         /\ \A f \in EventId : Len(call'[f]) = Len(call[f])
         /\ call'[e][c].state = st
         /\ \A f \in EventId : \A d \in 1 .. Len(call[f]) :
              /\ call'[f][d].request = call[f][d].request
              /\ f # e \/ d # c => call'[f][d] = call[f][d]
<1> DEFINE row == [call[e][c] EXCEPT !.state = st]
           s == [call[e] EXCEPT ![c] = row]
<1>1. call[e] \in Seq(Call) /\ call[e][c] \in Call
  BY ElementOfSeq DEF CallTyped
<1>2. row \in Call /\ row.state = st /\ row.request = call[e][c].request
  BY <1>1 DEF Call
<1>3. call' = [call EXCEPT ![e] = s]
  BY DEF SetCall
<1> HIDE DEF row
<1>4. /\ s \in Seq(Call) /\ Len(s) = Len(call[e])
      /\ \A d \in 1 .. Len(call[e]) : s[d] = IF d = c THEN row ELSE call[e][d]
  BY <1>1, <1>2, ExceptSeq
<1> HIDE DEF s
<1>5. QED
  BY <1>2, <1>3, <1>4 DEF CallTyped

LEMMA RequestWritten ==
  ASSUME CallTyped, NEW e \in EventId, NEW k \in 1 .. Len(request[e]), NEW st \in AlarmStatus,
         request' = [request EXCEPT ![e][k] = st]
  PROVE  /\ request' \in [EventId -> Seq(AlarmStatus)]
         /\ \A f \in EventId : Len(request'[f]) = Len(request[f])
         /\ request'[e][k] = st
         /\ \A f \in EventId : \A j \in 1 .. Len(request[f]) :
              f # e \/ j # k => request'[f][j] = request[f][j]
<1> DEFINE s == [request[e] EXCEPT ![k] = st]
<1>1. request[e] \in Seq(AlarmStatus)
  BY DEF CallTyped
<1>2. request' = [request EXCEPT ![e] = s]
  OBVIOUS
<1>3. /\ s \in Seq(AlarmStatus) /\ Len(s) = Len(request[e])
      /\ \A j \in 1 .. Len(request[e]) : s[j] = IF j = k THEN st ELSE request[e][j]
  BY <1>1, ExceptSeq
<1> HIDE DEF s
<1>4. QED
  BY <1>2, <1>3 DEF CallTyped

\* A step that moves a call or a request on and lengthens no list.
LEMMA CallTypedKept ==
  ASSUME CallTyped,
         call' \in [EventId -> Seq(Call)], request' \in [EventId -> Seq(AlarmStatus)],
         \A f \in EventId : Len(call'[f]) = Len(call[f]) /\ Len(request'[f]) = Len(request[f]),
         \A f \in EventId : \A d \in 1 .. Len(call[f]) :
           call'[f][d].request = call[f][d].request,
         failureSms' \in [EventId -> Nat], UNCHANGED performs,
         requestRun' \in Idling \cup Requesting,
         requestRun'.pc # "idle" => /\ requestRun'.k \in 1 .. Len(request[requestRun'.e])
                                    /\ requestRun'.c \in 1 .. Len(call[requestRun'.e]),
         worker' \in Idling \cup Saving \cup Checking \cup Retrying \cup Failing,
         worker'.pc \in {"save", "check"} => worker'.k \in 1 .. Len(request[worker'.e]),
         worker'.pc # "idle" => "CALL" \in Method
  PROVE  CallTyped'
<1>1. requestRun'.pc # "idle" => requestRun'.e \in EventId
  BY DEF Idling, Requesting
<1>2. worker'.pc # "idle" => worker'.e \in EventId
  BY DEF Idling, Saving, Checking, Retrying, Failing
<1>3. QED
  BY <1>1, <1>2 DEF CallTyped

LEMMA Callable ==
  ASSUME CallTyped
  PROVE  /\ \A e \in EventId : /\ DOMAIN call[e] = 1 .. Len(call[e])
                               /\ DOMAIN request[e] = 1 .. Len(request[e])
                               /\ Len(call[e]) \in Nat /\ Len(request[e]) \in Nat
                               /\ 1 .. Len(request[e]) # {} => "CALL" \in Method
                               /\ \A c \in 1 .. Len(call[e]) :
                                    /\ call[e][c] \in Call /\ "CALL" \in Method
                                    /\ call[e][c].request \in 1 .. Len(request[e])
         /\ requestRun.pc # "idle" => "CALL" \in Method
<1>1. ASSUME NEW e \in EventId
      PROVE  /\ DOMAIN call[e] = 1 .. Len(call[e])
             /\ DOMAIN request[e] = 1 .. Len(request[e])
             /\ Len(call[e]) \in Nat /\ Len(request[e]) \in Nat
             /\ 1 .. Len(request[e]) # {} => "CALL" \in Method
  BY SeqDomain DEF CallTyped
<1>2. ASSUME NEW e \in EventId, NEW c \in 1 .. Len(call[e])
      PROVE  /\ call[e][c] \in Call /\ "CALL" \in Method
             /\ call[e][c].request \in 1 .. Len(request[e])
  BY <1>1, ElementOfSeq DEF CallTyped
<1>3. requestRun.pc # "idle" => "CALL" \in Method
  BY <1>1 DEF CallTyped, Idling, Requesting
<1>4. QED
  BY <1>1, <1>2, <1>3

LEMMA TypedPerformCall ==
  ASSUME Typed, NEW e \in EventId, PerformCall(e)
  PROVE  CallTyped'
<1> USE DEF Typed
<1>1. request[e] \in Seq(AlarmStatus) /\ "PENDING" \in AlarmStatus
  BY DEF CallTyped, AlarmStatus
<1>2. request' = [request EXCEPT ![e] = Append(request[e], "PENDING")]
  BY DEF PerformCall
<1>3. /\ Append(request[e], "PENDING") \in Seq(AlarmStatus)
      /\ Len(Append(request[e], "PENDING")) = Len(request[e]) + 1
      /\ Len(request[e]) \in Nat
  BY <1>1
<1>4. /\ request' \in [EventId -> Seq(AlarmStatus)]
      /\ \A f \in EventId : 1 .. Len(request[f]) \subseteq 1 .. Len(request'[f])
      /\ \A f \in EventId \ {e} : request'[f] = request[f]
  BY <1>1, <1>2, <1>3 DEF CallTyped
<1>5. "CALL" \in Method /\ performs' \in [EventId -> Nat]
      /\ \A f \in EventId \ {e} : performs'[f] = performs[f]
  BY DEF PerformCall, CallTyped
<1>6. UNCHANGED <<call, failureSms, requestRun, worker>>
  BY DEF PerformCall, runs
<1>7. requestRun.pc # "idle" => requestRun.e \in EventId
  BY DEF CallTyped, Idling, Requesting
<1>8. worker.pc # "idle" => worker.e \in EventId
  BY DEF CallTyped, Idling, Saving, Checking, Retrying, Failing
<1>9. QED
  BY <1>4, <1>5, <1>6, <1>7, <1>8 DEF CallTyped

LEMMA TypedCreateCall ==
  ASSUME Typed, NEW e \in EventId, NEW k \in DOMAIN request[e], CreateCall(e, k)
  PROVE  CallTyped'
<1> USE DEF Typed
<1>1. k \in 1 .. Len(request[e]) /\ "CALL" \in Method /\ k \in Nat
  BY Callable
<1>2. PICK row \in Call : row.request = k /\ row.state = "created"
                           /\ call' = [call EXCEPT ![e] = Append(call[e], row)]
  <2>1. [request |-> k, state |-> "created"] \in Call
    BY <1>1 DEF Call, CallState
  <2>2. QED
    BY <2>1 DEF CreateCall
<1>3. /\ Append(call[e], row) \in Seq(Call) /\ Len(call[e]) \in Nat
      /\ Len(Append(call[e], row)) = Len(call[e]) + 1
      /\ \A d \in 1 .. Len(call[e]) : Append(call[e], row)[d] = call[e][d]
      /\ Append(call[e], row)[Len(call[e]) + 1] = row
  BY DEF CallTyped
<1>4. call' \in [EventId -> Seq(Call)] /\ call'[e] = Append(call[e], row)
      /\ \A f \in EventId \ {e} : call'[f] = call[f]
  BY <1>2, <1>3 DEF CallTyped
<1>5. \A f \in EventId : \A d \in 1 .. Len(call'[f]) :
        call'[f][d].request \in 1 .. Len(request[f])
  <2> TAKE f \in EventId
  <2>1. CASE f = e
    BY <1>1, <1>2, <1>3, <1>4, <2>1 DEF CallTyped
  <2>2. CASE f # e
    BY <1>4, <2>2 DEF CallTyped
  <2>3. QED
    BY <2>1, <2>2
<1>6. requestRun' \in Requesting /\ requestRun'.e = e /\ requestRun'.k = k
      /\ requestRun'.c = Len(call[e]) + 1
  BY <1>1, <1>3 DEF CreateCall, Requesting, AlarmTyped
<1>7. requestRun'.c \in 1 .. Len(call'[e])
  BY <1>3, <1>4, <1>6
<1>8. UNCHANGED <<request, failureSms, performs, worker>>
  BY DEF CreateCall, queues
<1>9. QED
  BY <1>1, <1>4, <1>5, <1>6, <1>7, <1>8 DEF CallTyped

LEMMA TypedSendInit ==
  ASSUME Typed, SendInit
  PROVE  CallTyped'
<1> USE DEF Typed
<1>1. requestRun \in Requesting /\ requestRun.k \in 1 .. Len(request[requestRun.e])
      /\ requestRun.c \in 1 .. Len(call[requestRun.e])
  BY RunKinds DEF SendInit, CallTyped
<1>2. PICK e \in EventId : e = requestRun.e
  BY <1>1 DEF Requesting
<1>3. PICK c \in 1 .. Len(call[e]) : c = requestRun.c
  BY <1>1, <1>2
<1>4. SetCall(e, c, "queued")
  BY <1>2, <1>3 DEF SendInit, SetCall
<1>5. "queued" \in CallState
  BY DEF CallState
<1>6. /\ call' \in [EventId -> Seq(Call)]
      /\ \A f \in EventId : Len(call'[f]) = Len(call[f])
      /\ \A f \in EventId : \A d \in 1 .. Len(call[f]) :
           call'[f][d].request = call[f][d].request
  BY <1>4, <1>5, CallWritten
<1>7. requestRun' \in Requesting /\ requestRun'.e = requestRun.e /\ requestRun'.k = requestRun.k
      /\ requestRun'.c = requestRun.c
  BY <1>1 DEF SendInit, Requesting
<1>8. UNCHANGED <<request, failureSms, performs, worker>>
  BY DEF SendInit, queues
<1>5a. request' \in [EventId -> Seq(AlarmStatus)] /\ \A f \in EventId : Len(request'[f]) = Len(request[f])
  BY <1>8 DEF CallTyped
<1>9. /\ failureSms' \in [EventId -> Nat]
      /\ requestRun' \in Idling \cup Requesting
      /\ requestRun'.k \in 1 .. Len(request[requestRun'.e])
      /\ requestRun'.c \in 1 .. Len(call[requestRun'.e])
      /\ worker' \in Idling \cup Saving \cup Checking \cup Retrying \cup Failing
      /\ worker'.pc \in {"save", "check"} => worker'.k \in 1 .. Len(request[worker'.e])
      /\ worker'.pc # "idle" => "CALL" \in Method
  BY <1>1, <1>7, <1>8 DEF CallTyped
<1>10. QED
  BY <1>5a, <1>6, <1>8, <1>9, CallTypedKept

LEMMA TypedSaveRequest ==
  ASSUME Typed, SaveRequest
  PROVE  CallTyped'
<1> USE DEF Typed
<1>1. requestRun \in Requesting /\ requestRun.k \in 1 .. Len(request[requestRun.e])
      /\ requestRun.c \in 1 .. Len(call[requestRun.e])
  BY RunKinds DEF SaveRequest, CallTyped
<1>2. PICK e \in EventId : e = requestRun.e
  BY <1>1 DEF Requesting
<1>3. PICK k \in 1 .. Len(request[e]) : k = requestRun.k
  BY <1>1, <1>2
<1>4. request' = [request EXCEPT ![e][k] = "IN_PROCESS"] /\ "IN_PROCESS" \in AlarmStatus
  BY <1>2, <1>3 DEF SaveRequest, AlarmStatus
<1>6. /\ request' \in [EventId -> Seq(AlarmStatus)]
      /\ \A f \in EventId : Len(request'[f]) = Len(request[f])
  BY <1>4, RequestWritten
<1>7. requestRun' \in Requesting /\ requestRun'.e = requestRun.e /\ requestRun'.k = requestRun.k
      /\ requestRun'.c = requestRun.c
  BY <1>1 DEF SaveRequest, Requesting
<1>8. UNCHANGED <<call, failureSms, performs, worker>>
  BY DEF SaveRequest, queues
<1>5. /\ call \in [EventId -> Seq(Call)] /\ call' = call
      /\ \A f \in EventId : \A d \in 1 .. Len(call[f]) : call'[f][d].request = call[f][d].request
      /\ \A f \in EventId : Len(call'[f]) = Len(call[f])
  BY <1>8 DEF CallTyped
<1>9. /\ failureSms' \in [EventId -> Nat]
      /\ requestRun' \in Idling \cup Requesting
      /\ requestRun'.k \in 1 .. Len(request[requestRun'.e])
      /\ requestRun'.c \in 1 .. Len(call[requestRun'.e])
      /\ worker' \in Idling \cup Saving \cup Checking \cup Retrying \cup Failing
      /\ worker'.pc \in {"save", "check"} => worker'.k \in 1 .. Len(request[worker'.e])
      /\ worker'.pc # "idle" => "CALL" \in Method
  BY <1>1, <1>7, <1>8 DEF CallTyped
<1>10. QED
  BY <1>5, <1>6, <1>8, <1>9, CallTypedKept

LEMMA TypedCountAttempt ==
  ASSUME Typed, CountAttempt
  PROVE  AlarmTyped' /\ CallTyped'
<1> USE DEF Typed
<1>1. requestRun \in Requesting /\ "CALL" \in Method
  BY RunKinds, Callable DEF CountAttempt
<1>2. requestRun.e \in EventId /\ [requestRun.row EXCEPT !.num_attempt = @ + 1] \in AlarmRow
  BY <1>1 DEF Requesting, AlarmRow
<1>3. AlarmTyped'
  BY <1>1, <1>2, AlarmWritten DEF CountAttempt, AlarmTyped
<1>4. requestRun' \in Idling /\ requestRun'.pc = "idle"
  BY IdleTyped DEF CountAttempt
<1>5. UNCHANGED <<request, call, failureSms, performs, worker>>
  BY DEF CountAttempt, queues
<1>6. CallTyped'
  BY <1>4, <1>5 DEF CallTyped
<1>7. QED
  BY <1>3, <1>6

LEMMA TypedCall ==
  ASSUME Typed, NEW e \in EventId, NEW c \in DOMAIN call[e],
         InitCall(e, c) \/ EndCall(e, c) \/ LoseReport(e, c) \/ TakeReport(e, c)
  PROVE  CallTyped' /\ (UNCHANGED faults \/ Fault)
<1> USE DEF Typed
<1>1. c \in 1 .. Len(call[e]) /\ "CALL" \in Method /\ call[e][c] \in Call
      /\ call[e][c].request \in 1 .. Len(request[e])
  BY Callable
<1>2. /\ call' \in [EventId -> Seq(Call)]
      /\ \A f \in EventId : Len(call'[f]) = Len(call[f])
      /\ \A f \in EventId : \A d \in 1 .. Len(call[f]) :
           call'[f][d].request = call[f][d].request
  <2>1. CASE UNCHANGED call
    BY <2>1 DEF CallTyped
  <2>2. ASSUME NEW st \in CallState, SetCall(e, c, st)
        PROVE  /\ call' \in [EventId -> Seq(Call)]
               /\ \A f \in EventId : Len(call'[f]) = Len(call[f])
               /\ \A f \in EventId : \A d \in 1 .. Len(call[f]) :
                    call'[f][d].request = call[f][d].request
    BY <1>1, <2>2, CallWritten
  <2>3. UNCHANGED call \/ \E st \in CallState : SetCall(e, c, st)
    BY DEF InitCall, EndCall, LoseReport, TakeReport, CallState
  <2>4. QED
    BY <2>1, <2>2, <2>3
<1>3. UNCHANGED <<request, failureSms, performs, requestRun>>
  BY DEF InitCall, EndCall, LoseReport, TakeReport, queues, runs
<1>4. /\ worker' \in Idling \cup Saving \cup Checking \cup Retrying \cup Failing
      /\ worker'.pc \in {"save", "check"} => worker'.k \in 1 .. Len(request[worker'.e])
  <2>1. CASE UNCHANGED worker
    BY <2>1 DEF CallTyped
  <2>2. CASE worker' = Task("check", e, c)
    <3>1. worker' \in Checking /\ worker'.e = e /\ worker'.k = call[e][c].request
      BY <1>1, <2>2 DEF Task, Checking, Call
    <3>2. QED
      BY <1>1, <3>1
  <2>3. CASE TakeReport(e, c)
    <3>1. worker' \in Saving /\ worker'.e = e /\ worker'.k = call[e][c].request
      BY <1>1, <2>3 DEF TakeReport, Saving, Call, AlarmTyped
    <3>2. QED
      BY <1>1, <3>1
  <2>4. QED
    BY <2>1, <2>2, <2>3 DEF InitCall, EndCall, LoseReport, runs
<1>5. CallTyped'
  <2>1. /\ request' \in [EventId -> Seq(AlarmStatus)]
        /\ \A f \in EventId : Len(request'[f]) = Len(request[f])
        /\ failureSms' \in [EventId -> Nat]
        /\ requestRun' \in Idling \cup Requesting
        /\ requestRun'.pc # "idle" => /\ requestRun'.k \in 1 .. Len(request[requestRun'.e])
                                      /\ requestRun'.c \in 1 .. Len(call[requestRun'.e])
    BY <1>3 DEF CallTyped
  <2>2. QED
    BY <1>1, <1>2, <1>3, <1>4, <2>1, CallTypedKept
<1>6. UNCHANGED faults \/ Fault
  BY DEF InitCall, EndCall, LoseReport, TakeReport, Timing, bounds
<1>7. QED
  BY <1>5, <1>6

LEMMA TypedWorker ==
  ASSUME Typed, SaveOutcome \/ CheckRetry \/ RetryAlarm \/ SendFailureSms
  PROVE  AlarmTyped' /\ CallTyped'
<1> USE DEF Typed
<1>1. CASE SaveOutcome \/ CheckRetry
  <2>1. worker \in Saving \cup Checking /\ worker.k \in 1 .. Len(request[worker.e])
        /\ "CALL" \in Method
    BY <1>1, RunKinds DEF SaveOutcome, CheckRetry, CallTyped
  <2>2. PICK e \in EventId : e = worker.e
    BY <2>1 DEF Saving, Checking
  <2>3. PICK k \in 1 .. Len(request[e]) : k = worker.k
    BY <2>1, <2>2
  <2>4. PICK st \in AlarmStatus :
          /\ request' = [request EXCEPT ![e][k] = st]
          /\ \E row \in AlarmRow : alarm' = [alarm EXCEPT ![e]["CALL"] = row]
    <3>1. CASE SaveOutcome
      <4>1. worker.row \in AlarmRow
        BY <3>1, RunKinds DEF SaveOutcome, Saving
      <4>2. \A st \in AlarmStatus : [worker.row EXCEPT !.status = st] \in AlarmRow
        BY <4>1 DEF AlarmRow
      <4>3. QED
        BY <2>2, <2>3, <3>1, <4>2 DEF SaveOutcome, AlarmStatus
    <3>2. CASE CheckRetry
      <4>1. \A st \in AlarmStatus : [alarm[e]["CALL"] EXCEPT !.status = st] \in AlarmRow
        <5>1. alarm[e]["CALL"] \in AlarmRow
          BY <2>1 DEF AlarmTyped
        <5>2. QED
          BY <5>1 DEF AlarmRow
      <4>2. PICK st \in AlarmStatus :
              /\ request' = [request EXCEPT ![e][k] = st]
              /\ alarm' = [alarm EXCEPT ![e]["CALL"].status = st]
        BY <2>2, <2>3, <3>2 DEF CheckRetry, AlarmStatus
      <4>3. alarm' = [alarm EXCEPT ![e]["CALL"] = [alarm[e]["CALL"] EXCEPT !.status = st]]
        BY <4>2
      <4>4. QED
        BY <4>1, <4>2, <4>3
    <3>3. QED
      BY <1>1, <3>1, <3>2
  <2>5. AlarmTyped' /\ alarm'[e]["CALL"] \in AlarmRow
    BY <2>1, <2>4, AlarmWritten DEF AlarmTyped
  <2>6. /\ request' \in [EventId -> Seq(AlarmStatus)]
        /\ \A f \in EventId : Len(request'[f]) = Len(request[f])
    BY <2>4, RequestWritten
  <2>7. /\ worker' \in Idling \cup Checking \cup Retrying \cup Failing
        /\ worker'.pc = "check" => worker'.e = e /\ worker'.k = k
    <3>1. k \in Nat
      OBVIOUS
    <3>2. CASE SaveOutcome
      <4>1. CASE worker.outcome = "answered"
        BY <3>2, <4>1, IdleTyped DEF SaveOutcome
      <4>2. CASE worker.outcome # "answered"
        BY <2>2, <2>3, <3>1, <3>2, <4>2 DEF SaveOutcome, Checking
      <4>3. QED
        BY <4>1, <4>2
    <3>3. CASE CheckRetry
      <4>1. CASE MayRetry(worker.e)
        BY <2>2, <2>5, <3>3, <4>1 DEF CheckRetry, Retrying
      <4>2. CASE ~MayRetry(worker.e)
        BY <2>2, <3>3, <4>2 DEF CheckRetry, Failing
      <4>3. QED
        BY <4>1, <4>2
    <3>4. QED
      BY <1>1, <3>2, <3>3
  <2>8. worker'.pc # "save"
    BY <2>7 DEF Idling, Checking, Retrying, Failing
  <2>9. UNCHANGED <<call, failureSms, performs, requestRun>>
    BY <1>1 DEF SaveOutcome, CheckRetry, queues
  <2>10. CallTyped'
    <3>1. /\ call' \in [EventId -> Seq(Call)]
          /\ \A f \in EventId : Len(call'[f]) = Len(call[f])
          /\ \A f \in EventId : \A d \in 1 .. Len(call[f]) :
               call'[f][d].request = call[f][d].request
          /\ failureSms' \in [EventId -> Nat]
          /\ requestRun' \in Idling \cup Requesting
          /\ requestRun'.pc # "idle" => /\ requestRun'.k \in 1 .. Len(request[requestRun'.e])
                                        /\ requestRun'.c \in 1 .. Len(call[requestRun'.e])
      BY <2>9 DEF CallTyped
    <3>2. worker'.pc \in {"save", "check"} => worker'.k \in 1 .. Len(request[worker'.e])
      BY <2>7, <2>8
    <3>3. QED
      BY <2>1, <2>6, <2>7, <2>9, <3>1, <3>2, CallTypedKept
  <2>11. QED
    BY <2>5, <2>10
<1>2. CASE RetryAlarm
  <2>1. worker \in Retrying /\ "CALL" \in Method
    BY <1>2, RunKinds DEF RetryAlarm, CallTyped
  <2>2. worker.e \in EventId /\ [worker.row EXCEPT !.status = "IN_PROCESS"] \in AlarmRow
    BY <2>1 DEF Retrying, AlarmRow, AlarmStatus
  <2>3. AlarmTyped'
    BY <1>2, <2>1, <2>2, AlarmWritten DEF RetryAlarm, AlarmTyped
  <2>4. performs' \in [EventId -> Nat]
    BY <1>2, <2>2 DEF RetryAlarm, CallTyped
  <2>5. CallTyped'
    BY <1>2, <2>1, <2>4, IdleTyped DEF RetryAlarm, CallTyped
  <2>6. QED
    BY <2>3, <2>5
<1>3. CASE SendFailureSms
  <2>1. worker \in Failing
    BY <1>3, RunKinds DEF SendFailureSms
  <2>2. failureSms' \in [EventId -> Nat]
    BY <1>3, <2>1 DEF SendFailureSms, CallTyped, Failing
  <2>3. CallTyped'
    BY <1>3, <2>2, IdleTyped DEF SendFailureSms, CallTyped, queues
  <2>4. QED
    BY <1>3, <2>3, TypedFrame DEF SendFailureSms
<1>4. QED
  BY <1>1, <1>2, <1>3

LEMMA TypedDie ==
  ASSUME Typed, Die
  PROVE  Typed'
<1> USE DEF Typed
<1>1. UNCHANGED <<event, alarm, request, call, failureSms, clock, outages, performs, patch>> /\ Fault
  BY DEF Die, queues
<1>2. Idle \in Idling /\ Idle.pc = "idle"
  BY IdleTyped
<1>3. EventTyped'
  <2>1. UNCHANGED eventRun \/ eventRun' = Idle
    BY DEF Die, runs
  <2>2. QED
    BY <1>1, <1>2, <2>1 DEF EventTyped
<1>4. CallTyped'
  <2>1. UNCHANGED requestRun \/ requestRun' = Idle
    BY DEF Die, runs
  <2>2. UNCHANGED worker \/ worker' = Idle
    BY DEF Die, runs
  <2>3. QED
    BY <1>1, <1>2, <2>1, <2>2 DEF CallTyped
<1>5. MailTyped'
  <2>1. /\ UNCHANGED alarmRun \/ alarmRun' = Idle
        /\ UNCHANGED mailRun \/ mailRun' = Idle
    BY DEF Die, runs
  <2>2. mail' \in [EventId -> MailRow]
    <3>1. UNCHANGED mail \/ \E e \in EventId : mail' = [mail EXCEPT ![e].task = "none"]
      BY DEF Die
    <3>2. QED
      BY <3>1 DEF MailTyped, MailRow
  <2>3. notice' \in [EventId -> [NoticeMethod -> NoticeState]]
    <3>1. UNCHANGED notice
            \/ \E e \in EventId, m \in NoticeMethod : notice' = [notice EXCEPT ![e][m] = "none"]
      BY DEF Die, queues, NoticeMethod
    <3>2. QED
      BY <3>1 DEF MailTyped, NoticeState
  <2>4. QED
    BY <1>2, <2>1, <2>2, <2>3 DEF MailTyped
<1>6. QED
  BY <1>1, <1>3, <1>4, <1>5, TypedFrame

LEMMA TypedStep == Typed /\ [Next]_vars => Typed'
<1> SUFFICES ASSUME Typed, [Next]_vars PROVE Typed'
  OBVIOUS
<1> USE TypedFrame DEF Typed
<1>1. CASE EventStep
  <2>1. UNCHANGED callVars /\ UNCHANGED mailVars /\ UNCHANGED faults
    BY <1>1 DEF EventStep, ListEvents, CopyEvent, CompleteEvent, CopyAlarm, callVars, mailVars,
                tables, queues, bounds
  <2>2. QED
    BY <1>1, <2>1, TypedEventStep
<1>2. CASE (\E e \in EventId : ReadLastChild(e)) \/ SaveLastChild \/ Tick
  <2>1. UNCHANGED callVars /\ UNCHANGED mailVars /\ UNCHANGED alarm
    BY <1>2 DEF ReadLastChild, SaveLastChild, Tick, callVars, mailVars, tables, runs, queues
  <2>2. QED
    BY <1>2, <2>1, TypedPatch
<1>3. CASE AlarmStep
  <2>1. UNCHANGED eventVars /\ UNCHANGED faults
    BY <1>3 DEF AlarmStep, SendPerform, MarkAlarm, eventVars, tables, queues, bounds
  <2>2. QED
    BY <1>3, <2>1, TypedAlarmStep
<1>4. CASE NoticeStep \/ MailStep
  <2>1. UNCHANGED eventVars /\ UNCHANGED faults /\ UNCHANGED callVars
    BY <1>4 DEF NoticeStep, MailStep, PerformNotice, NoticeSaved, SendMailTask, MarkMail, SendMail,
                MailSent, eventVars, callVars, queues, runs, bounds
  <2>2. QED
    BY <1>4, <2>1, TypedNotice
<1>5. CASE RequestStep
  <2>1. UNCHANGED eventVars /\ UNCHANGED faults /\ UNCHANGED mailVars
    BY <1>5 DEF RequestStep, SendInit, SaveRequest, CountAttempt, CreateCall, eventVars, mailVars,
                queues, bounds
  <2>2. AlarmTyped' /\ CallTyped'
    <3>1. CASE CountAttempt
      BY <3>1, TypedCountAttempt
    <3>2. CASE SendInit \/ SaveRequest
      BY <3>2, TypedSendInit, TypedSaveRequest DEF SendInit, SaveRequest
    <3>3. ASSUME NEW e \in EventId, NEW k \in DOMAIN request[e], CreateCall(e, k)
          PROVE  AlarmTyped' /\ CallTyped'
      BY <3>3, TypedCreateCall DEF CreateCall
    <3>4. QED
      BY <1>5, <3>1, <3>2, <3>3 DEF RequestStep
  <2>3. QED
    BY <2>1, <2>2
<1>6. ASSUME NEW e \in EventId, PerformCall(e) PROVE Typed'
  <2>1. UNCHANGED eventVars /\ UNCHANGED faults /\ UNCHANGED mailVars /\ UNCHANGED alarm
    BY <1>6 DEF PerformCall, eventVars, mailVars, runs, bounds
  <2>2. QED
    BY <1>6, <2>1, TypedPerformCall
<1>7. ASSUME NEW e \in EventId, NEW c \in DOMAIN call[e],
             InitCall(e, c) \/ EndCall(e, c) \/ LoseReport(e, c) \/ TakeReport(e, c)
      PROVE  Typed'
  <2>1. UNCHANGED eventVars /\ UNCHANGED mailVars /\ UNCHANGED alarm
    BY <1>7 DEF InitCall, EndCall, LoseReport, TakeReport, eventVars, mailVars, runs, queues, bounds
  <2>2. QED
    BY <1>7, <2>1, TypedCall
<1>8. CASE SaveOutcome \/ CheckRetry \/ RetryAlarm \/ SendFailureSms
  <2>1. UNCHANGED eventVars /\ UNCHANGED faults /\ UNCHANGED mailVars
    BY <1>8 DEF SaveOutcome, CheckRetry, RetryAlarm, SendFailureSms, eventVars, mailVars, queues,
                bounds
  <2>2. QED
    BY <1>8, <2>1, TypedWorker
<1>9. CASE Die
  BY <1>9, TypedDie
<1>10. CASE UNCHANGED vars
  BY <1>10 DEF vars, tables, queues, runs, bounds, eventVars, callVars, mailVars
<1>11. QED
  BY <1>1, <1>2, <1>3, <1>4, <1>5, <1>6, <1>7, <1>8, <1>9, <1>10
  DEF Next, CallStep, WorkerStep

LEMMA AlwaysTyped == Spec => []Typed
<1>1. Init => Typed
  BY InitTyped
<1>2. Typed /\ [Next]_vars => Typed'
  BY TypedStep
<1>3. QED
  BY <1>1, <1>2, PTL DEF Spec

\* Every row, message and task is well-formed, and a call belongs to a request of its
\* event, whatever fails: the tables of the appointment app.
THEOREM AlarmTypeCorrect == Spec => []TypeOK
<1>1. Typed => TypeOK
  BY TypedTypeOK
<1>2. QED
  BY <1>1, AlwaysTyped, PTL

-----------------------------------------------------------------------------
(***************************************************************************)
(* An e-mail leaves once, whatever Env.                                    *)
(***************************************************************************)
Sends(e, m) == alarmRun.pc = "send" /\ alarmRun.e = e /\ alarmRun.m = m
Posts(e) == mailRun.pc = "send" /\ mailRun.e = e

\* Who holds the e-mail of an event: its alarm, the perform_alarm, the spooler or the task.
Posted(e) ==
  /\ ~Exists(e) => alarm[e]["EMAIL"].status = "none"
  /\ alarm[e]["EMAIL"].status \in {"none", "PENDING"} =>
       mail[e] = NoMail /\ notice[e]["EMAIL"] = "none" /\ ~Sends(e, "EMAIL")
  /\ Sends(e, "EMAIL") => mail[e] = NoMail /\ notice[e]["EMAIL"] = "none"
  /\ notice[e]["EMAIL"] = "queued" => mail[e] = NoMail
  /\ mail[e].status = "none" => mail[e] = NoMail
  /\ mail[e].status = "PENDING" => mail[e].task = "none" /\ mail[e].sent = 0
  /\ mail[e].task # "none" => mail[e].status = "IN_PROCESS"
  /\ Posts(e) => mail[e].status = "IN_PROCESS" /\ mail[e].task = "none" /\ mail[e].sent = 0
  /\ mail[e].task = "queued" => mail[e].sent = 0
  /\ mail[e].sent <= 1

\* The alarms of the copy are still to be written.
CopyClean(m) ==
  eventRun.pc = "alarms" =>
    /\ Exists(eventRun.new)
    /\ m \in eventRun.left => alarm[eventRun.new][m].status = "none"

MailInv ==
  IF "EMAIL" \in Method THEN CopyClean("EMAIL") /\ \A e \in EventId : Posted(e)
  ELSE mailRun.pc = "idle" /\ \A e \in EventId : mail[e] = NoMail

LEMMA InitMail == Init => MailInv
<1> SUFFICES ASSUME Init PROVE MailInv
  OBVIOUS
<1>1. CopyClean("EMAIL") /\ mailRun.pc = "idle" /\ alarmRun.pc = "idle"
  BY DEF Init, Idle, CopyClean
<1>2. ASSUME "EMAIL" \in Method, NEW e \in EventId PROVE Posted(e)
  <2>1. mail[e] = NoMail /\ notice[e]["EMAIL"] = "none"
    BY <1>2 DEF Init
  <2>2. ~Exists(e) => alarm[e]["EMAIL"].status = "none"
    BY <1>2 DEF Init, Exists, NoAlarm
  <2>3. QED
    BY <1>1, <2>1, <2>2 DEF Posted, NoMail, Sends, Posts
<1>3. QED
  BY <1>1, <1>2 DEF MailInv, Init

\* A step that does not touch the e-mail.
LEMMA PostedFrame ==
  ASSUME NEW e \in EventId, Posted(e), Exists(e) => Exists(e)',
         alarm'[e]["EMAIL"] = alarm[e]["EMAIL"], mail'[e] = mail[e],
         notice'[e]["EMAIL"] = notice[e]["EMAIL"],
         Sends(e, "EMAIL")' => Sends(e, "EMAIL"), Posts(e)' => Posts(e)
  PROVE  Posted(e)'
BY DEF Posted

\* The steps of the calendar.
LEMMA CalendarStep ==
  ASSUME [Next]_vars
  PROVE  \/ UNCHANGED eventVars
         \/ ListEvents
         \/ \E e \in EventId : CopyEvent(e)
         \/ \E e \in EventId : CompleteEvent(e)
         \/ \E m \in Method : CopyAlarm(m)
         \/ \E e \in EventId : ReadLastChild(e)
         \/ SaveLastChild
         \/ Tick
         \/ eventRun' = Idle /\ UNCHANGED <<event, patch, clock, outages>> /\ Fault
BY DEF Next, EventStep, AlarmStep, SendPerform,
       MarkAlarm, RequestStep, SendInit, SaveRequest, CountAttempt, CreateCall, NoticeStep,
       PerformNotice, NoticeSaved, MailStep, SendMailTask, MarkMail, SendMail, MailSent, CallStep,
       EndCall, WorkerStep, SaveOutcome, CheckRetry, RetryAlarm, SendFailureSms, InitCall,
       TakeReport, PerformCall, LoseReport, Die, bounds, vars, eventVars, tables, queues, runs

\* What is written to the alarm of a call leaves the others alone.
LEMMA CallRowWritten ==
  ASSUME Typed, CountAttempt \/ SaveOutcome \/ CheckRetry \/ RetryAlarm
  PROVE  \E e \in EventId, row \in AlarmRow :
           /\ alarm' = [alarm EXCEPT ![e]["CALL"] = row]
           /\ alarm'[e]["CALL"] = row /\ "CALL" \in Method
           /\ \A f \in EventId, o \in Method :
                f # e \/ o # "CALL" => alarm'[f][o] = alarm[f][o]
<1>1. \A row \in AlarmRow, st \in AlarmStatus :
        [row EXCEPT !.status = st] \in AlarmRow /\ [row EXCEPT !.num_attempt = @ + 1] \in AlarmRow
  BY DEF AlarmRow
<1>2. "CALL" \in Method
  BY RunKinds, Callable
  DEF Typed, CallTyped, CountAttempt, SaveOutcome, CheckRetry, RetryAlarm
<1>3. \E e \in EventId, row \in AlarmRow : alarm' = [alarm EXCEPT ![e]["CALL"] = row]
  <2>1. CASE CountAttempt
    BY <1>1, <2>1, RunKinds DEF Typed, CountAttempt, Requesting, AlarmStatus
  <2>2. CASE SaveOutcome
    BY <1>1, <2>2, RunKinds DEF Typed, SaveOutcome, Saving, AlarmStatus
  <2>3. CASE CheckRetry
    <3>1. worker.e \in EventId
      BY <2>3, RunKinds DEF Typed, CheckRetry, Checking
    <3>2. PICK st \in AlarmStatus : alarm' = [alarm EXCEPT ![worker.e]["CALL"].status = st]
      BY <2>3 DEF CheckRetry, AlarmStatus
    <3>3. alarm' = [alarm EXCEPT ![worker.e]["CALL"] = [alarm[worker.e]["CALL"] EXCEPT !.status = st]]
      BY <3>2
    <3>4. alarm[worker.e]["CALL"] \in AlarmRow
      BY <1>2, <3>1 DEF Typed, AlarmTyped
    <3>5. QED
      BY <1>1, <3>1, <3>3, <3>4
  <2>4. CASE RetryAlarm
    BY <1>1, <2>4, RunKinds DEF Typed, RetryAlarm, Retrying, AlarmStatus
  <2>5. QED
    BY <2>1, <2>2, <2>3, <2>4
<1>4. PICK e \in EventId, row \in AlarmRow : alarm' = [alarm EXCEPT ![e]["CALL"] = row]
  BY <1>3
<1>5. /\ alarm'[e]["CALL"] = row
      /\ \A f \in EventId, o \in Method : f # e \/ o # "CALL" => alarm'[f][o] = alarm[f][o]
  BY <1>2, <1>4, AlarmWritten DEF Typed
<1>6. QED
  BY <1>2, <1>4, <1>5

\* No event is deleted.
LEMMA ExistsKept ==
  ASSUME Typed, [Next]_vars
  PROVE  \A e \in EventId : Exists(e) => Exists(e)'
<1> USE DEF Typed
<1>1. CASE UNCHANGED event
  BY <1>1 DEF Exists
<1>2. ASSUME NEW e \in EventId, CopyEvent(e) PROVE \A f \in EventId : Exists(f) => Exists(f)'
  <2>1. PICK new \in EventId :
          ~Exists(new) /\ event' = [event EXCEPT ![new] = [occ |-> clock + 1, status |-> "PENDING"]]
    BY <1>2 DEF CopyEvent
  <2>2. \A f \in EventId : f # new => event'[f] = event[f]
    BY <2>1 DEF EventTyped
  <2>3. QED
    BY <2>1, <2>2 DEF Exists
<1>3. ASSUME NEW e \in EventId, CompleteEvent(e) PROVE \A f \in EventId : Exists(f) => Exists(f)'
  BY <1>3, EventWritten DEF CompleteEvent, Exists
<1>4. CASE SaveLastChild
  <2>1. patch.e \in EventId /\ patch.status \in {"PENDING", "PAUSED"}
    BY <1>4, RunKinds DEF SaveLastChild, Patching
  <2>2. QED
    BY <1>4, <2>1, EventWritten DEF SaveLastChild, Exists
<1>5. UNCHANGED event \/ (\E e \in EventId : CopyEvent(e) \/ CompleteEvent(e)) \/ SaveLastChild
  BY DEF Next, EventStep, ListEvents, CopyAlarm, AlarmStep, SendPerform, MarkAlarm, RequestStep,
         SendInit, SaveRequest, CountAttempt, CreateCall, NoticeStep, PerformNotice, NoticeSaved,
         MailStep, SendMailTask, MarkMail, SendMail, MailSent, CallStep, EndCall, WorkerStep,
         SaveOutcome, CheckRetry, RetryAlarm, SendFailureSms, InitCall, TakeReport, ReadLastChild,
         PerformCall, LoseReport, Die, Tick, tables, vars
<1>6. QED
  BY <1>1, <1>2, <1>3, <1>4, <1>5

\* Who writes the row of an e-mail's alarm.
LEMMA EmailRow ==
  ASSUME Typed, [Next]_vars, "EMAIL" \in Method, NEW e \in EventId
  PROVE  \/ alarm'[e]["EMAIL"] = alarm[e]["EMAIL"]
         \/ CopyAlarm("EMAIL") /\ e = eventRun.new
         \/ MarkAlarm(e, "EMAIL") \/ NoticeSaved(e, "EMAIL")
<1> USE DEF Typed
<1>1. CASE UNCHANGED alarm
  BY <1>1
<1>2. ASSUME NEW m \in Method, CopyAlarm(m)
      PROVE  alarm'[e]["EMAIL"] = alarm[e]["EMAIL"] \/ (m = "EMAIL" /\ e = eventRun.new)
  <2>1. eventRun \in Copying
    BY <1>2, RunKinds DEF CopyAlarm
  <2>2. [status |-> "PENDING", num_attempt |-> alarm[eventRun.e][m].num_attempt] \in AlarmRow
        /\ eventRun.new \in EventId
    BY <2>1 DEF AlarmTyped, AlarmRow, AlarmStatus, Copying
  <2>3. QED
    BY <1>2, <2>2, AlarmWritten DEF CopyAlarm
<1>3. ASSUME NEW f \in EventId, NEW m \in Method, MarkAlarm(f, m)
      PROVE  alarm'[e]["EMAIL"] = alarm[e]["EMAIL"] \/ (m = "EMAIL" /\ e = f)
  BY <1>3, StatusWritten DEF MarkAlarm, AlarmStatus
<1>4. ASSUME NEW f \in EventId, NEW m \in NoticeMethod, NoticeSaved(f, m)
      PROVE  alarm'[e]["EMAIL"] = alarm[e]["EMAIL"] \/ (m = "EMAIL" /\ e = f)
  BY <1>4, StatusWritten DEF NoticeSaved, AlarmStatus, NoticeMethod
<1>5. CASE CountAttempt \/ SaveOutcome \/ CheckRetry \/ RetryAlarm
  BY <1>5, CallRowWritten
<1>6. \/ UNCHANGED alarm
      \/ CountAttempt \/ SaveOutcome \/ CheckRetry \/ RetryAlarm
      \/ \E m \in Method : CopyAlarm(m)
      \/ \E f \in EventId, m \in Method : MarkAlarm(f, m)
      \/ \E f \in EventId, m \in NoticeMethod : NoticeSaved(f, m)
  BY DEF Next, EventStep, ListEvents, CopyEvent, CompleteEvent, AlarmStep, SendPerform, RequestStep,
         SendInit, SaveRequest, CreateCall, NoticeStep, PerformNotice, NoticeMethod,
         MailStep, SendMailTask, MarkMail, SendMail, MailSent, CallStep, EndCall, WorkerStep,
         SendFailureSms, InitCall, TakeReport, ReadLastChild, SaveLastChild,
         PerformCall, LoseReport, Die, Tick, tables, vars
<1>7. QED
  BY <1>1, <1>2, <1>3, <1>4, <1>5, <1>6

LEMMA CopyCleanStep ==
  ASSUME Typed, [Next]_vars, NEW m \in Method, CopyClean(m),
         \A e \in EventId : ~Exists(e) => alarm[e][m].status = "none",
         \A e \in EventId :
           alarm[e][m].status = "none" => alarm'[e][m] = alarm[e][m] \/ CopyAlarm(m)
  PROVE  CopyClean(m)'
<1> USE DEF Typed
<1>1. CASE UNCHANGED eventRun
  <2> SUFFICES ASSUME eventRun.pc = "alarms"
               PROVE  /\ Exists(eventRun.new)'
                      /\ m \in eventRun.left => alarm'[eventRun.new][m].status = "none"
    BY <1>1 DEF CopyClean, Exists
  <2>1. PICK n \in EventId : n = eventRun.new
    BY RunKinds DEF Copying
  <2>2. Exists(n) /\ (m \in eventRun.left => alarm[n][m].status = "none")
    BY <2>1 DEF CopyClean
  <2>3. Exists(n)'
    BY <2>2, ExistsKept
  <2>4. Exists(eventRun.new)'
    BY <1>1, <2>1, <2>3 DEF Exists
  <2>5. ~CopyAlarm(m)
    BY <1>1, RunKinds DEF CopyAlarm, Copying
  <2>6. QED
    BY <2>1, <2>2, <2>4, <2>5
<1>2. CASE eventRun' = Idle \/ ListEvents
  BY <1>2 DEF CopyClean, Idle, ListEvents
<1>3. ASSUME NEW e \in EventId, CopyEvent(e) PROVE CopyClean(m)'
  <2>1. PICK new \in EventId :
          /\ ~Exists(new)
          /\ event' = [event EXCEPT ![new] = [occ |-> clock + 1, status |-> "PENDING"]]
          /\ eventRun' = [pc |-> "alarms", list |-> eventRun.list, e |-> e, new |-> new,
                          left |-> Method]
    BY <1>3 DEF CopyEvent
  <2>2. alarm' = alarm /\ event'[new].status = "PENDING"
    BY <1>3, <2>1 DEF CopyEvent, EventTyped
  <2>3. alarm[new][m].status = "none"
    BY <2>1
  <2>4. QED
    BY <2>1, <2>2, <2>3 DEF CopyClean, Exists
<1>4. ASSUME NEW e \in EventId, CompleteEvent(e) PROVE CopyClean(m)'
  BY <1>4 DEF CompleteEvent, CopyClean, Idle
<1>5. ASSUME NEW o \in Method, CopyAlarm(o) PROVE CopyClean(m)'
  <2>1. eventRun \in Copying
    BY <1>5, RunKinds DEF CopyAlarm
  <2>2. PICK n \in EventId : n = eventRun.new
    BY <2>1 DEF Copying
  <2>3. eventRun'.new = n /\ eventRun'.left = eventRun.left \ {o} /\ event' = event
    BY <1>5, <2>1, <2>2 DEF CopyAlarm, Copying
  <2>4. Exists(n) /\ (m \in eventRun.left => alarm[n][m].status = "none")
    BY <1>5, <2>2 DEF CopyClean, CopyAlarm
  <2>5. o # m => alarm'[n][m] = alarm[n][m]
    <3>1. [status |-> "PENDING", num_attempt |-> alarm[eventRun.e][o].num_attempt] \in AlarmRow
      BY <2>1 DEF AlarmTyped, AlarmRow, AlarmStatus, Copying
    <3>2. QED
      BY <1>5, <2>2, <3>1, AlarmWritten DEF CopyAlarm
  <2>6. QED
    BY <2>3, <2>4, <2>5 DEF CopyClean, Exists
<1>6. \/ UNCHANGED eventRun \/ eventRun' = Idle \/ ListEvents
      \/ \E e \in EventId : CopyEvent(e) \/ CompleteEvent(e)
      \/ \E o \in Method : CopyAlarm(o)
  BY CalendarStep DEF eventVars, ReadLastChild, SaveLastChild, Tick, runs
<1>7. QED
  BY <1>1, <1>2, <1>3, <1>4, <1>5, <1>6

LEMMA PostedStep ==
  ASSUME Typed, Typed', [Next]_vars, "EMAIL" \in Method, MailInv, NEW e \in EventId
  PROVE  Posted(e)'
<1> USE DEF Typed
<1>1. CopyClean("EMAIL") /\ Posted(e)
  BY DEF MailInv
<1>2. Exists(e) => Exists(e)'
  BY ExistsKept
<1>3. CASE UNCHANGED mailVars
  <2>1. CASE alarm'[e]["EMAIL"] = alarm[e]["EMAIL"]
    BY <1>1, <1>2, <1>3, <2>1, PostedFrame DEF mailVars, Sends, Posts
  <2>2. CASE CopyAlarm("EMAIL") /\ e = eventRun.new
    <3>1. alarm[e]["EMAIL"].status = "none" /\ Exists(e)
      BY <1>1, <2>2 DEF CopyClean, CopyAlarm
    <3>2. QED
      BY <1>1, <1>2, <1>3, <3>1 DEF Posted, mailVars, Sends, Posts
  <2>3. ~MarkAlarm(e, "EMAIL")
    BY <1>3 DEF MarkAlarm, mailVars
  <2>4. ~NoticeSaved(e, "EMAIL")
    BY <1>3 DEF NoticeSaved, mailVars, MailTyped, NoticeMethod
  <2>5. QED
    BY <2>1, <2>2, <2>3, <2>4, EmailRow
<1>4. ASSUME NEW f \in EventId, NEW m \in Method, MarkAlarm(f, m) PROVE Posted(e)'
  <2>1. /\ alarmRun.pc = "idle" /\ alarmRun' = [pc |-> "send", e |-> f, m |-> m]
        /\ UNCHANGED <<mail, notice, mailRun>>
    BY <1>4 DEF MarkAlarm, queues
  <2>2. ~Sends(e, "EMAIL") /\ (Posts(e)' <=> Posts(e))
    BY <2>1 DEF Sends, Posts
  <2>3. Sends(e, "EMAIL")' <=> e = f /\ m = "EMAIL"
    BY <2>1 DEF Sends
  <2>4. CASE e = f /\ m = "EMAIL"
    <3>1. alarm[e]["EMAIL"].status = "PENDING" /\ Exists(e)
      BY <1>4, <2>4 DEF MarkAlarm, AlarmDue
    <3>2. alarm'[e]["EMAIL"].status = "IN_PROCESS"
      BY <1>4, <2>4, StatusWritten DEF MarkAlarm, AlarmStatus
    <3>3. mail[e] = NoMail /\ notice[e]["EMAIL"] = "none"
      BY <1>1, <3>1 DEF Posted
    <3>4. QED
      BY <1>1, <1>2, <2>1, <2>2, <3>1, <3>2, <3>3 DEF Posted, NoMail
  <2>5. CASE ~(e = f /\ m = "EMAIL")
    <3>1. alarm'[e]["EMAIL"] = alarm[e]["EMAIL"]
      BY <1>4, <2>5, StatusWritten DEF MarkAlarm, AlarmStatus
    <3>2. QED
      BY <1>1, <1>2, <2>1, <2>2, <2>3, <2>5, <3>1, PostedFrame
  <2>6. QED
    BY <2>4, <2>5
<1>5. CASE SendPerform
  <2>1. alarmRun \in Sending /\ alarmRun' = Idle /\ UNCHANGED <<event, alarm, mail, mailRun>>
    BY <1>5, RunKinds DEF SendPerform, tables
  <2>2. ~Sends(e, "EMAIL")' /\ (Posts(e)' <=> Posts(e))
    BY <2>1 DEF Sends, Posts, Idle
  <2>3. CASE Sends(e, "EMAIL")
    <3>1. notice'[e]["EMAIL"] = "queued"
      <4>1. notice' = [notice EXCEPT ![e]["EMAIL"] = "queued"]
        BY <1>5, <2>3 DEF SendPerform, Sends
      <4>2. QED
        BY <4>1 DEF MailTyped, NoticeMethod
    <3>2. mail[e] = NoMail /\ alarm[e]["EMAIL"].status \notin {"none", "PENDING"}
      BY <1>1, <2>3 DEF Posted
    <3>3. QED
      BY <1>1, <1>2, <2>1, <2>2, <3>1, <3>2 DEF Posted, NoMail
  <2>4. CASE ~Sends(e, "EMAIL")
    <3>1. notice'[e]["EMAIL"] = notice[e]["EMAIL"]
      <4>1. CASE alarmRun.m = "CALL"
        BY <1>5, <4>1 DEF SendPerform
      <4>2. CASE alarmRun.m # "CALL"
        <5>1. notice' = [notice EXCEPT ![alarmRun.e][alarmRun.m] = "queued"]
          BY <1>5, <4>2 DEF SendPerform
        <5>2. alarmRun.e # e \/ alarmRun.m # "EMAIL"
          BY <1>5, <2>4 DEF Sends, SendPerform
        <5>3. alarmRun.e \in EventId /\ alarmRun.m \in NoticeMethod /\ "EMAIL" \in NoticeMethod
          BY <2>1, <4>2 DEF Sending, NoticeMethod
        <5>4. QED
          BY <5>1, <5>2, <5>3 DEF MailTyped
      <4>3. QED
        BY <4>1, <4>2
    <3>2. QED
      BY <1>1, <1>2, <2>1, <2>2, <3>1, PostedFrame
  <2>5. QED
    BY <2>3, <2>4
<1>6. ASSUME NEW f \in EventId, NEW m \in NoticeMethod, PerformNotice(f, m) PROVE Posted(e)'
  <2>1. UNCHANGED <<event, alarm, alarmRun, mailRun>>
    BY <1>6 DEF PerformNotice, runs
  <2>2. (Posts(e)' <=> Posts(e)) /\ (Sends(e, "EMAIL")' <=> Sends(e, "EMAIL"))
    BY <2>1 DEF Sends, Posts
  <2>3. CASE f = e /\ m = "EMAIL"
    <3>1. notice[e]["EMAIL"] = "queued" /\ notice'[e]["EMAIL"] = "save"
          /\ mail' = [mail EXCEPT ![e].status = "PENDING"]
      BY <1>6, <2>3 DEF PerformNotice, MailTyped
    <3>2. mail[e] = NoMail /\ ~Sends(e, "EMAIL") /\ ~Posts(e)
          /\ alarm[e]["EMAIL"].status \notin {"none", "PENDING"}
      BY <1>1, <3>1 DEF Posted, NoMail
    <3>3. mail'[e].status = "PENDING" /\ mail'[e].task = "none" /\ mail'[e].sent = 0
      BY <3>1, <3>2 DEF MailTyped, MailRow, NoMail
    <3>4. QED
      BY <1>1, <1>2, <2>1, <2>2, <3>1, <3>2, <3>3 DEF Posted
  <2>4. CASE ~(f = e /\ m = "EMAIL")
    <3>1. notice'[e]["EMAIL"] = notice[e]["EMAIL"] /\ mail'[e] = mail[e]
      BY <1>6, <2>4 DEF PerformNotice, MailTyped, NoticeMethod
    <3>2. QED
      BY <1>1, <1>2, <2>1, <2>2, <3>1, PostedFrame
  <2>5. QED
    BY <2>3, <2>4
<1>7. ASSUME NEW f \in EventId, NEW m \in NoticeMethod, NoticeSaved(f, m) PROVE Posted(e)'
  <2>1. UNCHANGED <<event, mail, alarmRun, mailRun>>
    BY <1>7 DEF NoticeSaved, runs
  <2>2. (Posts(e)' <=> Posts(e)) /\ (Sends(e, "EMAIL")' <=> Sends(e, "EMAIL"))
    BY <2>1 DEF Sends, Posts
  <2>3. CASE f = e /\ m = "EMAIL"
    <3>1. notice[e]["EMAIL"] = "save" /\ notice'[e]["EMAIL"] = "none"
      BY <1>7, <2>3 DEF NoticeSaved, MailTyped
    <3>2. alarm'[e]["EMAIL"].status = "SUCCESS"
      BY <1>7, <2>3, StatusWritten DEF NoticeSaved, AlarmStatus
    <3>3. Exists(e) /\ ~Sends(e, "EMAIL")
      BY <1>1, <3>1 DEF Posted
    <3>4. QED
      BY <1>1, <1>2, <2>1, <2>2, <3>1, <3>2, <3>3 DEF Posted
  <2>4. CASE ~(f = e /\ m = "EMAIL")
    <3>1. notice'[e]["EMAIL"] = notice[e]["EMAIL"]
      BY <1>7, <2>4 DEF NoticeSaved, MailTyped, NoticeMethod
    <3>2. alarm'[e]["EMAIL"] = alarm[e]["EMAIL"]
      BY <1>7, <2>4, StatusWritten DEF NoticeSaved, AlarmStatus, NoticeMethod
    <3>3. QED
      BY <1>1, <1>2, <2>1, <2>2, <3>1, <3>2, PostedFrame
  <2>5. QED
    BY <2>3, <2>4
<1>8. CASE SendMailTask
  <2>1. UNCHANGED <<event, alarm, notice, alarmRun>> /\ mailRun' = Idle
    BY <1>8 DEF SendMailTask, queues
  <2>2. ~Posts(e)' /\ (Sends(e, "EMAIL")' <=> Sends(e, "EMAIL"))
    BY <2>1 DEF Sends, Posts, Idle
  <2>3. mailRun.e \in EventId /\ mail' = [mail EXCEPT ![mailRun.e].task = "queued"]
        /\ mailRun.pc = "send"
    BY <1>8, RunKinds DEF SendMailTask, Mailing
  <2>4. CASE Posts(e)
    <3>1. mail[e].status = "IN_PROCESS" /\ mail[e].sent = 0
      BY <1>1, <2>4 DEF Posted
    <3>2. mail'[e].status = "IN_PROCESS" /\ mail'[e].task = "queued" /\ mail'[e].sent = 0
      BY <2>3, <2>4, <3>1 DEF MailTyped, MailRow, Posts
    <3>3. mail[e] # NoMail
      BY <3>1 DEF NoMail
    <3>4. QED
      BY <1>1, <1>2, <2>1, <2>2, <3>2, <3>3 DEF Posted
  <2>5. CASE ~Posts(e)
    <3>1. mail'[e] = mail[e]
      BY <2>3, <2>5 DEF MailTyped, Posts
    <3>2. QED
      BY <1>1, <1>2, <2>1, <2>2, <3>1, PostedFrame
  <2>6. QED
    BY <2>4, <2>5
<1>9. ASSUME NEW f \in EventId, MarkMail(f) \/ SendMail(f) \/ MailSent(f) PROVE Posted(e)'
  <2>1. UNCHANGED <<event, alarm, notice, alarmRun>>
    BY <1>9 DEF MarkMail, SendMail, MailSent, queues, runs
  <2>2. Sends(e, "EMAIL")' <=> Sends(e, "EMAIL")
    BY <2>1 DEF Sends
  <2>3. CASE f # e
    <3>1. mail'[e] = mail[e]
      BY <1>9, <2>3, MailWritten DEF MarkMail, MailSent, MailTyped
    <3>2. Posts(e)' => Posts(e)
      BY <1>9, <2>3 DEF MarkMail, SendMail, MailSent, Posts, runs
    <3>3. QED
      BY <1>1, <1>2, <2>1, <2>2, <2>3, <3>1, <3>2, PostedFrame
  <2>4. CASE f = e /\ MarkMail(e)
    <3>1. mail[e].status = "PENDING" /\ mail[e].task = "none" /\ mail[e].sent = 0
      BY <1>1, <2>4 DEF MarkMail, Posted
    <3>2. mail'[e].status = "IN_PROCESS" /\ mail'[e].task = "none" /\ mail'[e].sent = 0
      BY <2>4, <3>1 DEF MarkMail, MailTyped, MailRow
    <3>3. mail[e] # NoMail
      BY <3>1 DEF NoMail
    <3>4. QED
      BY <1>1, <1>2, <2>1, <2>2, <3>2, <3>3 DEF Posted
  <2>5. CASE f = e /\ SendMail(e)
    <3>1. mail[e].status = "IN_PROCESS" /\ mail[e].sent = 0 /\ ~Posts(e)
      BY <1>1, <2>5 DEF SendMail, Posted
    <3>2. PICK row \in MailRow :
            mail' = [mail EXCEPT ![e] = row] /\ row.status = mail[e].status
              /\ row.task = "sending" /\ row.sent = mail[e].sent + 1
      BY <2>5, <3>1, MailWritten
    <3>3. mail'[e].status = "IN_PROCESS" /\ mail'[e].task = "sending" /\ mail'[e].sent = 1
      BY <3>1, <3>2 DEF MailTyped
    <3>4. mail[e] # NoMail /\ ~Posts(e)'
      BY <2>5, <3>1 DEF NoMail, SendMail, Posts, runs
    <3>5. QED
      BY <1>1, <1>2, <2>1, <2>2, <3>3, <3>4 DEF Posted
  <2>6. CASE f = e /\ MailSent(e)
    <3>1. mail[e].status = "IN_PROCESS" /\ mail[e].sent <= 1 /\ ~Posts(e)
      BY <1>1, <2>6 DEF MailSent, Posted
    <3> DEFINE row == [mail[e] EXCEPT !.status = "SENT", !.task = "none"]
    <3>2. mail' = [mail EXCEPT ![e] = row]
      BY <2>6 DEF MailSent, MailTyped
    <3>3. row.status = "SENT" /\ row.task = "none" /\ row.sent = mail[e].sent
      BY DEF MailTyped, MailRow
    <3> HIDE DEF row
    <3>4. mail'[e].status = "SENT" /\ mail'[e].task = "none" /\ mail'[e].sent = mail[e].sent
      BY <3>2, <3>3 DEF MailTyped
    <3>5. mail[e] # NoMail /\ ~Posts(e)'
      BY <2>6, <3>1 DEF NoMail, MailSent, Posts, runs
    <3>6. QED
      BY <1>1, <1>2, <2>1, <2>2, <3>1, <3>4, <3>5 DEF Posted
  <2>7. QED
    BY <1>9, <2>3, <2>4, <2>5, <2>6
<1>10. CASE Die
  <2>1. UNCHANGED <<event, alarm>>
    BY <1>10 DEF Die
  <2>2. /\ UNCHANGED alarmRun \/ alarmRun' = Idle
        /\ UNCHANGED mailRun \/ mailRun' = Idle
    BY <1>10 DEF Die, runs
  <2>3. (Posts(e)' => Posts(e)) /\ (Sends(e, "EMAIL")' => Sends(e, "EMAIL"))
    BY <2>2 DEF Sends, Posts, Idle
  <2>4. notice'[e]["EMAIL"] \in {notice[e]["EMAIL"], "none"}
    <3>1. UNCHANGED notice
            \/ \E f \in EventId, m \in NoticeMethod : notice' = [notice EXCEPT ![f][m] = "none"]
      BY <1>10 DEF Die, queues, NoticeMethod
    <3>2. QED
      BY <3>1 DEF MailTyped, NoticeMethod
  <2>5. /\ mail'[e].status = mail[e].status /\ mail'[e].sent = mail[e].sent
        /\ mail'[e].task \in {mail[e].task, "none"}
        /\ mail[e] = NoMail => mail'[e] = NoMail
    <3>1. UNCHANGED mail \/ \E f \in EventId : mail[f].task # "none" /\ mail' = [mail EXCEPT ![f].task = "none"]
      BY <1>10 DEF Die
    <3>2. QED
      BY <3>1 DEF MailTyped, MailRow, NoMail
  <2>6. QED
    BY <1>1, <1>2, <2>1, <2>3, <2>4, <2>5 DEF Posted
<1>11. \/ UNCHANGED mailVars \/ SendPerform \/ SendMailTask \/ Die
       \/ \E f \in EventId, m \in Method : MarkAlarm(f, m)
       \/ \E f \in EventId, m \in NoticeMethod : PerformNotice(f, m) \/ NoticeSaved(f, m)
       \/ \E f \in EventId : MarkMail(f) \/ SendMail(f) \/ MailSent(f)
  BY DEF Next, EventStep, ListEvents, CopyEvent, CompleteEvent, CopyAlarm, AlarmStep, RequestStep,
         SendInit, SaveRequest, CountAttempt, CreateCall, NoticeStep, NoticeMethod,
         MailStep, CallStep, EndCall, WorkerStep,
         SaveOutcome, CheckRetry, RetryAlarm, SendFailureSms, InitCall, TakeReport, ReadLastChild,
         SaveLastChild, PerformCall, LoseReport, Tick, mailVars, tables, queues, runs, vars
<1>12. QED
  BY <1>3, <1>4, <1>5, <1>6, <1>7, <1>8, <1>9, <1>10, <1>11

LEMMA MailStepKept == Typed /\ Typed' /\ [Next]_vars /\ MailInv => MailInv'
<1> SUFFICES ASSUME Typed, Typed', [Next]_vars, MailInv PROVE MailInv'
  OBVIOUS
<1>1. CASE "EMAIL" \in Method
  <2>1. ASSUME NEW e \in EventId, alarm[e]["EMAIL"].status = "none"
        PROVE  alarm'[e]["EMAIL"] = alarm[e]["EMAIL"] \/ CopyAlarm("EMAIL")
    <3>1. ~MarkAlarm(e, "EMAIL")
      BY <2>1 DEF MarkAlarm, AlarmDue
    <3>2. ~NoticeSaved(e, "EMAIL")
      BY <1>1, <2>1 DEF NoticeSaved, MailInv, Posted
    <3>3. QED
      BY <1>1, <3>1, <3>2, EmailRow
  <2>2. CopyClean("EMAIL") /\ \A e \in EventId : ~Exists(e) => alarm[e]["EMAIL"].status = "none"
    BY <1>1 DEF MailInv, Posted
  <2>3. CopyClean("EMAIL")'
    BY <1>1, <2>1, <2>2, CopyCleanStep
  <2>4. QED
    BY <1>1, <2>3, PostedStep DEF MailInv
<1>2. CASE "EMAIL" \notin Method
  <2>1. mailRun.pc = "idle" /\ \A e \in EventId : mail[e] = NoMail
    BY <1>2 DEF MailInv
  <2>2. ASSUME NEW e \in EventId
        PROVE  ~MarkMail(e) /\ ~SendMail(e) /\ ~MailSent(e) /\ mail[e].task = "none"
    BY <2>1 DEF MarkMail, SendMail, MailSent, NoMail
  <2>3. ~SendMailTask
    BY <2>1 DEF SendMailTask
  <2>4. ASSUME NEW e \in EventId, NEW m \in NoticeMethod, PerformNotice(e, m) PROVE UNCHANGED mail
    BY <1>2, <2>4 DEF PerformNotice, NoticeMethod
  <2>5. CASE Die
    <3>1. UNCHANGED mail
      BY <2>2, <2>5 DEF Die
    <3>2. mailRun'.pc = "idle"
      BY <2>1, <2>5 DEF Die, Idle, runs
    <3>3. QED
      BY <1>2, <2>1, <3>1, <3>2 DEF MailInv
  <2>6. UNCHANGED <<mail, mailRun>> \/ Die
    <3>1. ~MailStep
      BY <2>2, <2>3 DEF MailStep
    <3>2. NoticeStep => UNCHANGED <<mail, mailRun>>
      <4>1. ASSUME NEW e \in EventId, NEW m \in NoticeMethod, PerformNotice(e, m) \/ NoticeSaved(e, m)
            PROVE  UNCHANGED <<mail, mailRun>>
        BY <2>4, <4>1 DEF PerformNotice, NoticeSaved, runs
      <4>2. QED
        BY <4>1 DEF NoticeStep, NoticeMethod
    <3>3. QED
      BY <3>1, <3>2
      DEF Next, EventStep, ListEvents, CopyEvent, CompleteEvent, CopyAlarm, AlarmStep, SendPerform,
         MarkAlarm, RequestStep, SendInit, SaveRequest, CountAttempt, CreateCall, CallStep, EndCall,
         WorkerStep, SaveOutcome, CheckRetry, RetryAlarm, SendFailureSms, InitCall, TakeReport,
         ReadLastChild, SaveLastChild, PerformCall, LoseReport, Tick, tables, queues, runs, vars
  <2>7. QED
    BY <1>2, <2>1, <2>5, <2>6 DEF MailInv
<1>3. QED
  BY <1>1, <1>2

\* An e-mail leaves once, whatever fails: mailspooler_pending marks a row before it sends
\* its task and sendmail_task refuses a row that was sent.
THEOREM MailSentOnce == Spec => []MailOnce
<1>1. Init => MailInv
  BY InitMail
<1>2. Typed /\ Typed' /\ [Next]_vars /\ MailInv => MailInv'
  BY MailStepKept
<1>3. MailInv => MailOnce
  <2>1. ASSUME "EMAIL" \notin Method, MailInv PROVE MailOnce
    BY <2>1 DEF MailInv, MailOnce, NoMail
  <2>2. ASSUME "EMAIL" \in Method, MailInv PROVE MailOnce
    BY <2>2 DEF MailInv, MailOnce, Posted
  <2>3. QED
    BY <2>1, <2>2
<1>4. QED
  BY <1>1, <1>2, <1>3, AlwaysTyped, PTL DEF Spec

-----------------------------------------------------------------------------
(***************************************************************************)
(* The chain of events.  While the rule has a next occurrence, an event     *)
(* that is active and not being copied stands for every occurrence after   *)
(* its own: its copy will take the next place.  Counted with those that are *)
(* there already, each occurrence has one, and one more for each fault.    *)
(***************************************************************************)
Active(e) == event[e].status \in {"PENDING", "PAUSED"}
BeingCopied(e) == eventRun.pc = "alarms" /\ eventRun.e = e
Holders(n) == {e \in EventId :
  Exists(e) /\ (event[e].occ = n \/ (event[e].occ < n /\ Active(e) /\ ~BeingCopied(e)))}
Holding(n) == {e \in EventId : Exists(e) /\ event[e].occ = n}

Contiguous == \A e, f \in EventId : Exists(e) /\ f < e => Exists(f)

\* The run completes what it has listed.
Listed ==
  /\ eventRun.pc # "idle" => \A e \in eventRun.list : Active(e) /\ event[e].occ <= clock
  /\ eventRun.pc = "alarms" =>
       /\ eventRun.e \in eventRun.list
       /\ eventRun.new > eventRun.e /\ eventRun.new \notin eventRun.list
       /\ Active(eventRun.new)

\* update_last_child_status meets a completed event when the rule has ended only.
PatchRead ==
  patch.pc = "save" => Exists(patch.e) /\ (patch.row.status = "COMPLETED" => ~HasNext)

CompletedBefore ==
  HasNext => \A e \in EventId : event[e].status = "COMPLETED" =>
               \E f \in EventId : f > e /\ Exists(f)

OneHolder ==
  HasNext => \A n \in 0 .. LastOccurrence : Cardinality(Holders(n)) <= 1 + faults

ChainInv ==
  Contiguous /\ Listed /\ PatchRead /\ CompletedBefore /\ OneHolder /\ OccurrenceOnce

LEMMA EventsFinite ==
  ASSUME NEW S \in SUBSET EventId
  PROVE  IsFiniteSet(S) /\ Cardinality(S) \in Nat
<1>1. IsFiniteSet(EventId)
  BY BoundAssumption, FS_Interval DEF EventId
<1>2. QED
  BY <1>1, FS_Subset, FS_CardinalityType

\* A set of events that took one in, for another that left or not.
LEMMA OneMore ==
  ASSUME NEW S \in SUBSET EventId, NEW T \in SUBSET EventId, NEW x \in EventId,
         T \subseteq S \cup {x}
  PROVE  Cardinality(T) <= Cardinality(S) + 1
<1>1. IsFiniteSet(S) /\ IsFiniteSet(S \cup {x})
  BY EventsFinite
<1>2. Cardinality(S \cup {x}) <= Cardinality(S) + 1
  BY <1>1, FS_AddElement, EventsFinite
<1>3. Cardinality(T) <= Cardinality(S \cup {x})
  BY <1>1, FS_Subset
<1>4. QED
  BY <1>2, <1>3, EventsFinite

LEMMA OneForOne ==
  ASSUME NEW S \in SUBSET EventId, NEW T \in SUBSET EventId, NEW x \in EventId, NEW y \in S,
         T \subseteq (S \ {y}) \cup {x}
  PROVE  Cardinality(T) <= Cardinality(S)
<1>1. Cardinality(S \ {y}) = Cardinality(S) - 1
  BY EventsFinite, FS_RemoveElement
<1>2. Cardinality(T) <= Cardinality(S \ {y}) + 1
  BY OneMore
<1>3. QED
  BY <1>1, <1>2, EventsFinite

LEMMA Fewer ==
  ASSUME NEW S \in SUBSET EventId, NEW T \in SUBSET S
  PROVE  Cardinality(T) <= Cardinality(S)
BY EventsFinite, FS_Subset

\* No step repairs a fault.
LEMMA FaultsGrow ==
  ASSUME Typed, Typed', [Next]_vars
  PROVE  faults \in Nat /\ faults' \in Nat /\ faults <= faults'
<1>1. faults \in Nat /\ faults' \in Nat
  BY BoundAssumption DEF Typed, FaultTyped
<1>2. UNCHANGED faults \/ Fault
  BY DEF Next, EventStep, ListEvents, CopyEvent, CompleteEvent, CopyAlarm, AlarmStep, SendPerform,
         MarkAlarm, RequestStep, SendInit, SaveRequest, CountAttempt, CreateCall, NoticeStep,
         PerformNotice, NoticeSaved, MailStep, SendMailTask, MarkMail, SendMail, MailSent, CallStep,
         EndCall, WorkerStep, SaveOutcome, CheckRetry, RetryAlarm, SendFailureSms, InitCall, Timing,
         TakeReport, ReadLastChild, SaveLastChild, PerformCall, LoseReport, Die, Tick, bounds, vars
<1>3. QED
  BY <1>1, <1>2 DEF Fault

LEMMA InitChain == Init => ChainInv
<1> SUFFICES ASSUME Init PROVE ChainInv
  OBVIOUS
<1>1. \A e \in EventId : event[e].status = IF e = 1 THEN "PENDING" ELSE "none"
  BY DEF Init, NoEvent
<1>2. eventRun.pc = "idle" /\ patch.pc = "idle" /\ faults = 0 /\ 1 \in EventId
  BY BoundAssumption DEF Init, Idle, EventId
<1>3. \A n \in 0 .. LastOccurrence : Cardinality(Holders(n)) <= 1 /\ Cardinality(Holding(n)) <= 1
  <2> TAKE n \in 0 .. LastOccurrence
  <2>1. Holders(n) \in SUBSET {1} /\ Holding(n) \in SUBSET {1}
    BY <1>1 DEF Holders, Holding, Exists
  <2>2. Cardinality({1}) = 1 /\ {1} \in SUBSET EventId
    BY <1>2, FS_Singleton
  <2>3. QED
    BY <2>1, <2>2, Fewer
<1>4. Contiguous
  BY <1>1 DEF Contiguous, Exists, EventId
<1>5. OneHolder /\ OccurrenceOnce
  <2>1. OneHolder
    BY <1>2, <1>3 DEF OneHolder
  <2>2. \A n \in 0 .. LastOccurrence : Cardinality(Holding(n)) <= 1 + faults
    BY <1>2, <1>3
  <2>3. QED
    BY <2>1, <2>2 DEF OccurrenceOnce, Holding
<1>6. Listed /\ PatchRead /\ CompletedBefore
  BY <1>1, <1>2 DEF Listed, PatchRead, CompletedBefore
<1>7. QED
  BY <1>4, <1>5, <1>6 DEF ChainInv

LEMMA HoldersTyped ==
  ASSUME NEW n \in 0 .. LastOccurrence
  PROVE  /\ Holders(n) \in SUBSET EventId /\ Holders(n)' \in SUBSET EventId
         /\ Holding(n) \in SUBSET Holders(n) /\ Holding(n)' \in SUBSET Holders(n)'
BY DEF Holders, Holding

\* Counting after a step, from the holders before it.
LEMMA HoldersShrink ==
  ASSUME Typed, Typed', [Next]_vars, OneHolder, HasNext' => HasNext,
         \A n \in 0 .. LastOccurrence : Holders(n)' \subseteq Holders(n)
  PROVE  OneHolder'
<1> SUFFICES ASSUME HasNext', NEW n \in 0 .. LastOccurrence
             PROVE  Cardinality(Holders(n)') <= 1 + faults'
  BY DEF OneHolder
<1>1. Cardinality(Holders(n)) <= 1 + faults
  BY DEF OneHolder
<1>2. Cardinality(Holders(n)') <= Cardinality(Holders(n))
  BY HoldersTyped, Fewer
<1>3. Cardinality(Holders(n)) \in Nat /\ Cardinality(Holders(n)') \in Nat
  BY HoldersTyped, EventsFinite
<1>4. QED
  BY <1>1, <1>2, <1>3, FaultsGrow

LEMMA HoldersGrow ==
  ASSUME Typed, Typed', Fault, OneHolder, HasNext' => HasNext, NEW e \in EventId,
         \A n \in 0 .. LastOccurrence : Holders(n)' \subseteq Holders(n) \cup {e}
  PROVE  OneHolder'
<1> SUFFICES ASSUME HasNext', NEW n \in 0 .. LastOccurrence
             PROVE  Cardinality(Holders(n)') <= 1 + faults'
  BY DEF OneHolder
<1>1. Cardinality(Holders(n)) <= 1 + faults
  BY DEF OneHolder
<1>2. Cardinality(Holders(n)') <= Cardinality(Holders(n)) + 1
  BY HoldersTyped, OneMore
<1>3. Cardinality(Holders(n)) \in Nat /\ Cardinality(Holders(n)') \in Nat
  BY HoldersTyped, EventsFinite
<1>4. faults \in Nat /\ faults' = faults + 1
  BY BoundAssumption DEF Typed, FaultTyped, Fault
<1>5. QED
  BY <1>1, <1>2, <1>3, <1>4

\* A step that copies no event.
LEMMA HoldingKept ==
  ASSUME Typed, Typed', [Next]_vars, OccurrenceOnce,
         \A e \in EventId : (Exists(e)' <=> Exists(e)) /\ event'[e].occ = event[e].occ
  PROVE  OccurrenceOnce'
<1> SUFFICES ASSUME NEW n \in 0 .. LastOccurrence
             PROVE  Cardinality(Holding(n)') <= 1 + faults'
  BY DEF OccurrenceOnce, Holding
<1>1. Holding(n)' = Holding(n)
  BY DEF Holding
<1>2. Cardinality(Holding(n)) <= 1 + faults
  BY DEF OccurrenceOnce, Holding
<1>3. Cardinality(Holding(n)) \in Nat
  BY HoldersTyped, EventsFinite
<1>4. Cardinality(Holding(n)') = Cardinality(Holding(n))
  BY <1>1, Zenon
<1>5. QED
  BY <1>2, <1>3, <1>4, FaultsGrow

\* The steps that write no event, and stop no copy.
LEMMA ChainFrame ==
  ASSUME Typed, Typed', [Next]_vars, ChainInv, UNCHANGED event, clock <= clock',
         \A e \in EventId : BeingCopied(e) => BeingCopied(e)'
  PROVE  Contiguous' /\ CompletedBefore' /\ OneHolder' /\ OccurrenceOnce'
<1>1. HasNext' => HasNext
  BY BoundAssumption DEF HasNext, Typed, EventTyped
<1>2. Contiguous'
  BY DEF ChainInv, Contiguous, Exists
<1>3. CompletedBefore'
  BY <1>1 DEF ChainInv, CompletedBefore, Exists
<1>4. \A n \in 0 .. LastOccurrence : Holders(n)' \subseteq Holders(n)
  BY DEF Holders, Exists, Active
<1>5. OneHolder'
  BY <1>1, <1>4, HoldersShrink DEF ChainInv
<1>6. OccurrenceOnce'
  BY HoldingKept DEF ChainInv, Exists
<1>7. QED
  BY <1>2, <1>3, <1>5, <1>6

LEMMA ChainCopy ==
  ASSUME Typed, Typed', [Next]_vars, ChainInv, NEW e \in EventId, CopyEvent(e)
  PROVE  ChainInv'
<1> USE DEF Typed
<1>1. PICK new \in EventId :
        /\ ~Exists(new)
        /\ \A f \in EventId : f < new => Exists(f)
        /\ event' = [event EXCEPT ![new] = [occ |-> clock + 1, status |-> "PENDING"]]
        /\ eventRun' = [pc |-> "alarms", list |-> eventRun.list, e |-> e, new |-> new,
                        left |-> Method]
  BY DEF CopyEvent
<1>2. /\ HasNext /\ HasNext' /\ UNCHANGED <<clock, patch, faults>>
      /\ eventRun.pc = "scan" /\ eventRun \in Scan /\ e \in eventRun.list
  BY RunKinds DEF CopyEvent, HasNext, queues, bounds
<1>3. /\ \A f \in EventId : f # new => event'[f] = event[f]
      /\ event'[new].occ = clock + 1 /\ event'[new].status = "PENDING"
  BY <1>1 DEF EventTyped
<1>4. Exists(e) /\ Active(e) /\ event[e].occ <= clock /\ event[e].occ \in Nat /\ clock \in Nat
  BY <1>2, BoundAssumption DEF ChainInv, Listed, Active, Exists, EventTyped, EventRow
<1>5. new > e
  BY <1>1, <1>4 DEF ChainInv, Contiguous, EventId
<1>6. Contiguous'
  BY <1>1, <1>3 DEF ChainInv, Contiguous, Exists, EventId
<1>7. Listed'
  <2>1. \A f \in eventRun.list : f \in EventId /\ Active(f) /\ event[f].occ <= clock /\ f # new
    BY <1>1, <1>2 DEF ChainInv, Listed, Scan, Active, Exists
  <2>2. QED
    BY <1>1, <1>2, <1>3, <1>5, <2>1 DEF Listed, Active
<1>8. PatchRead'
  BY <1>1, <1>2, <1>3, RunKinds DEF ChainInv, PatchRead, Exists, Patching
<1>9. CompletedBefore'
  BY <1>2, <1>3 DEF ChainInv, CompletedBefore, Exists
<1>10. ASSUME NEW n \in 0 .. LastOccurrence
       PROVE  Cardinality(Holders(n)') <= 1 + faults'
  <2>1. \A f \in EventId : ~BeingCopied(f) /\ (BeingCopied(f)' <=> f = e)
    BY <1>1, <1>2 DEF BeingCopied
  <2>2. Cardinality(Holders(n)') <= Cardinality(Holders(n))
    <3>1. CASE n <= clock
      <4>1. Holders(n)' \subseteq Holders(n)
        BY <1>3, <1>4, <2>1, <3>1 DEF Holders, Exists, Active
      <4>2. QED
        BY <4>1, HoldersTyped, Fewer
    <3>2. CASE n > clock
      <4>1. e \in Holders(n)
        BY <1>4, <2>1, <3>2 DEF Holders
      <4>2. e \notin Holders(n)'
        <5>1. event'[e].occ <= clock
          BY <1>3, <1>4, <1>5 DEF EventId
        <5>2. BeingCopied(e)' /\ event'[e].occ # n
          BY <2>1, <3>2, <5>1, <1>4, <1>3, <1>5 DEF EventId
        <5>3. QED
          BY <5>2 DEF Holders
      <4>3. Holders(n)' \subseteq (Holders(n) \ {e}) \cup {new}
        BY <1>3, <2>1, <4>2 DEF Holders, Exists, Active
      <4>4. QED
        BY <4>1, <4>3, HoldersTyped, OneForOne
    <3>3. QED
      BY <1>4, <3>1, <3>2
  <2>3. Cardinality(Holders(n)) <= 1 + faults
    BY <1>2 DEF ChainInv, OneHolder
  <2>4. Cardinality(Holders(n)) \in Nat /\ Cardinality(Holders(n)') \in Nat
    BY HoldersTyped, EventsFinite
  <2>5. QED
    BY <2>2, <2>3, <2>4, FaultsGrow
<1>11. OneHolder'
  BY <1>10 DEF OneHolder
<1>12. OccurrenceOnce'
  <2> SUFFICES ASSUME NEW n \in 0 .. LastOccurrence
               PROVE  Cardinality(Holding(n)') <= 1 + faults'
    BY DEF OccurrenceOnce, Holding
  <2>1. Cardinality(Holding(n)') <= Cardinality(Holders(n)')
    BY HoldersTyped, Fewer
  <2>2. Cardinality(Holding(n)') \in Nat /\ Cardinality(Holders(n)') \in Nat
    BY HoldersTyped, EventsFinite
  <2>3. QED
    BY <1>10, <2>1, <2>2, FaultsGrow
<1>13. QED
  BY <1>6, <1>7, <1>8, <1>9, <1>11, <1>12 DEF ChainInv

LEMMA ChainComplete ==
  ASSUME Typed, Typed', [Next]_vars, ChainInv, NEW e \in EventId, CompleteEvent(e)
  PROVE  ChainInv'
<1> USE DEF Typed
<1>1. /\ UNCHANGED <<clock, patch, faults>> /\ (HasNext' <=> HasNext)
      /\ eventRun.pc \in {"scan", "alarms"} /\ e \in eventRun.list
      /\ HasNext => eventRun.pc = "alarms"
      /\ eventRun.pc = "alarms" => eventRun.e = e
  BY RunKinds DEF CompleteEvent, HasNext, queues, bounds, ChainInv, Listed
<1>2. /\ \A f \in EventId \ {e} : event'[f] = event[f]
      /\ event'[e].occ = event[e].occ /\ event'[e].status = "COMPLETED"
  BY EventWritten DEF CompleteEvent
<1>3. Active(e)
  BY <1>1 DEF ChainInv, Listed
<1>4. \A f \in EventId : (Exists(f)' <=> Exists(f)) /\ event'[f].occ = event[f].occ
  BY <1>2, <1>3 DEF Exists, Active
<1>5. Contiguous'
  BY <1>4 DEF ChainInv, Contiguous
<1>6. Listed'
  <2>1. eventRun' = Idle \/ eventRun' = [pc |-> "scan", list |-> eventRun.list \ {e}]
    BY DEF CompleteEvent
  <2>2. \A f \in eventRun.list : f \in EventId /\ Active(f) /\ event[f].occ <= clock
    BY <1>1, RunKinds DEF ChainInv, Listed, Scan, Copying
  <2>3. QED
    BY <1>1, <1>2, <2>1, <2>2 DEF Listed, Active, Idle
<1>7. PatchRead'
  BY <1>1, <1>4, RunKinds DEF ChainInv, PatchRead, Patching
<1>8. CompletedBefore'
  <2> SUFFICES ASSUME HasNext, NEW f \in EventId, event'[f].status = "COMPLETED"
               PROVE  \E g \in EventId : g > f /\ Exists(g)
    BY <1>1, <1>4 DEF CompletedBefore
  <2>1. CASE f = e
    <3>1. eventRun \in Copying /\ eventRun.new > e /\ Active(eventRun.new)
      BY <1>1, RunKinds DEF ChainInv, Listed
    <3>2. QED
      BY <2>1, <3>1 DEF Copying, Active, Exists
  <2>2. CASE f # e
    BY <1>2, <2>2 DEF ChainInv, CompletedBefore
  <2>3. QED
    BY <2>1, <2>2
<1>9. OneHolder'
  <2>1. CASE HasNext
    <3>1. BeingCopied(e) /\ \A f \in EventId : BeingCopied(f) <=> f = e
      BY <1>1, <2>1 DEF BeingCopied
    <3>2. ASSUME NEW n \in 0 .. LastOccurrence PROVE Holders(n)' \subseteq Holders(n)
      BY <1>2, <1>4, <3>1 DEF Holders, Active
    <3>3. QED
      BY <1>1, <3>2, HoldersShrink DEF ChainInv
  <2>2. CASE ~HasNext
    BY <1>1, <2>2 DEF OneHolder
  <2>3. QED
    BY <2>1, <2>2
<1>10. OccurrenceOnce'
  BY <1>4, HoldingKept DEF ChainInv
<1>11. QED
  BY <1>5, <1>6, <1>7, <1>8, <1>9, <1>10 DEF ChainInv

LEMMA ChainSave ==
  ASSUME Typed, Typed', [Next]_vars, ChainInv, SaveLastChild
  PROVE  ChainInv'
<1> USE DEF Typed
<1>1. patch \in Patching /\ patch.pc = "save" /\ patch'.pc = "idle"
      /\ UNCHANGED <<clock, eventRun>> /\ (HasNext' <=> HasNext)
  BY RunKinds DEF SaveLastChild, HasNext, runs
<1>2. PICK e \in EventId : e = patch.e
  BY <1>1 DEF Patching
<1>3. patch.status \in {"PENDING", "PAUSED"}
  BY <1>1 DEF Patching
<1>4. /\ \A f \in EventId \ {e} : event'[f] = event[f]
      /\ event'[e].occ = event[e].occ /\ event'[e].status = patch.status
  <2> DEFINE row == [event[e] EXCEPT !.status = patch.status]
  <2>1. row \in EventRow /\ row.status = patch.status /\ row.occ = event[e].occ
    BY <1>3 DEF EventTyped, EventRow
  <2>2. event' = [event EXCEPT ![e] = row]
    BY <1>2 DEF SaveLastChild
  <2> HIDE DEF row
  <2>3. QED
    BY <2>1, <2>2 DEF EventTyped
<1>5. Exists(e)
  BY <1>1, <1>2 DEF ChainInv, PatchRead
<1>6. \A f \in EventId : (Exists(f)' <=> Exists(f)) /\ event'[f].occ = event[f].occ
  BY <1>3, <1>4, <1>5 DEF Exists
<1>7. \A f \in EventId : (Active(f) => Active(f)') /\ (f # e => (Active(f) <=> Active(f)'))
  BY <1>3, <1>4 DEF Active
<1>8. Contiguous' /\ PatchRead'
  BY <1>1, <1>6 DEF ChainInv, Contiguous, PatchRead
<1>9. Listed'
  <2>1. CASE eventRun.pc = "idle"
    BY <1>1, <2>1 DEF Listed
  <2>2. CASE eventRun.pc = "scan"
    <3>1. \A f \in eventRun.list : f \in EventId /\ Active(f) /\ event[f].occ <= clock
      BY <2>2, RunKinds DEF ChainInv, Listed, Scan
    <3>2. QED
      BY <1>1, <1>6, <1>7, <2>2, <3>1 DEF Listed
  <2>3. CASE eventRun.pc = "alarms"
    <3>1. \A f \in eventRun.list : f \in EventId /\ Active(f) /\ event[f].occ <= clock
      BY <2>3, RunKinds DEF ChainInv, Listed, Copying
    <3>2. PICK n \in EventId : n = eventRun.new
      BY <2>3, RunKinds DEF Copying
    <3>3. Active(n)'
      BY <1>7, <2>3, <3>2 DEF ChainInv, Listed
    <3>4. Active(eventRun.new)'
      BY <1>1, <3>2, <3>3 DEF Active
    <3>5. QED
      BY <1>1, <1>6, <1>7, <2>3, <3>1, <3>4 DEF ChainInv, Listed
  <2>4. QED
    BY <2>1, <2>2, <2>3 DEF EventTyped, Idling, Scan, Copying
<1>10. CompletedBefore'
  BY <1>1, <1>3, <1>4, <1>6 DEF ChainInv, CompletedBefore
<1>11. OneHolder'
  <2>1. ASSUME NEW n \in 0 .. LastOccurrence PROVE Holders(n)' \subseteq Holders(n) \cup {e}
    BY <1>1, <1>6, <1>7 DEF Holders, BeingCopied
  <2>2. CASE event[e] = patch.row /\ HasNext
    <3>1. Active(e)
      <4>1. event[e].status # "COMPLETED"
        BY <1>1, <2>2 DEF ChainInv, PatchRead
      <4>2. QED
        BY <1>5, <4>1 DEF Exists, Active, EventTyped, EventRow
    <3>2. ASSUME NEW n \in 0 .. LastOccurrence PROVE Holders(n)' \subseteq Holders(n)
      BY <1>1, <1>6, <1>7, <3>1 DEF Holders, BeingCopied
    <3>3. QED
      BY <1>1, <3>2, HoldersShrink DEF ChainInv
  <2>3. CASE event[e] # patch.row
    <3>1. Fault
      BY <1>2, <2>3 DEF SaveLastChild
    <3>2. QED
      BY <1>1, <2>1, <3>1, HoldersGrow DEF ChainInv
  <2>4. CASE ~HasNext
    BY <1>1, <2>4 DEF OneHolder
  <2>5. QED
    BY <2>2, <2>3, <2>4
<1>12. OccurrenceOnce'
  BY <1>6, HoldingKept DEF ChainInv
<1>13. QED
  BY <1>8, <1>9, <1>10, <1>11, <1>12 DEF ChainInv

LEMMA ChainKept ==
  ASSUME Typed, Typed', [Next]_vars, ChainInv
  PROVE  ChainInv'
<1> USE DEF Typed
<1>0. clock \in Nat
  BY BoundAssumption DEF EventTyped
<1>1. CASE UNCHANGED eventVars
  <2>1. Contiguous' /\ CompletedBefore' /\ OneHolder' /\ OccurrenceOnce'
    BY <1>0, <1>1, ChainFrame DEF eventVars, BeingCopied
  <2>2. Listed' /\ PatchRead'
    BY <1>1 DEF ChainInv, Listed, PatchRead, eventVars, Active, Exists, HasNext
  <2>3. QED
    BY <2>1, <2>2 DEF ChainInv
<1>2. CASE ListEvents
  <2>1. /\ eventRun.pc = "idle" /\ eventRun' = [pc |-> "scan", list |-> {e \in EventId : EventDue(e)}]
        /\ UNCHANGED <<event, patch, clock>>
    BY <1>2 DEF ListEvents, tables, queues, bounds
  <2>2. Contiguous' /\ CompletedBefore' /\ OneHolder' /\ OccurrenceOnce'
    BY <1>0, <2>1, ChainFrame DEF BeingCopied
  <2>3. Listed'
    <3>1. \A e \in EventId : EventDue(e) => Active(e) /\ event[e].occ <= clock
      BY <1>0, BoundAssumption DEF EventDue, Active, EventTyped, EventRow
    <3>2. QED
      BY <2>1, <3>1 DEF Listed, Active
  <2>4. PatchRead'
    BY <2>1 DEF ChainInv, PatchRead, Exists, HasNext
  <2>5. QED
    BY <2>2, <2>3, <2>4 DEF ChainInv
<1>3. ASSUME NEW m \in Method, CopyAlarm(m) PROVE ChainInv'
  <2>1. eventRun \in Copying /\ UNCHANGED <<event, patch, clock>> /\ eventRun.pc = "alarms"
    BY <1>3, RunKinds DEF CopyAlarm, queues, bounds
  <2>2. eventRun'.pc = "alarms" /\ eventRun'.e = eventRun.e /\ eventRun'.new = eventRun.new
        /\ eventRun'.list = eventRun.list
    BY <1>3, <2>1 DEF CopyAlarm, Copying
  <2>3. Contiguous' /\ CompletedBefore' /\ OneHolder' /\ OccurrenceOnce'
    BY <1>0, <2>1, <2>2, ChainFrame DEF BeingCopied
  <2>4. Listed' /\ PatchRead'
    BY <2>1, <2>2 DEF ChainInv, Listed, PatchRead, Active, Exists, HasNext
  <2>5. QED
    BY <2>3, <2>4 DEF ChainInv
<1>4. ASSUME NEW e \in EventId, ReadLastChild(e) PROVE ChainInv'
  <2>1. UNCHANGED <<event, eventRun, clock>> /\ Exists(e) /\ \A f \in EventId : Exists(f) => f <= e
    BY <1>4 DEF ReadLastChild, LastChild, tables, runs, bounds
  <2>2. Contiguous' /\ CompletedBefore' /\ OneHolder' /\ OccurrenceOnce'
    BY <1>0, <2>1, ChainFrame DEF BeingCopied
  <2>3. Listed'
    BY <2>1 DEF ChainInv, Listed, Active
  <2>4. PatchRead'
    <3>1. patch'.e = e /\ patch'.row = event[e]
      BY <1>4 DEF ReadLastChild
    <3>2. event[e].status = "COMPLETED" => ~HasNext
      BY <2>1 DEF ChainInv, CompletedBefore, EventId
    <3>3. QED
      BY <2>1, <3>1, <3>2 DEF PatchRead, Exists, HasNext
  <2>5. QED
    BY <2>2, <2>3, <2>4 DEF ChainInv
<1>5. CASE Tick
  <2>1. UNCHANGED <<event, eventRun, patch>> /\ clock' = clock + 1
    BY <1>5 DEF Tick, tables, queues, runs
  <2>2. Contiguous' /\ CompletedBefore' /\ OneHolder' /\ OccurrenceOnce'
    BY <1>0, <2>1, ChainFrame DEF BeingCopied
  <2>3. Listed'
    <3>1. eventRun.pc # "idle" => \A e \in eventRun.list : e \in EventId /\ Active(e) /\ event[e].occ <= clock
      BY RunKinds DEF ChainInv, Listed, EventTyped, Idling, Scan, Copying
    <3>2. \A e \in EventId : event[e].occ <= clock => event[e].occ <= clock + 1
      BY <1>0, BoundAssumption DEF EventTyped, EventRow
    <3>3. QED
      BY <2>1, <3>1, <3>2 DEF ChainInv, Listed, Active
  <2>4. PatchRead'
    BY <1>0, <2>1, BoundAssumption DEF ChainInv, PatchRead, Exists, HasNext
  <2>5. QED
    BY <2>2, <2>3, <2>4 DEF ChainInv
<1>6. CASE eventRun' = Idle /\ UNCHANGED <<event, patch, clock, outages>> /\ Fault
  <2>1. CASE eventRun.pc = "alarms"
    <3>1. PICK e \in EventId : \A f \in EventId : BeingCopied(f) => f = e
      BY <2>1, RunKinds DEF BeingCopied, Copying
    <3>2. ASSUME NEW n \in 0 .. LastOccurrence PROVE Holders(n)' \subseteq Holders(n) \cup {e}
      BY <1>6, <3>1 DEF Holders, Active, Exists
    <3>3. OneHolder'
      BY <1>6, <3>2, HoldersGrow DEF ChainInv, HasNext
    <3>4. OccurrenceOnce'
      BY <1>6, HoldingKept DEF ChainInv, Exists
    <3>5. QED
      BY <1>6, <3>3, <3>4
      DEF ChainInv, Contiguous, Listed, PatchRead, CompletedBefore, Exists, HasNext, Idle
  <2>2. CASE eventRun.pc # "alarms"
    <3>1. Contiguous' /\ CompletedBefore' /\ OneHolder' /\ OccurrenceOnce'
      BY <1>0, <1>6, <2>2, ChainFrame DEF BeingCopied
    <3>2. Listed' /\ PatchRead'
      BY <1>6 DEF ChainInv, Listed, PatchRead, Exists, HasNext, Idle
    <3>3. QED
      BY <3>1, <3>2 DEF ChainInv
  <2>3. QED
    BY <2>1, <2>2
<1>7. QED
  BY <1>1, <1>2, <1>3, <1>4, <1>5, <1>6, CalendarStep, ChainCopy, ChainComplete, ChainSave

\* An occurrence of the rule has one event, and one more for each fault, however long the
\* rule: event_dispatcher completes what it has copied, and a death between the two or a
\* request saved over the completion leaves one more event to be copied.
THEOREM OccurrenceCopiedOnce == Spec => []OccurrenceOnce
<1>1. Init => ChainInv
  BY InitChain
<1>2. Typed /\ Typed' /\ [Next]_vars /\ ChainInv => ChainInv'
  BY ChainKept
<1>3. ChainInv => OccurrenceOnce
  BY DEF ChainInv
<1>4. QED
  BY <1>1, <1>2, <1>3, AlwaysTyped, PTL DEF Spec

-----------------------------------------------------------------------------
(***************************************************************************)
(* The event that will be copied next: its occurrence is at most `outages' *)
(* in the past, because the clock passes an active event in an outage only, *)
(* and its copy is ahead of the clock when it is made.                     *)
(***************************************************************************)
Ahead(e) == clock <= event[e].occ + outages

HeadInv ==
  /\ outages <= Window /\ HasNext => \E e \in EventId : Active(e) /\ Ahead(e)
  /\ eventRun.pc = "alarms" => Ahead(eventRun.new)

LEMMA InitHead == Init => HeadInv
<1> SUFFICES ASSUME Init PROVE HeadInv
  OBVIOUS
<1>1. 1 \in EventId
  BY BoundAssumption DEF EventId
<1>2. event[1].status = "PENDING" /\ event[1].occ = 0 /\ clock = 0 /\ outages = 0
  BY <1>1 DEF Init
<1>3. eventRun.pc = "idle"
  BY DEF Init, Idle
<1>4. QED
  BY <1>1, <1>2, <1>3 DEF HeadInv, Active, Ahead

\* Nobody stops being active, no occurrence changes, and the clock stands still.
LEMMA HeadFrame ==
  ASSUME HeadInv, UNCHANGED <<clock, outages>>,
         \A e \in EventId : event'[e].occ = event[e].occ /\ (Active(e) => Active(e)')
  PROVE  outages' <= Window /\ HasNext' => \E e \in EventId : Active(e)' /\ Ahead(e)'
BY DEF HeadInv, HasNext, Ahead

LEMMA HeadKept ==
  ASSUME Typed, Typed', [Next]_vars, ChainInv, HeadInv
  PROVE  HeadInv'
<1> USE DEF Typed
<1>0. /\ clock \in Nat /\ outages \in Nat /\ Window \in Nat
      /\ \A e \in EventId : event[e].occ \in Nat
  BY BoundAssumption DEF EventTyped, EventRow
<1>1. CASE UNCHANGED <<event, clock, outages>> /\ (UNCHANGED eventRun \/ eventRun'.pc # "alarms")
  <2>1. outages' <= Window /\ HasNext' => \E e \in EventId : Active(e)' /\ Ahead(e)'
    BY <1>1, HeadFrame DEF Active
  <2>2. QED
    BY <1>1, <2>1 DEF HeadInv, Ahead
<1>2. ASSUME NEW e \in EventId, CopyEvent(e) PROVE HeadInv'
  <2>1. PICK new \in EventId :
          /\ ~Exists(new)
          /\ event' = [event EXCEPT ![new] = [occ |-> clock + 1, status |-> "PENDING"]]
          /\ eventRun' = [pc |-> "alarms", list |-> eventRun.list, e |-> e, new |-> new,
                          left |-> Method]
    BY <1>2 DEF CopyEvent
  <2>2. event'[new].status = "PENDING" /\ event'[new].occ = clock + 1
    BY <2>1 DEF EventTyped
  <2>3. UNCHANGED <<clock, outages>>
    BY <1>2 DEF CopyEvent, bounds
  <2>4. clock' <= event'[new].occ + outages'
    BY <1>0, <2>2, <2>3
  <2>5. QED
    BY <2>1, <2>2, <2>4 DEF HeadInv, Active, Ahead
<1>3. ASSUME NEW e \in EventId, CompleteEvent(e) PROVE HeadInv'
  <2>1. /\ UNCHANGED <<clock, outages>> /\ eventRun'.pc # "alarms"
        /\ HasNext => eventRun.pc = "alarms" /\ eventRun.e = e
    BY <1>3 DEF CompleteEvent, bounds, Idle
  <2>2. CASE HasNext
    <3>1. PICK n \in EventId : n = eventRun.new
      BY <2>1, <2>2, RunKinds DEF Copying
    <3>2. n > e /\ Active(n) /\ Ahead(n)
      BY <2>1, <2>2, <3>1 DEF ChainInv, Listed, HeadInv
    <3>3. event'[n] = event[n]
      BY <1>3, <3>2, EventWritten DEF CompleteEvent, EventId
    <3>4. Active(n)' /\ Ahead(n)'
      BY <2>1, <3>2, <3>3 DEF Active, Ahead
    <3>5. QED
      BY <2>1, <3>4 DEF HeadInv
  <2>3. CASE ~HasNext
    BY <2>1, <2>3 DEF HeadInv, HasNext
  <2>4. QED
    BY <2>2, <2>3
<1>4. ASSUME NEW m \in Method, CopyAlarm(m) PROVE HeadInv'
  <2>1. UNCHANGED <<event, clock, outages>> /\ eventRun.pc = "alarms" /\ eventRun'.new = eventRun.new
    BY <1>4, RunKinds DEF CopyAlarm, bounds, Copying
  <2>2. outages' <= Window /\ HasNext' => \E e \in EventId : Active(e)' /\ Ahead(e)'
    BY <2>1, HeadFrame DEF Active
  <2>3. QED
    BY <2>1, <2>2 DEF HeadInv, Ahead
<1>5. CASE SaveLastChild
  <2>1. UNCHANGED <<clock, outages, eventRun>>
    BY <1>5 DEF SaveLastChild, runs
  <2>2. PICK e \in EventId : e = patch.e /\ patch.status \in {"PENDING", "PAUSED"}
    BY <1>5, RunKinds DEF SaveLastChild, Patching
  <2>3. /\ \A f \in EventId : event'[f].occ = event[f].occ
        /\ \A f \in EventId : Active(f) => Active(f)'
    <3> DEFINE row == [event[e] EXCEPT !.status = patch.status]
    <3>1. row.status = patch.status /\ row.occ = event[e].occ
      BY DEF EventTyped, EventRow
    <3>2. event' = [event EXCEPT ![e] = row]
      BY <1>5, <2>2 DEF SaveLastChild
    <3> HIDE DEF row
    <3>3. QED
      BY <2>2, <3>1, <3>2 DEF EventTyped, Active
  <2>4. outages' <= Window /\ HasNext' => \E f \in EventId : Active(f)' /\ Ahead(f)'
    BY <2>1, <2>3, HeadFrame
  <2>5. eventRun.pc = "alarms" => Ahead(eventRun.new)'
    BY <2>1, <2>3, RunKinds DEF HeadInv, Ahead, Copying
  <2>6. QED
    BY <2>1, <2>4, <2>5 DEF HeadInv, Ahead
<1>6. CASE Tick
  <2>1. UNCHANGED <<event, eventRun>> /\ clock' = clock + 1 /\ HasNext
    BY <1>6 DEF Tick, tables, runs, HasNext
  <2>2. CASE outages' = outages + 1
    <3>1. \A e \in EventId : Ahead(e) => Ahead(e)'
      BY <1>0, <2>1, <2>2 DEF Ahead
    <3>2. outages' <= Window => \E e \in EventId : Active(e)' /\ Ahead(e)'
      BY <1>0, <2>1, <2>2, <3>1 DEF HeadInv, Active
    <3>3. eventRun.pc = "alarms" => Ahead(eventRun.new)'
      BY <2>1, <3>1, RunKinds DEF HeadInv, Ahead, Copying
    <3>4. QED
      BY <2>1, <3>2, <3>3 DEF HeadInv, Ahead
  <2>3. CASE outages' # outages + 1
    <3>1. /\ UNCHANGED outages /\ ~Due
          /\ \A e \in EventId : ~(event[e].status = "PAUSED" /\ event[e].occ <= clock)
      BY <1>6, <2>3 DEF Tick
    <3>2. eventRun.pc = "idle" /\ \A e \in EventId : ~EventDue(e)
      BY <3>1 DEF Due, Idle
    <3>3. ASSUME outages <= Window, NEW e \in EventId, Active(e), Ahead(e)
          PROVE  Active(e)' /\ Ahead(e)'
      <4>1. event[e].occ > clock
        BY <1>0, <3>1, <3>2, <3>3, BoundAssumption
        DEF Active, Ahead, EventDue
      <4>2. QED
        BY <1>0, <2>1, <3>1, <3>3, <4>1 DEF Active, Ahead
    <3>4. outages' <= Window => \E e \in EventId : Active(e)' /\ Ahead(e)'
      BY <2>1, <3>1, <3>3 DEF HeadInv
    <3>5. QED
      BY <2>1, <3>2, <3>4 DEF HeadInv
  <2>4. QED
    BY <2>2, <2>3
<1>7. /\ UNCHANGED eventVars => UNCHANGED <<event, clock, outages, eventRun>>
      /\ ListEvents => UNCHANGED <<event, clock, outages>> /\ eventRun'.pc # "alarms"
      /\ (\E e \in EventId : ReadLastChild(e)) => UNCHANGED <<event, clock, outages, eventRun>>
      /\ Idle.pc # "alarms"
  BY DEF eventVars, ListEvents, ReadLastChild, tables, runs, bounds, Idle
<1>8. QED
  BY <1>1, <1>2, <1>3, <1>4, <1>5, <1>6, <1>7, CalendarStep

\* The event recurs until its rule ends as long as the dispatcher is away, and the event
\* paused, for no more than the window, whatever of a pause is lost to the dispatcher.
THEOREM ChainStaysAlive == Spec => []ChainAlive
<1>1. Init => ChainInv /\ HeadInv
  BY InitChain, InitHead
<1>2. Typed /\ Typed' /\ [Next]_vars /\ ChainInv /\ HeadInv => ChainInv' /\ HeadInv'
  BY ChainKept, HeadKept
<1>3. Typed /\ HeadInv => ChainAlive
  <2> SUFFICES ASSUME Typed, HeadInv, outages <= Window, HasNext
               PROVE  \E e \in EventId : Active(e) /\ event[e].occ >= clock - Window
    BY BoundAssumption DEF ChainAlive, HasNext, Active, Typed, EventTyped
  <2>1. /\ clock \in Nat /\ outages \in Nat /\ Window \in Nat
        /\ \A e \in EventId : event[e].occ \in Nat
    BY BoundAssumption DEF Typed, EventTyped, EventRow
  <2>2. QED
    BY <2>1 DEF HeadInv, Ahead
<1>4. QED
  BY <1>1, <1>2, <1>3, AlwaysTyped, PTL DEF Spec

-----------------------------------------------------------------------------
(***************************************************************************)
(* The call alarm of an event while nothing has failed.  One thing at a    *)
(* time is under way for it: a perform_alarm, a request, a call or a task. *)
(***************************************************************************)
Pend(e) == {k \in 1 .. Len(request[e]) : request[e][k] = "PENDING"}
Live(e) == {c \in 1 .. Len(call[e]) : call[e][c].state # "over"}
Runs(e) == requestRun.pc # "idle" /\ requestRun.e = e
Works(e) == worker.pc # "idle" /\ worker.e = e
Attempts(e) == alarm[e]["CALL"].num_attempt

\* A message is on its way, or the alarm is at rest.
Unserved(e) == Pend(e) = {} /\ Live(e) = {} /\ ~Runs(e) /\ ~Works(e)
AtRest(e) == Unserved(e) /\ ~Sends(e, "CALL") /\ performs[e] = 0

\* alarmrequest_dispatcher holds the request and its call.
Dispatching(e) ==
  Runs(e) =>
    /\ requestRun.c = Len(call[e]) /\ Live(e) = {Len(call[e])}
    /\ call[e][Len(call[e])].state \in {"created", "queued"}
    /\ Pend(e) = IF requestRun.pc = "count" THEN {} ELSE {requestRun.k}
    /\ requestRun.row = alarm[e]["CALL"]

\* The rows the worker saves are those of the table.
Working(e) ==
  Works(e) =>
    /\ Pend(e) = {} /\ Live(e) = {} /\ ~Runs(e)
    /\ worker.pc \in {"save", "retry"} => worker.row = alarm[e]["CALL"]
    /\ worker.pc = "retry" => Attempts(e) <= MaxRetry

OneAtATime(e) ==
  /\ Sends(e, "CALL") => Unserved(e) /\ performs[e] = 0
  /\ performs[e] <= 1 /\ (performs[e] = 1 => Unserved(e))
  /\ Pend(e) # {} /\ ~Runs(e) => Live(e) = {} /\ \E k \in Pend(e) : Pend(e) = {k}
  /\ Live(e) \subseteq {Len(call[e])}
  /\ Dispatching(e) /\ Working(e)

\* A call is counted when its turn ends, and only an alarm with attempts left is retried.
Counted(e) ==
  /\ Len(call[e]) <= Attempts(e) + (IF Runs(e) THEN 1 ELSE 0)
  /\ Len(call[e]) <= 1 + MaxRetry
  /\ Sends(e, "CALL") \/ performs[e] > 0 \/ (Pend(e) # {} /\ ~Runs(e)) => Len(call[e]) <= MaxRetry

Status(e) ==
  /\ ~Exists(e) => alarm[e]["CALL"].status = "none"
  /\ alarm[e]["CALL"].status \in {"none", "PENDING", "SUCCESS"} => AtRest(e)
  /\ alarm[e]["CALL"].status \in {"none", "PENDING"} => Len(call[e]) = 0

Served(e) == OneAtATime(e) /\ Counted(e) /\ Status(e)

CallInv ==
  faults = 0 /\ "CALL" \in Method => CopyClean("CALL") /\ \A e \in EventId : Served(e)

LEMMA InitCalls == Init => CallInv
<1> SUFFICES ASSUME Init, "CALL" \in Method PROVE CopyClean("CALL") /\ \A e \in EventId : Served(e)
  BY DEF CallInv
<1>1. CopyClean("CALL")
  BY DEF Init, Idle, CopyClean
<1>2. ASSUME NEW e \in EventId PROVE Served(e)
  <2>1. Len(call[e]) = 0 /\ Len(request[e]) = 0 /\ performs[e] = 0
    BY DEF Init
  <2>2. Pend(e) = {} /\ Live(e) = {}
    BY <2>1 DEF Pend, Live
  <2>3. ~Runs(e) /\ ~Works(e) /\ ~Sends(e, "CALL")
    BY DEF Init, Idle, Runs, Works, Sends
  <2>4. ~Exists(e) => alarm[e]["CALL"].status = "none"
    BY DEF Init, Exists, NoAlarm
  <2>5. Attempts(e) = 0
    BY DEF Init, NoAlarm, NewAlarm, Attempts
  <2>6. MaxRetry \in Nat
    BY BoundAssumption
  <2>7. QED
    BY <2>1, <2>2, <2>3, <2>4, <2>5, <2>6
    DEF Served, OneAtATime, Counted, Status, Dispatching, Working, Unserved, AtRest
<1>3. QED
  BY <1>1, <1>2

\* A step that does nothing for the call of an event.
LEMMA ServedFrame ==
  ASSUME NEW e \in EventId, Served(e), Exists(e) => Exists(e)',
         alarm'[e]["CALL"] = alarm[e]["CALL"], request'[e] = request[e], call'[e] = call[e],
         performs'[e] = performs[e], Sends(e, "CALL")' => Sends(e, "CALL"),
         UNCHANGED requestRun \/ ~(Runs(e) \/ Runs(e)'),
         UNCHANGED worker \/ ~(Works(e) \/ Works(e)')
  PROVE  Served(e)'
<1>1. Pend(e)' = Pend(e) /\ Live(e)' = Live(e) /\ Attempts(e)' = Attempts(e)
  BY DEF Pend, Live, Attempts
<1>2. (Runs(e)' <=> Runs(e)) /\ (Works(e)' <=> Works(e))
  BY DEF Runs, Works
<1>3. (Unserved(e)' <=> Unserved(e)) /\ (AtRest(e) => AtRest(e)')
  BY <1>1, <1>2 DEF Unserved, AtRest
<1>4. Dispatching(e)' /\ Working(e)'
  BY <1>1, <1>2 DEF Served, OneAtATime, Dispatching, Working, Runs, Works
<1>5. OneAtATime(e)'
  BY <1>1, <1>2, <1>3, <1>4 DEF Served, OneAtATime
<1>6. Counted(e)'
  BY <1>1, <1>2 DEF Served, Counted
<1>7. Status(e)'
  BY <1>3 DEF Served, Status
<1>8. QED
  BY <1>5, <1>6, <1>7 DEF Served

\* The live calls after a call changed its state, and the pending requests.
LEMMA LiveAfter ==
  ASSUME CallTyped, NEW e \in EventId, NEW c \in 1 .. Len(call[e]), NEW st \in CallState,
         SetCall(e, c, st)
  PROVE  /\ Live(e)' = IF st = "over" THEN Live(e) \ {c} ELSE Live(e) \cup {c}
         /\ Len(call'[e]) = Len(call[e]) /\ call'[e][c].state = st
         /\ \A f \in EventId : f # e => call'[f] = call[f]
<1>1. /\ \A f \in EventId : Len(call'[f]) = Len(call[f])
      /\ call'[e][c].state = st
      /\ \A d \in 1 .. Len(call[e]) : d # c => call'[e][d] = call[e][d]
  BY CallWritten
<1>2. \A f \in EventId : f # e => call'[f] = call[f]
  BY DEF SetCall, CallTyped
<1>3. Live(e)' = {d \in 1 .. Len(call[e]) : call'[e][d].state # "over"}
  BY <1>1 DEF Live
<1>4. QED
  BY <1>1, <1>2, <1>3 DEF Live

LEMMA PendAfter ==
  ASSUME CallTyped, NEW e \in EventId, NEW k \in 1 .. Len(request[e]),
         NEW st \in AlarmStatus \ {"PENDING"}, request' = [request EXCEPT ![e][k] = st]
  PROVE  /\ Pend(e)' = Pend(e) \ {k}
         /\ \A f \in EventId : f # e => request'[f] = request[f]
<1>1. /\ Len(request'[e]) = Len(request[e]) /\ request'[e][k] = st
      /\ \A j \in 1 .. Len(request[e]) : j # k => request'[e][j] = request[e][j]
  <2> DEFINE s == [request[e] EXCEPT ![k] = st]
  <2>1. request' = [request EXCEPT ![e] = s]
    OBVIOUS
  <2>2. Len(s) = Len(request[e])
        /\ \A j \in 1 .. Len(request[e]) : s[j] = IF j = k THEN st ELSE request[e][j]
    BY ExceptSeq DEF CallTyped
  <2> HIDE DEF s
  <2>3. QED
    BY <2>1, <2>2 DEF CallTyped
<1>2. \A f \in EventId : f # e => request'[f] = request[f]
  BY DEF CallTyped
<1>3. Pend(e)' = {j \in 1 .. Len(request[e]) : request'[e][j] = "PENDING"}
  BY <1>1 DEF Pend
<1>4. QED
  BY <1>1, <1>2, <1>3 DEF Pend

\* Who writes the row of a call's alarm.
LEMMA CallRow ==
  ASSUME Typed, [Next]_vars, "CALL" \in Method, NEW e \in EventId
  PROVE  \/ alarm'[e]["CALL"] = alarm[e]["CALL"]
         \/ CopyAlarm("CALL") /\ e = eventRun.new
         \/ MarkAlarm(e, "CALL")
         \/ CountAttempt /\ Runs(e)
         \/ (SaveOutcome \/ CheckRetry \/ RetryAlarm) /\ Works(e)
<1> USE DEF Typed
<1>1. CASE UNCHANGED alarm
  BY <1>1
<1>2. ASSUME NEW m \in Method, CopyAlarm(m)
      PROVE  alarm'[e]["CALL"] = alarm[e]["CALL"] \/ (m = "CALL" /\ e = eventRun.new)
  <2>1. eventRun \in Copying
    BY <1>2, RunKinds DEF CopyAlarm
  <2>2. [status |-> "PENDING", num_attempt |-> alarm[eventRun.e][m].num_attempt] \in AlarmRow
        /\ eventRun.new \in EventId
    BY <2>1 DEF AlarmTyped, AlarmRow, AlarmStatus, Copying
  <2>3. QED
    BY <1>2, <2>2, AlarmWritten DEF CopyAlarm
<1>3. ASSUME NEW f \in EventId, NEW m \in Method, MarkAlarm(f, m)
      PROVE  alarm'[e]["CALL"] = alarm[e]["CALL"] \/ (m = "CALL" /\ e = f)
  BY <1>3, StatusWritten DEF MarkAlarm, AlarmStatus
<1>4. ASSUME NEW f \in EventId, NEW m \in NoticeMethod, NoticeSaved(f, m)
      PROVE  alarm'[e]["CALL"] = alarm[e]["CALL"]
  BY <1>4, StatusWritten DEF NoticeSaved, AlarmStatus, NoticeMethod
<1>5. CASE CountAttempt
  <2>1. e # requestRun.e => alarm'[e]["CALL"] = alarm[e]["CALL"]
    BY <1>5, RunKinds DEF CountAttempt, AlarmTyped, Requesting
  <2>2. QED
    BY <1>5, <2>1 DEF CountAttempt, Runs
<1>6. CASE SaveOutcome \/ CheckRetry \/ RetryAlarm
  <2>1. worker.e \in EventId /\ worker.pc # "idle"
    BY <1>6, RunKinds DEF SaveOutcome, CheckRetry, RetryAlarm, Saving, Checking, Retrying
  <2>2. e # worker.e => alarm'[e]["CALL"] = alarm[e]["CALL"]
    BY <1>6, <2>1 DEF SaveOutcome, CheckRetry, RetryAlarm, AlarmTyped
  <2>3. QED
    BY <1>6, <2>1, <2>2 DEF Works
<1>7. \/ UNCHANGED alarm
      \/ CountAttempt \/ SaveOutcome \/ CheckRetry \/ RetryAlarm
      \/ \E m \in Method : CopyAlarm(m)
      \/ \E f \in EventId, m \in Method : MarkAlarm(f, m)
      \/ \E f \in EventId, m \in NoticeMethod : NoticeSaved(f, m)
  BY DEF Next, EventStep, ListEvents, CopyEvent, CompleteEvent, AlarmStep, SendPerform, RequestStep,
         SendInit, SaveRequest, CreateCall, NoticeStep, PerformNotice, NoticeMethod,
         MailStep, SendMailTask, MarkMail, SendMail, MailSent, CallStep, EndCall, WorkerStep,
         SendFailureSms, InitCall, TakeReport, ReadLastChild, SaveLastChild,
         PerformCall, LoseReport, Die, Tick, tables, vars
<1>8. QED
  BY <1>1, <1>2, <1>3, <1>4, <1>5, <1>6, <1>7

LEMMA CopyUncalledStep ==
  ASSUME Typed, [Next]_vars, "CALL" \in Method, CopyClean("CALL"), \A e \in EventId : Served(e)
  PROVE  CopyClean("CALL")'
<1>1. ASSUME NEW e \in EventId, alarm[e]["CALL"].status = "none"
      PROVE  alarm'[e]["CALL"] = alarm[e]["CALL"] \/ CopyAlarm("CALL")
  <2>1. ~Runs(e) /\ ~Works(e)
    BY <1>1 DEF Served, Status, AtRest, Unserved
  <2>2. ~MarkAlarm(e, "CALL")
    BY <1>1 DEF MarkAlarm, AlarmDue
  <2>3. QED
    BY <2>1, <2>2, CallRow
<1>2. \A e \in EventId : ~Exists(e) => alarm[e]["CALL"].status = "none"
  BY DEF Served, Status
<1>3. QED
  BY <1>1, <1>2, CopyCleanStep

LEMMA CountsTyped ==
  ASSUME Typed, "CALL" \in Method, NEW e \in EventId
  PROVE  /\ Len(call[e]) \in Nat /\ Len(request[e]) \in Nat /\ performs[e] \in Nat
         /\ Attempts(e) \in Nat /\ MaxRetry \in Nat
         /\ alarm[e]["CALL"] \in AlarmRow
BY BoundAssumption, SeqDomain DEF Typed, AlarmTyped, CallTyped, AlarmRow, Attempts

LEMMA ServedMark ==
  ASSUME Typed, Typed', [Next]_vars, "CALL" \in Method, NEW e \in EventId, Served(e),
         NEW f \in EventId, NEW m \in Method, MarkAlarm(f, m)
  PROVE  Served(e)'
<1> USE DEF Typed
<1>1. /\ alarmRun.pc = "idle" /\ alarmRun' = [pc |-> "send", e |-> f, m |-> m]
      /\ UNCHANGED <<event, request, call, performs, requestRun, worker>>
  BY DEF MarkAlarm, queues
<1>2. (Sends(e, "CALL")' <=> e = f /\ m = "CALL") /\ ~Sends(e, "CALL")
  BY <1>1 DEF Sends
<1>3. CASE e = f /\ m = "CALL"
  <2>1. Exists(e) /\ alarm[e]["CALL"].status = "PENDING"
    BY <1>3 DEF MarkAlarm, AlarmDue
  <2>2. alarm'[e]["CALL"].status = "IN_PROCESS" /\ Attempts(e)' = Attempts(e)
    BY <1>3, StatusWritten DEF MarkAlarm, AlarmStatus, Attempts
  <2>3. AtRest(e) /\ Len(call[e]) = 0
    BY <2>1 DEF Served, Status
  <2>4. /\ Unserved(e)' /\ performs'[e] = 0 /\ Len(call'[e]) = 0 /\ Exists(e)'
        /\ Live(e)' = {} /\ Pend(e)' = {} /\ ~Runs(e)' /\ ~Works(e)'
    BY <1>1, <2>1, <2>3 DEF AtRest, Unserved, Pend, Live, Runs, Works, Exists
  <2>5. QED
    BY <2>2, <2>4, CountsTyped
    DEF Served, OneAtATime, Counted, Status, Dispatching, Working
<1>4. CASE ~(e = f /\ m = "CALL")
  <2>1. alarm'[e]["CALL"] = alarm[e]["CALL"]
    BY <1>4, StatusWritten DEF MarkAlarm, AlarmStatus
  <2>2. QED
    BY <1>1, <1>2, <1>4, <2>1, ServedFrame DEF Exists
<1>5. QED
  BY <1>3, <1>4

LEMMA ServedSend ==
  ASSUME Typed, Typed', [Next]_vars, "CALL" \in Method, NEW e \in EventId, Served(e), SendPerform
  PROVE  Served(e)'
<1> USE DEF Typed
<1>1. /\ alarmRun \in Sending /\ alarmRun' = Idle
      /\ UNCHANGED <<event, alarm, request, call, requestRun, worker>>
  BY RunKinds DEF SendPerform, tables
<1>2. ~Sends(e, "CALL")'
  BY <1>1 DEF Sends, Idle
<1>3. CASE Sends(e, "CALL")
  <2>1. Unserved(e) /\ performs[e] = 0
    BY <1>3 DEF Served, OneAtATime
  <2>2. performs' = [performs EXCEPT ![e] = @ + 1]
    BY <1>3 DEF SendPerform, Sends
  <2>3. performs'[e] = 1
    BY <2>1, <2>2 DEF CallTyped
  <2>4. /\ Unserved(e)' /\ Attempts(e)' = Attempts(e)
        /\ Live(e)' = {} /\ Pend(e)' = {} /\ ~Runs(e)' /\ ~Works(e)'
    BY <1>1, <2>1 DEF Unserved, Pend, Live, Runs, Works, Attempts
  <2>5. Len(call[e]) <= MaxRetry /\ Len(call[e]) <= Attempts(e)
    BY <1>3, <2>1, CountsTyped DEF Served, Counted, Unserved
  <2>6. alarm[e]["CALL"].status \notin {"none", "PENDING", "SUCCESS"} /\ Exists(e)'
    BY <1>1, <1>3 DEF Served, Status, AtRest, Exists
  <2>7. QED
    BY <1>1, <1>2, <2>3, <2>4, <2>5, <2>6, CountsTyped
    DEF Served, OneAtATime, Counted, Status, Dispatching, Working
<1>4. CASE ~Sends(e, "CALL")
  <2>1. performs'[e] = performs[e]
    <3>1. CASE alarmRun.m = "CALL"
      BY <1>1, <1>4, <3>1 DEF SendPerform, Sends, Sending, CallTyped
    <3>2. CASE alarmRun.m # "CALL"
      BY <3>2 DEF SendPerform
    <3>3. QED
      BY <3>1, <3>2
  <2>2. QED
    BY <1>1, <1>2, <2>1, ServedFrame DEF Exists
<1>5. QED
  BY <1>3, <1>4

LEMMA ServedPerform ==
  ASSUME Typed, Typed', [Next]_vars, "CALL" \in Method, NEW e \in EventId, Served(e),
         NEW f \in EventId, PerformCall(f)
  PROVE  Served(e)'
<1> USE DEF Typed
<1>1. UNCHANGED <<event, alarm, call, requestRun, worker, alarmRun>>
  BY DEF PerformCall, runs
<1>2. /\ performs' = [performs EXCEPT ![f] = @ - 1] /\ performs[f] > 0
      /\ request' = [request EXCEPT ![f] = Append(request[f], "PENDING")]
  BY DEF PerformCall
<1>3. Sends(e, "CALL")' <=> Sends(e, "CALL")
  BY <1>1 DEF Sends
<1>4. CASE e = f
  <2>1. performs[e] = 1 /\ performs'[e] = 0 /\ Unserved(e)
    BY <1>2, <1>4, CountsTyped DEF Served, OneAtATime, CallTyped
  <2>2. request[e] \in Seq(AlarmStatus) /\ request'[e] = Append(request[e], "PENDING")
    BY <1>2, <1>4 DEF CallTyped
  <2>3. /\ Len(request'[e]) = Len(request[e]) + 1 /\ Len(request[e]) \in Nat
        /\ request'[e][Len(request[e]) + 1] = "PENDING"
        /\ \A j \in 1 .. Len(request[e]) : request'[e][j] = request[e][j]
    BY <2>2
  <2>4. Pend(e)' = {Len(request[e]) + 1}
    BY <2>1, <2>3 DEF Unserved, Pend
  <2>5. /\ Live(e)' = {} /\ ~Runs(e)' /\ ~Works(e)' /\ Attempts(e)' = Attempts(e)
    BY <1>1, <2>1 DEF Unserved, Live, Runs, Works, Attempts
  <2>6. Len(call[e]) <= MaxRetry /\ Len(call[e]) <= Attempts(e)
    BY <2>1, CountsTyped DEF Served, Counted, Unserved
  <2>7. /\ alarm[e]["CALL"].status \notin {"none", "PENDING", "SUCCESS"} /\ Exists(e)'
        /\ ~Sends(e, "CALL")
    BY <1>1, <2>1 DEF Served, Status, AtRest, Exists, OneAtATime
  <2>8. QED
    BY <1>1, <1>3, <2>1, <2>4, <2>5, <2>6, <2>7, CountsTyped
    DEF Served, OneAtATime, Counted, Status, Dispatching, Working
<1>5. CASE e # f
  <2>1. performs'[e] = performs[e] /\ request'[e] = request[e]
    BY <1>2, <1>5 DEF CallTyped
  <2>2. QED
    BY <1>1, <1>3, <2>1, ServedFrame DEF Exists
<1>6. QED
  BY <1>4, <1>5

LEMMA ServedCreate ==
  ASSUME Typed, Typed', [Next]_vars, "CALL" \in Method, NEW e \in EventId, Served(e),
         NEW f \in EventId, NEW k \in DOMAIN request[f], CreateCall(f, k)
  PROVE  Served(e)'
<1> USE DEF Typed
<1>1. /\ requestRun.pc = "idle" /\ k \in 1 .. Len(request[f]) /\ request[f][k] = "PENDING"
      /\ call' = [call EXCEPT ![f] = Append(call[f], [request |-> k, state |-> "created"])]
      /\ requestRun' = [pc |-> "send", e |-> f, k |-> k, c |-> Len(call[f]) + 1,
                        row |-> alarm[f]["CALL"]]
      /\ UNCHANGED <<event, alarm, request, performs, alarmRun, worker>>
  BY Callable DEF CreateCall, queues
<1>2. ~Runs(e) /\ (Sends(e, "CALL")' <=> Sends(e, "CALL")) /\ (Works(e)' <=> Works(e))
  BY <1>1 DEF Runs, Sends, Works
<1>3. Pend(e)' = Pend(e) /\ Attempts(e)' = Attempts(e)
  BY <1>1 DEF Pend, Attempts
<1>4. CASE e = f
  <2>1. k \in Pend(e)
    BY <1>1, <1>4 DEF Pend
  <2>2. Pend(e) = {k} /\ Live(e) = {} /\ Len(call[e]) <= MaxRetry
    BY <1>2, <2>1 DEF Served, OneAtATime, Counted
  <2>3. ~Sends(e, "CALL") /\ performs[e] = 0 /\ ~Works(e)
    BY <2>1, CountsTyped DEF Served, OneAtATime, Unserved, Working
  <2>4. /\ call[e] \in Seq(Call)
        /\ call'[e] = Append(call[e], [request |-> k, state |-> "created"])
    BY <1>1, <1>4 DEF CallTyped
  <2>5. /\ Len(call'[e]) = Len(call[e]) + 1 /\ Len(call[e]) \in Nat
        /\ call'[e][Len(call[e]) + 1].state = "created"
        /\ \A c \in 1 .. Len(call[e]) : call'[e][c] = call[e][c]
    BY <2>4
  <2>6. Live(e)' = {Len(call[e]) + 1}
    BY <2>2, <2>5 DEF Live
  <2>7. Runs(e)' /\ ~Works(e)'
    BY <1>1, <1>2, <1>4, <2>3 DEF Runs
  <2>8. Dispatching(e)'
    BY <1>1, <1>3, <1>4, <2>2, <2>5, <2>6 DEF Dispatching
  <2>9. alarm[e]["CALL"].status \notin {"none", "PENDING", "SUCCESS"} /\ Exists(e)'
    BY <1>1, <2>2 DEF Served, Status, AtRest, Unserved, Exists
  <2>10. Len(call[e]) <= Attempts(e)
    BY <1>2, CountsTyped DEF Served, Counted
  <2>11. QED
    BY <1>1, <1>2, <1>3, <2>2, <2>3, <2>5, <2>6, <2>7, <2>8, <2>9, <2>10, CountsTyped
    DEF Served, OneAtATime, Counted, Status, Working
<1>5. CASE e # f
  <2>1. call'[e] = call[e] /\ ~Runs(e)'
    BY <1>1, <1>5 DEF CallTyped, Runs
  <2>2. QED
    BY <1>1, <1>2, <2>1, ServedFrame DEF Exists
<1>6. QED
  BY <1>4, <1>5

\* The three steps that end the turn of a request.
LEMMA ServedTurn ==
  ASSUME Typed, Typed', [Next]_vars, "CALL" \in Method, NEW e \in EventId, Served(e),
         SendInit \/ SaveRequest \/ CountAttempt
  PROVE  Served(e)'
<1> USE DEF Typed
<1>1. /\ requestRun \in Requesting /\ requestRun.pc # "idle"
      /\ UNCHANGED <<event, performs, alarmRun, worker>>
  BY RunKinds DEF SendInit, SaveRequest, CountAttempt, queues
<1>2. PICK f \in EventId : f = requestRun.e
  BY <1>1 DEF Requesting
<1>3. (Sends(e, "CALL")' <=> Sends(e, "CALL")) /\ (Works(e)' <=> Works(e))
  BY <1>1 DEF Sends, Works
<1>4. PICK c \in 1 .. Len(call[f]), k \in 1 .. Len(request[f]) :
        c = requestRun.c /\ k = requestRun.k
  BY <1>1, <1>2 DEF CallTyped
<1>5. CASE e # f
  <2>1. call'[e] = call[e] /\ request'[e] = request[e]
    BY <1>2, <1>4, <1>5 DEF SendInit, SaveRequest, CountAttempt, CallTyped
  <2>2. alarm'[e]["CALL"] = alarm[e]["CALL"]
    BY <1>1, <1>2, <1>5 DEF SendInit, SaveRequest, CountAttempt, AlarmTyped
  <2>3. ~Runs(e) /\ ~Runs(e)'
    BY <1>1, <1>2, <1>5 DEF Runs, SendInit, SaveRequest, CountAttempt, Requesting, Idle
  <2>4. QED
    BY <1>1, <1>3, <2>1, <2>2, <2>3, ServedFrame DEF Exists
<1>6. CASE e = f
  <2>1. Runs(e)
    BY <1>1, <1>2, <1>6 DEF Runs
  <2>2. /\ c = Len(call[e]) /\ Live(e) = {c}
        /\ call[e][c].state \in {"created", "queued"}
        /\ Pend(e) = IF requestRun.pc = "count" THEN {} ELSE {k}
        /\ requestRun.row = alarm[e]["CALL"]
    BY <1>4, <2>1 DEF Served, OneAtATime, Dispatching
  <2>3. ~Sends(e, "CALL") /\ performs[e] = 0 /\ ~Works(e) /\ Exists(e)'
        /\ alarm[e]["CALL"].status \notin {"none", "PENDING", "SUCCESS"}
    BY <1>1, <2>1, CountsTyped DEF Served, OneAtATime, Unserved, Working, Status, AtRest, Exists
  <2>4. Len(call[e]) <= Attempts(e) + 1 /\ Len(call[e]) <= 1 + MaxRetry
    BY <2>1 DEF Served, Counted
  <2>5. CASE SendInit
    <3>1. SetCall(e, c, "queued") /\ "queued" \in CallState
      BY <1>2, <1>4, <1>6, <2>5 DEF SendInit, SetCall, CallState
    <3>2. Live(e)' = {c} /\ Len(call'[e]) = Len(call[e]) /\ call'[e][c].state = "queued"
      BY <1>6, <2>2, <3>1, LiveAfter
    <3>3. UNCHANGED <<alarm, request>> /\ requestRun.pc = "send"
      BY <2>5 DEF SendInit
    <3>4. requestRun'.pc = "save" /\ requestRun'.e = e /\ requestRun'.k = k
          /\ requestRun'.c = c /\ requestRun'.row = requestRun.row
      BY <1>1, <1>2, <1>4, <1>6, <2>5 DEF SendInit, Requesting
    <3>5. Pend(e)' = {k} /\ Attempts(e)' = Attempts(e) /\ Runs(e)'
      BY <2>2, <3>3, <3>4 DEF Pend, Attempts, Runs
    <3>6. Dispatching(e)'
      BY <2>2, <3>2, <3>3, <3>4, <3>5 DEF Dispatching
    <3>7. QED
      BY <1>1, <1>3, <2>2, <2>3, <2>4, <3>2, <3>3, <3>5, <3>6, CountsTyped
      DEF Served, OneAtATime, Counted, Status, Working
  <2>6. CASE SaveRequest
    <3>1. /\ request' = [request EXCEPT ![e][k] = "IN_PROCESS"]
          /\ "IN_PROCESS" \in AlarmStatus \ {"PENDING"} /\ requestRun.pc = "save"
      BY <1>2, <1>4, <1>6, <2>6 DEF SaveRequest, AlarmStatus
    <3>2. Pend(e)' = {}
      BY <1>6, <2>2, <3>1, PendAfter
    <3>3. UNCHANGED <<alarm, call>>
      BY <2>6 DEF SaveRequest
    <3>4. requestRun'.pc = "count" /\ requestRun'.e = e
          /\ requestRun'.c = c /\ requestRun'.row = requestRun.row
      BY <1>1, <1>2, <1>4, <1>6, <2>6 DEF SaveRequest, Requesting
    <3>5. Live(e)' = {c} /\ Attempts(e)' = Attempts(e) /\ Runs(e)'
      BY <2>2, <3>3, <3>4 DEF Live, Attempts, Runs
    <3>6. Dispatching(e)'
      BY <2>2, <3>2, <3>3, <3>4, <3>5 DEF Dispatching
    <3>7. QED
      BY <1>1, <1>3, <2>2, <2>3, <2>4, <3>2, <3>3, <3>5, <3>6, CountsTyped
      DEF Served, OneAtATime, Counted, Status, Working
  <2>7. CASE CountAttempt
    <3> DEFINE row == [requestRun.row EXCEPT !.num_attempt = @ + 1]
    <3>1. row \in AlarmRow /\ row.status = alarm[e]["CALL"].status
          /\ row.num_attempt = Attempts(e) + 1
      BY <2>2, CountsTyped DEF AlarmRow, Attempts
    <3>2. alarm' = [alarm EXCEPT ![e]["CALL"] = row]
      BY <1>2, <1>6, <2>7 DEF CountAttempt
    <3> HIDE DEF row
    <3>3. alarm'[e]["CALL"] = row
      BY <3>2 DEF AlarmTyped
    <3>4. UNCHANGED <<call, request>> /\ requestRun.pc = "count" /\ requestRun' = Idle
      BY <2>7 DEF CountAttempt
    <3>5. /\ Live(e)' = {c} /\ Pend(e)' = {} /\ ~Runs(e)' /\ Attempts(e)' = Attempts(e) + 1
      BY <2>2, <3>1, <3>3, <3>4 DEF Live, Pend, Runs, Idle, Attempts
    <3>6. QED
      BY <1>1, <1>3, <2>2, <2>3, <2>4, <3>1, <3>3, <3>4, <3>5, CountsTyped
      DEF Served, OneAtATime, Counted, Status, Dispatching, Working
  <2>8. QED
    BY <2>5, <2>6, <2>7
<1>7. QED
  BY <1>5, <1>6

\* A live call that no dispatcher holds is the only thing under way for its alarm.
LEMMA LiveCall ==
  ASSUME Typed, "CALL" \in Method, NEW e \in EventId, Served(e), NEW c \in Live(e),
         call[e][c].state \notin {"created", "queued"} \/ Dispatched(e, c)
  PROVE  /\ c = Len(call[e]) /\ Live(e) = {c} /\ Pend(e) = {} /\ ~Runs(e) /\ ~Works(e)
         /\ ~Sends(e, "CALL") /\ performs[e] = 0
         /\ alarm[e]["CALL"].status \notin {"none", "PENDING", "SUCCESS"}
         /\ Len(call[e]) <= Attempts(e) /\ Len(call[e]) <= 1 + MaxRetry
<1>1. c = Len(call[e]) /\ Live(e) = {c}
  BY DEF Served, OneAtATime
<1>2. ~Runs(e)
  BY <1>1 DEF Served, OneAtATime, Dispatching, Dispatched, Runs
<1>3. /\ Pend(e) = {} /\ ~Works(e) /\ ~Sends(e, "CALL") /\ performs[e] = 0
      /\ alarm[e]["CALL"].status \notin {"none", "PENDING", "SUCCESS"}
  BY <1>1, <1>2, CountsTyped
  DEF Served, OneAtATime, Unserved, Working, Status, AtRest
<1>4. QED
  BY <1>1, <1>2, <1>3, CountsTyped DEF Served, Counted

LEMMA ServedCall ==
  ASSUME Typed, Typed', [Next]_vars, "CALL" \in Method, NEW e \in EventId, Served(e),
         faults = 0, faults' = 0,
         NEW f \in EventId, NEW c \in DOMAIN call[f],
         InitCall(f, c) \/ EndCall(f, c) \/ LoseReport(f, c) \/ TakeReport(f, c)
  PROVE  Served(e)'
<1> USE DEF Typed
<1>1. /\ ~Fault
      /\ UNCHANGED <<event, alarm, request, performs, alarmRun, requestRun>>
      /\ c \in 1 .. Len(call[f])
  BY Callable DEF Fault, InitCall, EndCall, LoseReport, TakeReport, queues, runs
<1>2. /\ (Sends(e, "CALL")' <=> Sends(e, "CALL")) /\ (Runs(e)' <=> Runs(e))
      /\ Pend(e)' = Pend(e) /\ Attempts(e)' = Attempts(e) /\ (Exists(e)' <=> Exists(e))
  BY <1>1 DEF Sends, Runs, Pend, Attempts, Exists
<1>3. \E st \in CallState : SetCall(f, c, st)
  BY <1>1 DEF InitCall, EndCall, LoseReport, TakeReport, CallState
<1>4. CASE e # f
  <2>1. call'[e] = call[e]
    BY <1>3, <1>4 DEF SetCall, CallTyped
  <2>2. UNCHANGED worker \/ ~(Works(e) \/ Works(e)')
    BY <1>4 DEF Works, InitCall, EndCall, LoseReport, TakeReport, Task, runs
  <2>3. QED
    BY <1>1, <1>2, <2>1, <2>2, ServedFrame
<1>5. CASE e = f
  <2>1. c \in Live(e)
    BY <1>1, <1>5 DEF Live, InitCall, EndCall, LoseReport, TakeReport
  <2>2. call[e][c].state \notin {"created", "queued"} \/ Dispatched(e, c)
    BY <1>1, <1>5 DEF InitCall, EndCall, LoseReport, TakeReport, Timing
  <2>3. /\ c = Len(call[e]) /\ Live(e) = {c} /\ Pend(e) = {} /\ ~Runs(e) /\ ~Works(e)
        /\ ~Sends(e, "CALL") /\ performs[e] = 0
        /\ alarm[e]["CALL"].status \notin {"none", "PENDING", "SUCCESS"}
        /\ Len(call[e]) <= Attempts(e) /\ Len(call[e]) <= 1 + MaxRetry
    BY <2>1, <2>2, LiveCall
  <2>4. PICK st \in CallState : SetCall(e, c, st)
    BY <1>3, <1>5
  <2>5. /\ Live(e)' = IF st = "over" THEN {} ELSE {c}
        /\ Len(call'[e]) = Len(call[e]) /\ call'[e][c].state = st
    BY <1>1, <1>5, <2>3, <2>4, LiveAfter
  <2>6. CASE UNCHANGED worker
    <3>1. ~Works(e)'
      BY <2>3, <2>6 DEF Works
    <3>2. QED
      BY <1>1, <1>2, <2>3, <2>5, <3>1, CountsTyped
      DEF Served, OneAtATime, Counted, Status, Dispatching, Working
  <2>7. CASE ~UNCHANGED worker
    <3>1. /\ SetCall(e, c, "over") /\ "over" \in CallState
          /\ \/ worker' = Task("check", e, c)
             \/ worker' = [pc |-> "save", e |-> e, k |-> call[e][c].request,
                           row |-> alarm[e]["CALL"], outcome |-> call[e][c].state]
      BY <1>1, <1>5, <2>7 DEF InitCall, EndCall, LoseReport, TakeReport, runs, CallState
    <3>2. Live(e)' = {}
      BY <1>1, <1>5, <2>3, <3>1, LiveAfter
    <3>3. worker'.pc \in {"save", "check"} /\ (worker'.pc = "save" => worker'.row = alarm[e]["CALL"])
      BY <3>1 DEF Task
    <3>4. QED
      BY <1>1, <1>2, <2>3, <2>5, <3>2, <3>3, CountsTyped
      DEF Served, OneAtATime, Counted, Status, Dispatching, Working
  <2>8. QED
    BY <2>6, <2>7
<1>6. QED
  BY <1>4, <1>5

LEMMA ServedWork ==
  ASSUME Typed, Typed', [Next]_vars, "CALL" \in Method, NEW e \in EventId, Served(e),
         SaveOutcome \/ CheckRetry \/ RetryAlarm \/ SendFailureSms
  PROVE  Served(e)'
<1> USE DEF Typed
<1>1. /\ UNCHANGED <<event, call, alarmRun, requestRun>>
      /\ worker \in Saving \cup Checking \cup Retrying \cup Failing /\ worker.pc # "idle"
  BY RunKinds DEF SaveOutcome, CheckRetry, RetryAlarm, SendFailureSms, queues
<1>2. PICK f \in EventId : f = worker.e
  BY <1>1 DEF Saving, Checking, Retrying, Failing
<1>3. /\ (Sends(e, "CALL")' <=> Sends(e, "CALL")) /\ (Runs(e)' <=> Runs(e))
      /\ Live(e)' = Live(e) /\ (Exists(e)' <=> Exists(e)) /\ Len(call'[e]) = Len(call[e])
  BY <1>1 DEF Sends, Runs, Live, Exists
<1>4. CASE e # f
  <2>1. request'[e] = request[e] /\ performs'[e] = performs[e]
    BY <1>2, <1>4 DEF SaveOutcome, CheckRetry, RetryAlarm, SendFailureSms, CallTyped, queues
  <2>2. alarm'[e]["CALL"] = alarm[e]["CALL"]
    BY <1>2, <1>4 DEF SaveOutcome, CheckRetry, RetryAlarm, SendFailureSms, AlarmTyped
  <2>3. ~(Works(e) \/ Works(e)')
    BY <1>2, <1>4 DEF Works, SaveOutcome, CheckRetry, RetryAlarm, SendFailureSms, Idle
  <2>4. QED
    BY <1>1, <1>3, <2>1, <2>2, <2>3, ServedFrame
<1>5. CASE e = f
  <2>1. Works(e)
    BY <1>1, <1>2, <1>5 DEF Works
  <2>2. /\ Pend(e) = {} /\ Live(e) = {} /\ ~Runs(e) /\ ~Sends(e, "CALL") /\ performs[e] = 0
        /\ worker.pc \in {"save", "retry"} => worker.row = alarm[e]["CALL"]
        /\ worker.pc = "retry" => Attempts(e) <= MaxRetry
        /\ alarm[e]["CALL"].status \notin {"none", "PENDING", "SUCCESS"} /\ Exists(e)
    BY <2>1, CountsTyped DEF Served, OneAtATime, Unserved, Working, Status, AtRest
  <2>3. Len(call[e]) <= Attempts(e) /\ Len(call[e]) <= 1 + MaxRetry
    BY <2>2, CountsTyped DEF Served, Counted
  <2>4. CASE SaveOutcome \/ CheckRetry
    <3>1. PICK st \in {"SUCCESS", "FAILURE", "RETRY"} :
            /\ request' = [request EXCEPT ![e][worker.k] = st]
            /\ alarm'[e]["CALL"].status = st /\ Attempts(e)' = Attempts(e)
            /\ st = "SUCCESS" => worker' = Idle
            /\ st = "RETRY" => MayRetry(e)
            /\ worker'.pc \in {"idle", "check", "retry", "sms"}
            /\ worker'.pc = "retry" => worker'.row = alarm'[e]["CALL"] /\ MayRetry(e)
      <4>1. CASE SaveOutcome
        <5> DEFINE st == IF worker.outcome = "answered" THEN "SUCCESS" ELSE "FAILURE"
                   row == [worker.row EXCEPT !.status = st]
        <5>1. alarm' = [alarm EXCEPT ![e]["CALL"] = row]
              /\ request' = [request EXCEPT ![e][worker.k] = st]
          BY <1>2, <1>5, <4>1 DEF SaveOutcome
        <5>2. worker.row = alarm[e]["CALL"]
          BY <2>2, <4>1 DEF SaveOutcome
        <5>3. row.status = st /\ row.num_attempt = Attempts(e)
          BY <5>2, CountsTyped DEF AlarmRow, Attempts
        <5>4. (st = "SUCCESS" => worker' = Idle) /\ worker'.pc \in {"idle", "check"}
          BY <4>1 DEF SaveOutcome, Idle
        <5>5. st \in {"SUCCESS", "FAILURE"}
          OBVIOUS
        <5> HIDE DEF row, st
        <5>6. alarm'[e]["CALL"] = row
          BY <5>1 DEF AlarmTyped
        <5>7. QED
          BY <5>1, <5>3, <5>4, <5>5, <5>6 DEF Attempts
      <4>2. CASE CheckRetry
        <5> DEFINE st == IF MayRetry(e) THEN "RETRY" ELSE "FAILURE"
                   row == [alarm[e]["CALL"] EXCEPT !.status = st]
        <5>1. alarm' = [alarm EXCEPT ![e]["CALL"] = row]
              /\ request' = [request EXCEPT ![e][worker.k] = st]
          BY <1>2, <1>5, <4>2 DEF CheckRetry
        <5>2. row.status = st /\ row.num_attempt = Attempts(e)
          BY CountsTyped DEF AlarmRow, Attempts
        <5>3. /\ worker'.pc \in {"retry", "sms"}
              /\ worker'.pc = "retry" => worker'.row = alarm'[e]["CALL"] /\ MayRetry(e)
          BY <1>2, <1>5, <4>2 DEF CheckRetry
        <5>4. st \in {"RETRY", "FAILURE"} /\ (st = "RETRY" => MayRetry(e))
          OBVIOUS
        <5> HIDE DEF row, st
        <5>5. alarm'[e]["CALL"] = row
          BY <5>1 DEF AlarmTyped
        <5>6. QED
          BY <5>1, <5>2, <5>3, <5>4, <5>5 DEF Attempts
      <4>3. QED
        BY <2>4, <4>1, <4>2
    <3>2. worker.k \in 1 .. Len(request[e]) /\ st \in AlarmStatus \ {"PENDING"}
      BY <1>2, <1>5, <2>4 DEF SaveOutcome, CheckRetry, CallTyped, AlarmStatus
    <3>3. PICK k \in 1 .. Len(request[e]) : k = worker.k
      BY <3>2
    <3>4. request' = [request EXCEPT ![e][k] = st]
      BY <3>1, <3>3
    <3>5. Pend(e)' = {}
      BY <2>2, <3>2, <3>4, PendAfter
    <3>6. performs' = performs
      BY <2>4 DEF SaveOutcome, CheckRetry, queues
    <3>7. MayRetry(e) => Attempts(e) <= MaxRetry
      BY CountsTyped DEF MayRetry, Attempts
    <3>8. Working(e)'
      BY <1>3, <2>2, <3>1, <3>5, <3>7 DEF Working
    <3>9. st = "SUCCESS" => ~Works(e)'
      BY <3>1 DEF Works, Idle
    <3>10. QED
      BY <1>3, <2>2, <2>3, <3>1, <3>5, <3>6, <3>8, <3>9, CountsTyped
      DEF Served, OneAtATime, Counted, Status, Dispatching, Unserved, AtRest
  <2>5. CASE RetryAlarm
    <3> DEFINE row == [worker.row EXCEPT !.status = "IN_PROCESS"]
    <3>1. worker.row = alarm[e]["CALL"] /\ Attempts(e) <= MaxRetry
      BY <2>2, <2>5 DEF RetryAlarm
    <3>2. row.status = "IN_PROCESS" /\ row.num_attempt = Attempts(e)
      BY <3>1, CountsTyped DEF AlarmRow, Attempts
    <3>3. alarm' = [alarm EXCEPT ![e]["CALL"] = row] /\ performs' = [performs EXCEPT ![e] = @ + 1]
          /\ UNCHANGED request /\ worker' = Idle
      BY <1>2, <1>5, <2>5 DEF RetryAlarm
    <3> HIDE DEF row
    <3>4. alarm'[e]["CALL"] = row /\ performs'[e] = 1
      BY <2>2, <3>3 DEF AlarmTyped, CallTyped
    <3>5. Pend(e)' = {} /\ ~Works(e)' /\ Attempts(e)' = Attempts(e)
      BY <2>2, <3>2, <3>3, <3>4 DEF Pend, Works, Idle, Attempts
    <3>6. QED
      BY <1>3, <2>2, <2>3, <3>1, <3>2, <3>4, <3>5, CountsTyped
      DEF Served, OneAtATime, Counted, Status, Dispatching, Working, Unserved, AtRest
  <2>6. CASE SendFailureSms
    <3>1. UNCHANGED <<alarm, request, performs>> /\ worker' = Idle
      BY <2>6 DEF SendFailureSms, queues
    <3>2. Pend(e)' = {} /\ ~Works(e)' /\ Attempts(e)' = Attempts(e)
      BY <2>2, <3>1 DEF Pend, Works, Idle, Attempts
    <3>3. QED
      BY <1>3, <2>2, <2>3, <3>1, <3>2, CountsTyped
      DEF Served, OneAtATime, Counted, Status, Dispatching, Working, Unserved, AtRest
  <2>7. QED
    BY <2>4, <2>5, <2>6
<1>6. QED
  BY <1>4, <1>5

\* The steps of the calendar, the SMS and the e-mails.
LEMMA ServedOther ==
  ASSUME Typed, Typed', [Next]_vars, "CALL" \in Method, CopyClean("CALL"),
         NEW e \in EventId, Served(e),
         UNCHANGED <<request, call, performs, alarmRun, requestRun, worker>>
  PROVE  Served(e)'
<1> USE DEF Typed
<1>1. (Sends(e, "CALL")' <=> Sends(e, "CALL")) /\ (Exists(e) => Exists(e)')
  BY ExistsKept DEF Sends
<1>2. CASE alarm'[e]["CALL"] = alarm[e]["CALL"]
  BY <1>1, <1>2, ServedFrame
<1>3. CASE CopyAlarm("CALL") /\ e = eventRun.new
  <2>1. alarm[e]["CALL"].status = "none" /\ Exists(e)
    BY <1>3 DEF CopyClean, CopyAlarm
  <2>2. AtRest(e) /\ Len(call[e]) = 0
    BY <2>1 DEF Served, Status
  <2>3. AtRest(e)' /\ Len(call'[e]) = 0 /\ Pend(e)' = Pend(e) /\ Live(e)' = Live(e)
        /\ ~Runs(e)' /\ ~Works(e)'
    BY <1>1, <2>2 DEF AtRest, Unserved, Pend, Live, Runs, Works
  <2>4. alarm'[e]["CALL"] \in AlarmRow /\ Attempts(e)' \in Nat /\ MaxRetry \in Nat
    BY BoundAssumption DEF AlarmTyped, AlarmRow, Attempts
  <2>5. QED
    BY <1>1, <2>1, <2>2, <2>3, <2>4
    DEF Served, OneAtATime, Counted, Status, Dispatching, Working, AtRest, Unserved
<1>4. ~MarkAlarm(e, "CALL") /\ ~CountAttempt /\ ~SaveOutcome /\ ~CheckRetry /\ ~RetryAlarm
  <2>1. ~MarkAlarm(e, "CALL")
    BY DEF MarkAlarm
  <2>2. ~CountAttempt
    BY DEF CountAttempt, Idle
  <2>3. ~SaveOutcome /\ ~RetryAlarm
    BY DEF SaveOutcome, RetryAlarm, Idle
  <2>4. ~CheckRetry
    BY DEF CheckRetry
  <2>5. QED
    BY <2>1, <2>2, <2>3, <2>4
<1>5. QED
  BY <1>2, <1>3, <1>4, CallRow

LEMMA CallsKept ==
  ASSUME Typed, Typed', [Next]_vars, CallInv
  PROVE  CallInv'
<1> SUFFICES ASSUME faults' = 0, "CALL" \in Method
             PROVE  CopyClean("CALL")' /\ \A e \in EventId : Served(e)'
  BY DEF CallInv
<1>1. faults = 0 /\ CopyClean("CALL") /\ \A e \in EventId : Served(e)
  BY FaultsGrow DEF CallInv
<1>2. CopyClean("CALL")'
  BY <1>1, CopyUncalledStep
<1>3. ASSUME NEW e \in EventId PROVE Served(e)'
  <2>1. CASE EventStep \/ (\E f \in EventId : ReadLastChild(f)) \/ SaveLastChild \/ Tick
             \/ NoticeStep \/ MailStep \/ UNCHANGED vars
    <3>1. UNCHANGED <<request, call, performs, alarmRun, requestRun, worker>>
      BY <2>1 DEF EventStep, ListEvents, CopyEvent, CompleteEvent, CopyAlarm, ReadLastChild,
                  SaveLastChild, Tick, NoticeStep, PerformNotice, NoticeSaved, MailStep,
                  SendMailTask, MarkMail, SendMail, MailSent, tables, queues, runs, vars
    <3>2. QED
      BY <1>1, <3>1, ServedOther
  <2>2. CASE AlarmStep
    BY <1>1, <2>2, ServedMark, ServedSend DEF AlarmStep
  <2>3. CASE RequestStep
    BY <1>1, <2>3, ServedCreate, ServedTurn DEF RequestStep
  <2>4. ASSUME NEW f \in EventId, PerformCall(f) PROVE Served(e)'
    BY <1>1, <2>4, ServedPerform
  <2>5. ASSUME NEW f \in EventId, NEW c \in DOMAIN call[f],
               InitCall(f, c) \/ EndCall(f, c) \/ LoseReport(f, c) \/ TakeReport(f, c)
        PROVE  Served(e)'
    BY <1>1, <2>5, ServedCall
  <2>6. CASE SaveOutcome \/ CheckRetry \/ RetryAlarm \/ SendFailureSms
    BY <1>1, <2>6, ServedWork
  <2>7. ~Die
    BY <1>1 DEF Die, Fault
  <2>8. QED
    BY <2>1, <2>2, <2>3, <2>4, <2>5, <2>6, <2>7 DEF Next, CallStep, WorkerStep
<1>4. QED
  BY <1>2, <1>3

LEMMA AlwaysCallInv == Spec => []CallInv
<1>1. Init => CallInv
  BY InitCalls
<1>2. Typed /\ Typed' /\ [Next]_vars /\ CallInv => CallInv'
  BY CallsKept
<1>3. QED
  BY <1>1, <1>2, AlwaysTyped, PTL DEF Spec

\* While nothing fails, never more calls than maxretry allows, and one at a time: the
\* request is handed on before the next one is made, and a call is counted before it starts.
THEOREM CallsStayBounded == Spec => []CallsBounded
<1>1. Typed /\ CallInv => CallsBounded
  <2> SUFFICES ASSUME Typed, CallInv, faults = 0, NEW e \in EventId
               PROVE  /\ Len(call[e]) <= 1 + MaxRetry
                      /\ Cardinality({c \in DOMAIN call[e] : call[e][c].state # "over"}) <= 1
    BY DEF CallsBounded
  <2>1. DOMAIN call[e] = 1 .. Len(call[e]) /\ Len(call[e]) \in Nat /\ MaxRetry \in Nat
    BY Callable, BoundAssumption DEF Typed
  <2>2. CASE "CALL" \in Method
    <3>1. Live(e) \in SUBSET {Len(call[e])} /\ Len(call[e]) <= 1 + MaxRetry
      BY <2>2 DEF CallInv, Served, OneAtATime, Counted
    <3>2. CASE Live(e) = {}
      <4>1. Cardinality({c \in DOMAIN call[e] : call[e][c].state # "over"}) = 0
        BY <2>1, <3>2, FS_EmptySet, Zenon DEF Live
      <4>2. QED
        BY <3>1, <4>1
    <3>3. CASE Live(e) = {Len(call[e])}
      <4>1. Cardinality({c \in DOMAIN call[e] : call[e][c].state # "over"}) = 1
        BY <2>1, <3>3, FS_Singleton, Zenon DEF Live
      <4>2. QED
        BY <3>1, <4>1
    <3>4. Live(e) = {} \/ Live(e) = {Len(call[e])}
      BY <3>1
    <3>5. QED
      BY <3>2, <3>3, <3>4
  <2>3. CASE "CALL" \notin Method
    <3>1. 1 .. Len(call[e]) = {}
      BY <2>3, Callable DEF Typed
    <3>2. Cardinality({c \in DOMAIN call[e] : call[e][c].state # "over"}) = 0
      <4>1. {c \in DOMAIN call[e] : call[e][c].state # "over"} = {}
        BY <2>1, <3>1
      <4>2. QED
        BY <4>1, FS_EmptySet, Zenon
    <3>3. Len(call[e]) = 0
      <4>1. Len(call[e]) > 0 => 1 \in 1 .. Len(call[e])
        BY <2>1
      <4>2. QED
        BY <2>1, <3>1, <4>1
    <3>4. QED
      BY <2>1, <3>2, <3>3
  <2>4. QED
    BY <2>2, <2>3
<1>2. QED
  BY <1>1, AlwaysTyped, AlwaysCallInv, PTL

\* While nothing fails, a call that was delivered stays so: no other attempt was on its
\* way, so nothing is left that could place it again or report that it failed.
THEOREM DeliveryIsFinal == Spec => DeliveredIsFinal
<1>1. ASSUME Typed, Typed', CallInv, [Next]_vars, NEW e \in EventId,
             "CALL" \in Method, faults' = 0, alarm[e]["CALL"].status = "SUCCESS"
      PROVE  /\ alarm'[e]["CALL"].status = "SUCCESS" /\ Len(request'[e]) = Len(request[e])
             /\ failureSms'[e] = failureSms[e]
  <2>1. faults = 0 /\ CopyClean("CALL") /\ Served(e)
    BY <1>1, FaultsGrow DEF CallInv
  <2>2. ~Runs(e) /\ ~Works(e) /\ performs[e] = 0
    BY <1>1, <2>1 DEF Served, Status, AtRest, Unserved
  <2>3. ~MarkAlarm(e, "CALL") /\ ~(CopyAlarm("CALL") /\ e = eventRun.new)
    BY <1>1, <2>1 DEF MarkAlarm, AlarmDue, CopyAlarm, CopyClean
  <2>4. alarm'[e]["CALL"] = alarm[e]["CALL"]
    BY <1>1, <2>2, <2>3, CallRow
  <2>5. Len(request'[e]) = Len(request[e])
    <3>1. CASE UNCHANGED request
      BY <3>1
    <3>2. ASSUME NEW f \in EventId, PerformCall(f) PROVE request'[e] = request[e]
      BY <1>1, <2>2, <3>2 DEF PerformCall, Typed, CallTyped
    <3>3. requestRun.pc # "idle" => requestRun.e # e
      BY <2>2 DEF Runs
    <3>4. worker.pc # "idle" => worker.e # e
      BY <2>2 DEF Works
    <3>5. DOMAIN request = EventId
      BY <1>1 DEF Typed, CallTyped
    <3>6. SaveRequest => request'[e] = request[e]
      BY <3>3, <3>5 DEF SaveRequest
    <3>7. SaveOutcome => request'[e] = request[e]
      BY <3>4, <3>5 DEF SaveOutcome
    <3>8. CheckRetry => request'[e] = request[e]
      <4>1. CheckRetry => \E status : request' = [request EXCEPT ![worker.e][worker.k] = status]
        BY DEF CheckRetry
      <4>2. CheckRetry => worker.pc # "idle"
        BY DEF CheckRetry
      <4>3. QED
        BY <3>4, <3>5, <4>1, <4>2
    <3>9. UNCHANGED request \/ (\E f \in EventId : PerformCall(f)) \/ SaveRequest \/ SaveOutcome
            \/ CheckRetry
      <4>1. CASE EventStep \/ (\E f \in EventId : ReadLastChild(f)) \/ SaveLastChild \/ Tick
                   \/ UNCHANGED vars
        BY <4>1 DEF EventStep, ListEvents, CopyEvent, CompleteEvent, CopyAlarm, ReadLastChild,
                    SaveLastChild, Tick, tables, vars
      <4>2. CASE NoticeStep \/ MailStep \/ AlarmStep
        BY <4>2 DEF NoticeStep, PerformNotice, NoticeSaved, MailStep, SendMailTask, MarkMail,
                    SendMail, MailSent, AlarmStep, SendPerform, MarkAlarm, tables
      <4>3. CASE RequestStep
        BY <4>3 DEF RequestStep, SendInit, CountAttempt, CreateCall
      <4>4. ASSUME NEW f \in EventId, NEW c \in DOMAIN call[f],
                   InitCall(f, c) \/ EndCall(f, c) \/ LoseReport(f, c) \/ TakeReport(f, c)
            PROVE  UNCHANGED request
        BY <4>4 DEF InitCall, EndCall, LoseReport, TakeReport
      <4>5. CASE RetryAlarm \/ SendFailureSms \/ Die
        BY <4>5 DEF RetryAlarm, SendFailureSms, Die
      <4>6. QED
        BY <1>1, <4>1, <4>2, <4>3, <4>4, <4>5 DEF Next, CallStep, WorkerStep
    <3>10. QED
      BY <3>2, <3>6, <3>7, <3>8, <3>9
  <2>6. failureSms'[e] = failureSms[e]
    <3>1. SendFailureSms => worker.e # e
      BY <2>2 DEF SendFailureSms, Works
    <3>2. SendFailureSms => failureSms'[e] = failureSms[e]
      BY <1>1, <3>1 DEF SendFailureSms, Typed, CallTyped
    <3>3. UNCHANGED failureSms \/ SendFailureSms
      BY <1>1
      DEF Next, EventStep, ListEvents, CopyEvent, CompleteEvent, CopyAlarm, AlarmStep, SendPerform,
         MarkAlarm, RequestStep, SendInit, SaveRequest, CountAttempt, CreateCall, NoticeStep,
         PerformNotice, NoticeSaved, MailStep, SendMailTask, MarkMail, SendMail, MailSent, CallStep,
         EndCall, WorkerStep, SaveOutcome, CheckRetry, RetryAlarm, InitCall, TakeReport, PerformCall,
         ReadLastChild, SaveLastChild, LoseReport, Die, Tick, tables, vars
    <3>4. QED
      BY <3>2, <3>3
  <2>7. QED
    BY <1>1, <2>4, <2>5, <2>6
<1>2. Typed /\ Typed' /\ CallInv /\ [Next]_vars =>
        [\A e \in EventId :
           "CALL" \in Method /\ faults' = 0 /\ alarm[e]["CALL"].status = "SUCCESS"
             => alarm'[e]["CALL"].status = "SUCCESS" /\ Len(request'[e]) = Len(request[e])
                  /\ failureSms'[e] = failureSms[e]]_vars
  BY <1>1
<1>3. QED
  BY <1>2, AlwaysTyped, AlwaysCallInv, PTL DEF Spec, DeliveredIsFinal
====
