# TLA+ models of nDialer

nDialer (Newfies-Dialer) calls the contacts of a campaign, plays them a survey,
and calls again those it did not reach; it sends SMS campaigns and the alarms of
calendars in the same way. This directory holds TLA+ models of the code that
decides who is called, messaged or reminded and how often, the TLC runs that
check them, and TLAPS proofs about them. Paths below are relative to `src/`.

Run a model with `tlc -config X.cfg M` (`PROJECT.json` pairs configurations and
modules), check proofs with `tlapm M_proofs.tla`.

## 1. The system and its parts

Django serves the web pages and the REST API; Celery runs tasks (a worker pool
of 2 to 10 processes, `beat` for the periodic ones, Redis as broker, tasks
acknowledged *before* they run); FreeSWITCH makes the calls and runs the survey
in Lua; `lua/listener.lua` turns FreeSWITCH events into rows of `call_event`.
All of them share one PostgreSQL database, mostly in autocommit mode.

Three habits of the code make nearly all the hard behaviour:

* Django's `Model.save()` writes **every** column of a row that was read some
  time before, so whatever happened to the row in between is undone;
* work over several rows (a copy, an import, a batch) is a sequence of saves
  without a transaction, cut anywhere by a death or another process;
* the external decorator `only_one` (django_lets_go) keeps two runs of a task
  apart with a cache key that **expires** (600 s), drops the run that finds the
  key taken, and frees the key at the end of a run, whoever holds it by then.

| Component | Source | State it keeps | Operations | Talks to | Model |
|---|---|---|---|---|---|
| Voice call tasks | `newfies/dialer_cdr/tasks.py` | `dialer_callrequest`, counters and status of `dialer_subscriber` | `init_callrequest`, `process_callevent`, `check_retrycall_completion`, `check_retry_alarm` | broker, FreeSWITCH (ESL), call events | `Dialer` (campaigns), `Alarm` (alarms), `CallReports` |
| Call event hand-over | `lua/listener.lua`, `dialer_cdr/tasks.py` 376-464 | the listener's buffer, `call_event` | pop, buffer, commit, reconnect, stop; select, dispatch, mark | FreeSWITCH, `process_callevent` | `CallEventQueue`, `EventHandover`, `CallReports` |
| Campaign spooling | `newfies/dialer_campaign/tasks.py`, `models.py`, `views.py` | `dialer_campaign`, status of `dialer_subscriber` | start/stop/expire, copy survey, reserve, create, dispatch | collect, `init_callrequest` | `Campaign` |
| Subscriber collection | `newfies/dialer_contact/tasks.py`, `views.py` | `dialer_subscriber`, `imported_phonebook` | `collect_subscriber`, import of a phonebook, signal on new contacts, import from a file | campaign row | `Campaign` |
| Survey call flow | `lua/newfies.lua`, `lua/libs/fsm_callflow.lua`, `database.lua` | node, attempts, results in memory and in `survey_result` | walk through the sections, collect digits, record, transfer, hang up, commit | survey rows, campaign counters | `CallFlow` |
| Survey editor and copies | `newfies/survey/`, `dialer_campaign/views.py`, `forms.py` | templates, surveys, sections, branchings | edit, delete, start, seal, duplicate, export, import, form of a campaign | campaign row | `SurveyTemplate` |
| SMS campaigns | `newfies/mod_sms/tasks.py`, `models.py` | SMS campaigns, subscribers, messages | import, signal, reserve, create, send, resend, loose messages | django-sms | `SmsCampaign` |
| Appointments, alarms | `newfies/appointment/`, `dialer_cdr/tasks.py` 735-783 | events, alarms, alarm requests | copy an occurrence, dispatch alarms and requests, call, retry, notify | call tasks, SMS, mail | `Alarm` |
| Mail spooler | `newfies/mod_mailer/tasks.py` | mail spool | spool, send | SMTP | `Alarm` |
| Forms, API, agents, DNC, audio, TTS, installers | see `PROJECT.json` | single rows | form handlers | - | not modelled |

What makes each part correct:

* **Calls.** Nobody is rung by two calls of a campaign at once; a contact gets at
  most `maxretry` retries and `completion_maxretry` completion retries; a contact
  that completed the survey is left alone; a campaign comes to rest.
* **Events.** Every event of a call reaches a worker, once unless something
  fails; a row marked as processed was processed.
* **Spooling and collection.** A contact is taken from the campaign once, by
  whatever run; all the contacts of a started campaign are taken; stop and expiry
  hold.
* **Call flow.** A call ends whatever loops its survey has; what the caller
  answered is stored when the script ends, and counted once.
* **Surveys.** No branching leaves its survey; a copy nobody disturbed is exact;
  a campaign that runs comes to play a whole survey of its own.
* **SMS.** Messages are bounded by `maxretry`; what was sent is not sent again; a
  running campaign brings every contact to an outcome.
* **Alarms.** Each occurrence of an event has its alarms once and the chain of
  occurrences does not break; calls are bounded by `maxretry`, one at a time; a
  delivered call is final; an e-mail leaves once.

`PROJECT.json` lists the hazards one by one, with the line where each bites and
the properties that watch it.

## 2. The modules

| Module | Models |
|---|---|
| `Dialer` | the life of the call requests of one campaign: dial, answer, fail, survey, report, retry, completion retry |
| `EventHandover` | what the path of an event promises: handed over once, unless it is lost before or, after a failure, handed over again |
| `CallEventQueue` | that path: the listener and the dispatch runs; it implements `EventHandover` |
| `CallReports` | `Dialer` and `CallEventQueue` together |
| `Campaign` | one campaign up to the dialer: views, collection, spooling, expiry |
| `CallFlow` | one call inside FreeSWITCH: the script, the caller, the results |
| `SurveyTemplate` | templates and all the ways they are copied, edited and deleted meanwhile |
| `SmsCampaign` | one SMS campaign, and the messages that have no campaign |
| `Alarm` | the events of a calendar with their alarms by call, SMS and e-mail |
| `MC...` | symmetry, phonebooks and surveys for TLC |
| `..._proofs` | the theorems about the module they are named after |

How they fit. `Campaign` ends where it sends an `init_callrequest` message, which
is the action `PendingCall` of `Dialer` (one contact of a batch at a time).
`Dialer` and `Alarm` treat a reported call as something that is taken once, lost,
or taken again; that is `EventHandover` seen from the consumer, and
`CallEventQueue` is shown to implement it (`HandoverKept`, checked by TLC and
proved). `CallReports` puts the two modules themselves together. What a call does to the contact's status while it lasts is a choice in
`Dialer` (`Survey`) and is worked out in `CallFlow`, whose `survey` is one of the
graphs `SurveyTemplate` builds. `Campaign` keeps of a survey only whether the
campaign has a copy; `SurveyTemplate` keeps of a campaign only what starts it.

### Dialer

*State.* `subscriber` and `callrequest` are the two tables, reduced to the
columns the decisions read; `owner` and `origin` are the columns fixed at the
INSERT; `queue` the messages in the broker; `call` what FreeSWITCH does with
each call request; `callEvent` the `call_event` rows with status 1 nobody has
taken (the listener gives status 0 to hangups of the A-leg before answer, and
those are never read); `worker` the task each Celery process runs, with the
copies it read.

*Steps.* A task is cut at its saves, because the copy it saves is the one it
read: `InitDial` reads both rows and dials, `InitSaveSubscriber` and
`InitSaveCallrequest` save; `EventRead` reads, `EventSaveCallrequest` and
`EventSaveSubscriber` save, and one of `EventBasicRetry`, `EventCompletionRetry`,
`EventNoRetry`, `EventCountUnset`, `EventDies` ends the task. The last step does
its saves and its INSERT at once: nothing the properties read can be observed
between them except by a death, and `EventDies` and the second disjunct of
`Enqueue` are the deaths in between. `PendingCall` does the reservation and the
INSERT of one contact at once; `Campaign` has them apart.

*Env* names what may go wrong; each configuration picks from it. `Saved(c)` is
the one assumption on speed: without `"slow_worker"`, what happens to a call
seconds after it was dialled happens after its task saved.

### CallEventQueue

`stage` follows each event from FreeSWITCH through the consumer's queue and the
buffer to `call_event` (`pending` is status 1, `done` status 2) or to `lost`.
`Heartbeat` and a full buffer lead to `connecting`, where `Reconnect` loops while
the database is away and `CommitEvent` stores or drops the whole buffer. A
dispatch run is `TaskPendingCallevent` (takes the key), `SelectPending`, a
`SendTask` per row, `UpdateStatus`; `SendFails`, `Crash`, `ExpireDead`,
`ExpireAlive` are its failures.

### CallReports

The variables of `Dialer` but for `callEvent`, and those of `CallEventQueue`;
`Untaken` is `callEvent` read off the stages of the events. Two actions are joint:
`CallEnds` (a call ends and its event is fired) and `TaskStarts` (a worker takes
the message of an event and starts `process_callevent`). All others are steps of
one module with the variables of the other unchanged. An outage of the database
would stop both sides and is left to `CallEventQueue`, deaths of the workers that
run tasks to `Dialer`.

### Campaign

`campaign` is the row with the four columns the tasks write; `survey` is 0 while
`content_type`/`object_id` point to the template. `task[p].row` is the copy a
process will save whole: views (`SaveStatus`, `SaveStarted`), the copy of the
survey (`CopyCreate`, `CopySave`), `collect_subscriber` (`MarkImported` saves
before the import, `SaveTotalContact` after it). `Reserve` is one step because
it is one transaction over locked rows. `only_one` is `spoolLock` and
`collectLock`; `ExpireSpoolLock` and `ExpireCollectLock` free the key of a dead
worker or, with `"lock_expires"`, of a slow one. In the code the key of
`collect_subscriber` is shared by all campaigns, which drops more messages than
one campaign's runs do; the periodic task sends them again. `cut` remembers what
an import that died had to add, which nothing adds later.

### CallFlow

The script is one process, cut wherever FreeSWITCH may give the caller's hangup
to it: `Visit...` enters a section, `Play`, `Prompt`, `StartRecord`, `Bridge` are
the calls of session methods that wait for the caller, `Result` stores what he
entered, `FollowBranch`, `NoBranch` and `Abort` are the end of `next_node`. When
such a method returns after a hangup, `myHangupHook` runs `end_call` inside the
script (`Return`), and the script goes on to end the call a second time; `ended`
is what keeps it from doing so twice. `results` is the memory of
`save_result_mem`; `Aggregate` and `Insert` are the two halves of
`commit_result_mem`, which counts first and inserts all rows at once after it.
`given` and `revisited` are ghosts: what the caller answered last, and whether a
section was answered again after a transfer had written it.

### SurveyTemplate

`graph` holds surveys, templates and exported files alike: sections with their
order and kind, and branchings. Five handlers copy such a graph, and all follow
the same steps (`CopyCreate`, `CopyAttach`, `CopyList`, `CopySection`,
`CopyBranch`, `CopyEnds`), each step a save; `who` tells them apart: `view` and
`task` start a campaign, `seal`, `duplicate`, `export`, `import`. A copied section
keeps the name of its original, which is how the code finds it again
(`Section.section_template`, `old_new_section_dict`, `new_old_section`).
`CopyBreaksOff` is the exception when a goto was not copied (DoesNotExist in
`copy_branching_template`, KeyError in the others). Edits are requests of one
step, but for `SectionAdd`, whose second save is `AddScript`, and `SectionDelete`,
which saves the rows behind the section one by one (`Reorder`). `UpdateStatus`,
`PendingCallProcessing` and `SaveStarted` are the two starts that race;
`OpenForm` and `CampaignChange` a form opened before and submitted after.
`spoiled` (ghost) names campaigns that lost their survey in one of the ways
section 3 lists; `done` and `clean` tell copies that ended and copies whose source
stayed as it was.

### SmsCampaign

A row per contact with the columns the three tasks save whole. `SpoolContact`,
`ImportRead`, `ImportInsert`, `ImportSave` fill the campaign, `TakePending`,
`MarkInProcess`, `SendInit`, `RefuseContact` take a batch, `InitCreate`,
`InitSave`, `InitSend` create the message of a contact, and `ResendRead` to
`ResendSave` read the reports and send again. `DeleteContact` takes the row away
from under them: what saves it raises (`BatchBreaks`, `ResendBreaks`). `SendMessage` of django-sms is
external: it sends a message that is not sent yet, or the gateway refuses it.

### Alarm

The four dispatchers are records with a program counter, one run of each at a
time. `ListEvents`, `CopyEvent`, `CopyAlarm`, `CompleteEvent` carry an event to its
next occurrence, `ReadLastChild`, `SaveLastChild` pause and resume it; `MarkAlarm`, `SendPerform`, `PerformCall`, `PerformNotice` act on due
alarms; `CreateCall`, `SendInit`, `SaveRequest`, `CountAttempt` turn a request into
a call and save the alarm that was read before it; `InitCall`, `EndCall`,
`TakeReport`, `SaveOutcome`, `CheckRetry`, `RetryAlarm`, `SendFailureSms` place,
report and retry it; `MarkMail`, `SendMailTask`, `SendMail`, `MailSent` are the
mail spooler. `clock` counts occurrences of the rule.

## 3. Runs

| Run | Instance | Shows |
|---|---|---|
| `dialer_faults` | 1 contact, 1 worker, a first call and one retry, deaths at every save, late saves, reports lost or handed over twice, double and second-leg reports, refused and abnormal calls | no call request is dialled twice, no contact spooled twice, the completion counter keeps its limit |
| `dialer_bounds` | 2 workers that do not die, 2 retries, 2 completion retries, 6 call requests, fair | the counters equal the calls made and bound them; one live call request per contact; the campaign drains |
| `call_reports` | 1 contact, 1 worker, a retry or a completion retry, 2 dispatch runs, refused inserts, stops, one run that dies, fails to send or outlasts its key, fair | without a failed run one live call request per contact, COMPLETED stays and is respected; every contact gets an outcome unless its report was lost |
| `queue` | 2 events, 2 runs, refused inserts, stops, a database that goes away, deaths, failed sends, expired keys, fair | implements `EventHandover`; processed means sent; every event that is not lost reaches a worker |
| `campaign_once` | 2 contacts, 2 workers, deaths and expired keys, two in all, starts by customer and admin | one first call request and one message per contact; no contact of a started campaign is left out |
| `campaign_live` | 1 worker, a refused contact, users who start, pause and stop, file imports, expiry, fair | every subscriber of a campaign that runs on is handed over or refused; an expired campaign ends for good |
| `campaign_stop` | **violated** | `collect_subscriber` starts a stopped campaign again |
| `sms` | an authorized contact that may be deleted and a refused one, 2 retries, pauses, dead gateways, one death, fair | messages bounded, one delivered, COMPLETE final, every contact settles, loose messages leave |
| `alarm_calls` | one event with a call and an e-mail, one retry, one fault of each kind, fair | calls bounded and one at a time, a delivered call final, mail once, every alarm settles |
| `alarm_chain` | four occurrences, an SMS alarm, an outage or a pause within the window, two requests, one death or request that overlaps the dispatcher | one event per occurrence (one more per death or overlap), the chain never breaks |
| `callflow` | thousands of surveys of two sections, up to four visits, hangups and crashes anywhere, fair | answers stored, aggregates equal rows, the script ends |
| `survey` | a template of two sections, a file, a campaign started or not, two requests of any kind, two processes, one death, fair | branchings closed, undisturbed copies exact, a running campaign gets a whole survey |

The violated run states what a line of the repository says; `PROJECT.json`
("findings") quotes it beside the code that does otherwise.

*Seen while modelling.* Behaviour that surprised us, reproduced with a model or
read off the code; nothing in the repository promises otherwise plainly enough
for a finding, and the properties except exactly these cases.

* A completed survey cut by the time limit ends with a cause other than
  NORMAL_CLEARING, turns into FAIL (`dialer_cdr/tasks.py:227`) and the contact is
  called again. `docs/source/faq.rst:265` counts an answered call as a success.
* Two reports of one transferred call pass the retry test together: `maxretry + 1`
  retries.
* Contacts imported from a file (`bulk_create`) send no signal; after the
  phonebook was imported nothing adds them. The signal itself ignores
  `max_subr_cpg`.
* `lua/listener.lua:89` compares its counter with `MAXRECONNECT`, which nothing
  defines, instead of the `MAX_RECONNECT` of line 30: the loop never gives up
  (action `Reconnect`), which is why no event is lost while the database is away.
* `completed` of a campaign is counted at every visit of a completing section:
  `marked_completed` is tested (`fsm_callflow.lua:445`) and never set.
* A section with digits and no branching indexes nil and aborts the script, and
  the answers in memory are lost (action `Abort`). The result of a conference is
  lost when the caller hangs up inside it. Answers given again after a transfer
  break the INSERT of all answers (duplicate row).
* SMS `maxretry` counts the first message; voice `maxretry` does not.
* A contact that is deleted while its batch is dispatched ends the run: the other
  contacts of an SMS batch are given up as FAIL without a message, those of a voice
  batch stay IN_PROCESS (`bulk_create` fails as a whole, in `Campaign` the death of
  a run after `Reserve`).
* Retries and completion retries never look at the DNC list, which is read when a
  contact is spooled (`dialer_campaign/tasks.py:168`): a contact who asked to be
  left alone during a call may be called again.
* `alarm_dispatcher` does not look at the status of the event: the alarms of a
  paused event go off. A pause that reaches `event_dispatcher` between
  its SELECT and its save is lost.
* `copy_alarm` copies `num_attempt`, so later occurrences get fewer retries.
  After a fault, two retried calls of an alarm save older rows over
  `num_attempt`, and retries are unbounded. `alarmrequest_dispatcher` returns at a
  missing CalendarUserProfile and leaves the other requests waiting.
* A campaign points to its survey before the sections are copied: a call started
  then loads a torn survey; and `pending_call_processing` goes on with the row it
  read before the copy, so its first call requests name the template.
* A campaign whose template is deleted is marked started, saved with START, and
  fails after that. A copy dies when a goto to a section that was added during it
  turns up. A campaign duplicated during the copy of its survey ends with part of
  the survey, or, if the copy breaks off, shares the survey of the original.
* The form of a campaign opened before its start and submitted after it, and a
  `collect_subscriber` that read the row before, set the campaign back to the
  template, although `dialer_campaign/views.py:338` tells the user that a started
  campaign only changes its dialer settings and scheduler.
* Two deletions of sections that overlap insert a deleted section again, without
  its branchings (`survey/views.py:463`). A file with a torn branching leaves
  `post_save_add_script` disconnected in that web process: sections added later
  get no script and no first branching.
* `lua/libs/constant.lua:58` sets `USE_CACHE=false`: the query cache of 300
  seconds is off, and is not modelled.

*Bounds.* Nothing in `Dialer` relates two contacts except the workers they share,
so one contact with several call requests shows every interleaving of its tasks.
`dialer_bounds` has two workers, the least that overlap, and `MaxCallrequest = 6`
holds the first call and every retry the counters allow, so it never cuts a
behaviour short. `dialer_faults` multiplies reports without end, so it is cut at
one worker and two call requests; its four invariants are the ones proved for
all sizes (section 4). Two events, a buffer of two and a SELECT limit of one make
full and partial buffers, a SELECT that leaves a row behind, and rows that arrive
during a run. `call_reports` has two call requests, so that a task that would
create a third one waits: a second live one is already wrong, and what the tasks
do after that is in `dialer_bounds`. In `Campaign` two contacts and a frequency
of one or two make full, partial and several batches; `MaxFaults = 2`
is enough for a second run to overlap the first at both keys, or for a death
followed by an overlap; `MaxRequest` is one status change, two where a stop has
to follow a start; `MaxSurvey = 1` only stops telling copies apart; a waiting
message of a kind stands for any number of them, because a second one is dropped
or does what the next tick does. `sms`: four messages hold what two retries and
a death allow. `alarm_calls`: one event, as events share nothing but the
dispatchers; four calls, never reached while nothing fails; `alarm_chain`: seven
events hold four occurrences doubled by a death at any but the last; two requests
pause and resume, and one occurrence of window is the least a pause can use up. `callflow`:
two sections, the first of every kind with every branching, the second short and
able to lead back, make every pair of consecutive visits; `MaxNode = 4` ends a
loop after two rounds (1001 in the code). `survey`: two requests are the least
that overlap, next to the task of the campaign that needs no request; the seven
graphs and three sections are never all used, so these bounds cut nothing.

*Fairness.* `Dialer`: as long as workers can take or finish something or calls
can end, one of these happens (`originate_timeout` and `sched_hangup` end calls).
`CallEventQueue`: heartbeats, beat, the loop of the listener, the expiry of keys
and the return of the database; a run that can go on goes on or fails, and
`MaxFaults` bounds the failures. `CallReports`: both. `Campaign`: beat and a broker that delivers in
order (strong fairness of taking a message), runs that go on, keys that expire,
the expiry check. `SmsCampaign`, `Alarm`: beat starts each periodic task for
ever, and a task that runs goes on; the clock of `Alarm` need not advance.
`CallFlow`: session methods return, since FreeSWITCH bounds prompts and
recordings and parties hang up. `SurveyTemplate`: a request or task that runs
goes on, and beat keeps sending `pending_call_processing`. No fault, user or slow
run is ever assumed to happen. The daily hours and weekdays of a campaign are
left out: liveness is about the hours in which it runs.

*Mutants.* Beside each definition that a property depends on stands a mutated
form a plausible mistake would produce (named `Definition_Mistake`); with it in
place TLC finds the property violated.

## 4. Proofs

TLC agrees with everything below on the instances above; TLAPS proves it for
every set of contacts, workers, events, surveys and processes and all limits,
and for every `Env` where no premise is named. Every safety property of a passing
run is the statement of a theorem.

`Dialer_proofs`: `TypeCorrect`, `NeverDialledTwice` (`QueuedUndialled`),
`TakenOnce` (`SpooledOnce`), `CompletionNeverExceeded` (`CompletionBounded`).
None of these is inductive alone. `IInv` adds `Known` (whatever a message, task,
call or event names is an existing row with an owner), `Fresh` (a queued call
request is untouched: no call, no event, no task) and `Sound` (no copy a task
holds says PENDING, and no copy's completion counter passes the limit): the saved
copies are the only way stale data comes back, so the bound has to hold for
copies, not only for rows.

`OneAtATime` proves `OneLiveCallrequest` for deployments in which a call ends in
one report (`OneReport`: no duplicates, transfers or double reports). Its
invariant `LInv` adds `Phases`: the four places a call request can be live in
(queue, call, report, task) exclude each other, so that a retry is created only
at the moment its parent leaves the last one.

`CompletionsAccounted` and `AttemptsAccounted` (`CompletionRetriesCounted`,
`AttemptsCounted`) and `CompletedIsFinal` ask for more: `KeptUp`, one report per
call and workers that neither die nor save after the next thing happened to their
call; the last also that calls end plainly (`PlainHangup`), because a survey cut by
the time limit is called again, and attempts count only for answers that are no
machine. A counter is saved from a copy, so it is right only if no other task of
the contact is between its read and its save. `AInv` says so: one task holds a
contact (`OneHeld`, `OneTask`), its copy agrees with the row it will overwrite but
for what it added, and the retries that exist equal the counter plus the one that
is about to be created. `Finished` does the same for the outcome: every copy in
flight knows whether the survey was completed.

`Campaign_proofs`: `CampaignTypeCorrect` (`TypeOK`) and `ContactSpooledOnce`
(`SpooledOnce`). The invariant `BInv` adds `Unreserved` (a contact nobody reserved
has no call request and is in no batch) and `Exclusive` (a contact is in one run's
batch at a time, has no message while it is there, and no call request until that
run created it). Most actions are `Tame`: they may empty batches and set statuses
but make no contact reservable again, and one lemma covers them all; `Reserve`,
`BulkCreate` and `DispatchCall` are proved one by one. The locks are not used: the
row locks of the reservation alone keep runs apart. `NobodyMissed` proves
`NoContactMissed` for campaigns that are left `Undisturbed`. The row says which
phonebooks were imported, but views and tasks save copies of any age over it, so
`MInv` speaks of the row and all copies at once: a phonebook that any of them calls
imported is marked (`Unmarked`), and a contact of a marked phonebook is subscribed,
awaited by the import under way, about to be handled by its own signal, or `cut`
(`Covered`). It needs the campaign to stay started (no `"stop"`, no `"expire"`),
contacts to send their signal (no `"bulk"`) and no limit on subscribers: in each of
these cases the code does leave contacts aside.

`CallEventQueue_proofs`: `QueueTypeCorrect`, `MarkedRowsWereSent`
(`DoneMeansSent`), `BufferNeverOverflows`, and the refinement
`QueueImplementsHandover` (`HandoverKept`): initial states map to initial states,
every step to a step of `EventHandover` or a stutter. The inductive invariant
counts, for every event, the messages and tasks it has led to: as long as no run
failed, an event has at most one, and only in a row that some run has in its batch
or has marked.

`CallFlow_proofs`: `CallFlowTypeCorrect`, `EveryAnswerIsSaved` (`AnswersSaved`),
`AggregatesMatchRows` (`AggregateMatches`), `DncSectionsCount` (whoever reached a
DNC section is on the list). Two invariants. `Control` says where the script can
be: its types, that each place belongs to a kind of section (`Placed`), that a
commit is entered at most once per reason (`CommitOnce`), and what the flags mean
(`Flags`). `Answers` follows the data: an answer is in memory, in the table or
both and equals what was given (`GivenKept`, `GivenValue`), a section whose answer
is only in memory is not in the table yet (`Fresh`), rows are counted once
(`Counted`), and a script that ended has nothing in memory (`EndedDown`).

`CallReports_proofs` joins two of these modules and repeats neither: it takes
`Dialer_proofs` and `CallEventQueue_proofs` as instances, under the mapping that
reads the reports nobody has taken yet off the stages of the queue (`Untaken`).
Until a dispatch run fails, every step of the composition is a step of a `Dialer`
whose environment duplicates and rejects nothing, because by the invariant of the
queue a report leads to one message. So the invariants carry over (`JInv`, `FInv`:
that of the queue, and while `faults = 0` those of the dialer), and
`ServedOneAtATime` (`ServedOnce`) and `CompletedStaysCompleted`
(`CompletedLeftAlone`, for workers that are `Timely`, as in the run) follow from
`OneAtATime` and `CompletedIsFinal`. This is the argument the dialer rests on and
no single file of the code states: without the lock of `task_pending_callevent` the
premise `OneReport` fails.

`SmsCampaign_proofs`: `SmsTypeCorrect` (`TypeOK`), `MessagesStayBounded`
(`MessagesBounded`), `CompleteStaysFinal` (`CompleteIsFinal`). The three tasks save
whole rows, and a contact can be in the hands of each. `SmsInv` says for every
contact which of the hands may hold it at once, that a copy about to be saved is
not older than the messages it decides about, and that messages without an owner
number no more than deaths; a batch names nobody twice (`Distinct`).

`Alarm_proofs`: `AlarmTypeCorrect` (`TypeOK`), `MailSentOnce` (`MailOnce`),
`OccurrenceCopiedOnce` (`OccurrenceOnce`), `ChainStaysAlive` (`ChainAlive`),
`CallsStayBounded` (`CallsBounded`), `DeliveryIsFinal` (`DeliveredIsFinal`). Four
invariants, one per protocol. `MailInv`: a mail is in one of the hands of the
alarm dispatcher, the spooler and the sender, and whoever dies leaves it marked.
`ChainInv`: events are numbered in the order of their occurrences, a row that is
still `PENDING` is the last of its chain or is being copied, and each occurrence
has one event more per fault (a cardinality, hence `OneMore`). `HeadInv`: some
active event lies ahead of the clock by what the window has left of the outages.
`CallInv`: while nothing failed a request has one live call, `num_attempt` of every
copy equals the calls placed, and a delivered one has no retry under way.

`SurveyTemplate_proofs`: `SurveyTypeCorrect` (`TypeOK`), `SurveyClosed`
(`BranchesClosed`), `CopyIsFaithful` (`CopyFaithful`), `CopiesAreFinal` (a copy that
ran to its end is never changed or deleted after). `IInv` has four parts. `Sound`
is `BranchesClosed` for everything that is no file, with what a file keeps of it.
`Busy` says what the data of a task mean: a copy in the first loop has an empty set
of branchings, its target has the sections it treated and no branching of one it
has yet to treat (`InStep`), and while `clean` holds, the list it works from is
still the source and the target is the treated part of it, in order (`Faithful`).
`Apart`: no two tasks write one target and no editor one that is being filled,
which is why edits may run beside copies. `Known`: what is named exists.
`Others`/`Alone`/`StepKeeps` reduce a step to the task that takes it. A new section
goes behind all others by `Sortable.save`; that a finite survey has a greatest order
is proved from the well-foundedness of the naturals (`Least`, `OrdersBounded`).

Assumptions: the `ASSUME`s of the modules (limits are naturals, null values
differ from real ones, `Contact` is finite, surveys are well typed, and the
bounds have room for the initial rows: `MaxSection >= 2`, `MaxGraph >= 3`), nothing else.

Only model-checked: the liveness properties under fairness (`Drains`,
`ContactSettles`, `EveryEventHandled`, `EveryContactServed`, `ExpiredEnds`,
`EveryContactSettles`, `LooseMessageSent`, `AlarmSettles`, `CallEnds`,
`RunningPlaysSurvey`) and the violated `StopHolds`. Liveness, ENABLED, induction
over data and RECURSIVE operators (the models use none) are beyond this prover and
stay with TLC.

## 5. Not modelled, and the plan

Next, in this order:

1. Proofs: which deaths and late saves of `Dialer` the counters survive (now
   excluded by `KeptUp`), and `NobodyMissed` with a stop and a new start.
2. An abstract specification of the campaign, a contact called at most
   `1 + maxretry + completion_maxretry` times, implemented by `Dialer` without
   duplicated reports.
3. Deleting contacts while the tasks of `Campaign` and `Dialer` hold their rows,
   as in `SmsCampaign`, and deleting campaigns.

Left out for good: web forms and the REST API over single rows, dashboards, lists
and reports (each reads or writes one row in one request and shares no protocol
with another part); text-to-speech and audio files (external I/O); the arithmetic
of recurrence rules behind the next occurrence (the library dateutil does it);
installers, settings and sample data; users without dialer settings (the spooling
task returns); the daily hours of campaigns. These make up most of the lines of
the repository, and the part the models cover is the part that has state shared
by several processes.
