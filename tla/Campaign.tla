------------------------------ MODULE Campaign ------------------------------
(***************************************************************************)
(* One voice campaign up to the dialer: started and stopped by its user,   *)
(* filled with subscribers from its phonebooks, and emptied in batches of  *)
(* call requests.                                                          *)
(*                                                                         *)
(*   views          update_campaign_status_cust, update_campaign_status_admin *)
(*                  and the creation of contacts                           *)
(*   Celery tasks   collect_subscriber, pending_call_processing,           *)
(*                  campaign_expire_check                                  *)
(*                                                                         *)
(* The web processes and the workers each read the campaign row, change    *)
(* their copy and save the WHOLE copy, some of them after a long import.   *)
(* What happens to a call request once its message is sent is module       *)
(* Dialer.                                                                 *)
(***************************************************************************)
EXTENDS Integers, FiniteSets

CONSTANTS
  Contact,         \* the contacts a behaviour may create
  Phonebook,       \* the phonebooks of the campaign
  PhonebookOf,     \* the phonebook of each contact
  Refused,         \* contacts the blacklist or the DNC list refuses
  Web,             \* web processes that may serve the user
  Worker,          \* Celery worker processes
  Nobody,          \* no one holds the lock
  Frequency,       \* campaign.frequency with HEARTBEAT_MIN = 1
  MaxSubscriber,   \* dialersetting.max_subr_cpg, 0 for no limit
  MaxRequest,      \* bound: status changes the users ask for
  MaxFaults,       \* bound: crashes and expiries under a live run
  MaxSurvey,       \* bound: copies of the survey template that are told apart
  Env              \* what users and the deployment may do, see EnvBehaviour

EnvBehaviour == {
  "stop",           \* the user pauses or stops the campaign
  "admin",          \* the campaign is started from the admin interface
  "bulk",           \* contacts are imported from a file: Contact.bulk_create
  "expire",         \* the expiration date passes
  "crash",          \* a worker process dies
  "lock_expires" }  \* a run outlasts LOCK_EXPIRE

ASSUME PhonebookAssumption == PhonebookOf \in [Contact -> Phonebook]
ASSUME ContactAssumption == Refused \subseteq Contact /\ IsFiniteSet(Contact)
ASSUME ProcessAssumption == Web \cap Worker = {} /\ Nobody \notin Worker
ASSUME LimitAssumption ==
  /\ Frequency \in Nat \ {0}
  /\ MaxSubscriber \in Nat
  /\ MaxRequest \in Nat
  /\ MaxFaults \in Nat
  /\ MaxSurvey \in Nat \ {0}
ASSUME EnvAssumption == Env \subseteq EnvBehaviour

Process == Web \cup Worker

(***************************************************************************)
(* The columns of dialer_campaign the tasks write.  survey is what         *)
(* content_type and object_id point to: the template (0) or a copy of it.  *)
(* PAUSE stands for ABORT too; the stop button sets END.                   *)
(***************************************************************************)
CampaignStatus == {"START", "PAUSE", "END"}
CampaignRow == [status : CampaignStatus,
                has_been_started : BOOLEAN,
                survey : 0 .. MaxSurvey,
                imported_phonebook : SUBSET Phonebook]

SubscriberStatus == {"none", "PENDING", "IN_PROCESS", "NOT_AUTHORIZED"}

WebPc == {"save_status", "post_save"}
StartPc == {"save_started", "copy_create", "copy_save", "send_collect"}
SpoolPc == {"reserve", "create", "dispatch"}
CollectPc == {"collect", "import"}
Task == [pc : {"idle"} \cup WebPc \cup StartPc \cup SpoolPc \cup CollectPc,
         row : CampaignRow,        \* the copy of the row it will save, if any
         cust : BOOLEAN,           \* the customer's view, not the admin's
         contacts : SUBSET Contact,
         limit : Nat]              \* rows the INSERT of an import may add

NewCampaign == [status |-> "PAUSE", has_been_started |-> FALSE, survey |-> 0,
                imported_phonebook |-> {}]
Idle == [pc |-> "idle", row |-> NewCampaign, cust |-> FALSE,
         contacts |-> {}, limit |-> 0]

VARIABLES
  campaign,      \* the row of dialer_campaign
  expired,       \* expirationdate has passed
  contact,       \* dialer_contact
  subscriber,    \* status of each row of dialer_subscriber
  lastSurvey,    \* the serial of survey, counting the copies
  callrequest,   \* call requests created, per contact
  queue,         \* init_callrequest messages sent, per contact
  message,       \* which of "spool", "collect" wait in the broker
  spoolLock,     \* holder of the key check_campaign_pendingcall-<id>
  collectLock,   \* holder of the key check_collect_subscriber
  task,          \* what each process is running
  requests,
  faults,
  cut            \* history: what imports that died had to add

tables == <<campaign, contact, subscriber, lastSurvey, callrequest>>
vars == <<tables, expired, queue, message, spoolLock, collectLock, task, requests, faults, cut>>

TypeOK ==
  /\ campaign \in CampaignRow
  /\ expired \in BOOLEAN
  /\ contact \subseteq Contact
  /\ subscriber \in [Contact -> SubscriberStatus]
  /\ lastSurvey \in 0 .. MaxSurvey
  /\ callrequest \in [Contact -> Nat]
  /\ queue \in [Contact -> Nat]
  /\ message \subseteq {"spool", "collect"}
  /\ spoolLock \in Worker \cup {Nobody}
  /\ collectLock \in Worker \cup {Nobody}
  /\ task \in [Process -> Task]
  /\ requests \in 0 .. MaxRequest
  /\ faults \in 0 .. MaxFaults
  /\ cut \subseteq Contact

Init ==
  /\ campaign = NewCampaign
  /\ expired = FALSE
  /\ contact = {}
  /\ subscriber = [c \in Contact |-> "none"]
  /\ lastSurvey = 0
  /\ callrequest = [c \in Contact |-> 0]
  /\ queue = [c \in Contact |-> 0]
  /\ message = {}
  /\ spoolLock = Nobody
  /\ collectLock = Nobody
  /\ task = [p \in Process |-> Idle]
  /\ requests = 0
  /\ faults = 0
  /\ cut = {}

IsIdle(p) == task[p].pc = "idle"
At(p, pc) == task[p].pc = pc
Subscribed == {c \in Contact : subscriber[c] # "none"}
Pending == {c \in Contact : subscriber[c] = "PENDING"}
AtMost(n, k) == IF n < k THEN n ELSE k

-----------------------------------------------------------------------------
(***************************************************************************)
(* The user.                                                               *)
(***************************************************************************)
\* A view reads the row and sets the status of its copy.
UpdateCampaignStatus(p, status, cust) ==
  /\ IsIdle(p)
  /\ requests < MaxRequest
  /\ status # "START" => "stop" \in Env
  /\ ~cust => "admin" \in Env
  /\ requests' = requests + 1
  /\ task' = [task EXCEPT ![p] = [Idle EXCEPT !.pc = "save_status", !.cust = cust,
                                  !.row = [campaign EXCEPT !.status = status]]]
  /\ UNCHANGED <<tables, expired, queue, message, spoolLock, collectLock, faults, cut>>

\* The admin's view stops here; the customer's goes on to the first start.
SaveStatus(p) ==
  LET t == task[p] IN
  /\ At(p, "save_status")
  /\ campaign' = t.row
  /\ task' = [task EXCEPT ![p] =
                IF t.cust /\ t.row.status = "START" /\ ~t.row.has_been_started
                THEN [Idle EXCEPT !.pc = "save_started", !.row = t.row] ELSE Idle]
  /\ UNCHANGED <<expired, contact, subscriber, lastSurvey, callrequest, queue, message,
                 spoolLock, collectLock, requests, faults, cut>>

\* Contact.save: the INSERT, then the signal.
AddContact(p, c) ==
  /\ IsIdle(p)
  /\ c \notin contact
  /\ contact' = contact \cup {c}
  /\ task' = [task EXCEPT ![p] = [Idle EXCEPT !.pc = "post_save", !.contacts = {c}]]
  /\ UNCHANGED <<campaign, subscriber, lastSurvey, callrequest, expired, queue, message,
                 spoolLock, collectLock, requests, faults, cut>>

\* post_save_add_contact; a row that exists already raises and is passed over.
PostSaveAddContact(p) ==
  LET new == IF campaign.status = "START" THEN task[p].contacts \ Subscribed ELSE {} IN
  /\ At(p, "post_save")
  /\ subscriber' = [c \in Contact |-> IF c \in new THEN "PENDING" ELSE subscriber[c]]
  /\ task' = [task EXCEPT ![p] = Idle]
  /\ UNCHANGED <<campaign, contact, lastSurvey, callrequest, expired, queue, message,
                 spoolLock, collectLock, requests, faults, cut>>

\* bulk_create sends no signal.
ContactImport(c) ==
  /\ "bulk" \in Env
  /\ c \notin contact
  /\ contact' = contact \cup {c}
  /\ UNCHANGED <<campaign, subscriber, lastSurvey, callrequest, expired, queue, message,
                 spoolLock, collectLock, task, requests, faults, cut>>

-----------------------------------------------------------------------------
(***************************************************************************)
(* The first start, by the customer's view or by pending_call_processing:  *)
(* the flag is saved, copy_survey_template creates the survey and saves a  *)
(* second copy of the row, and a collect_subscriber is sent.               *)
(***************************************************************************)
SaveStarted(p) ==
  LET t == task[p] IN
  /\ At(p, "save_started")
  /\ campaign' = [t.row EXCEPT !.has_been_started = TRUE]
  /\ task' = [task EXCEPT ![p] = [Idle EXCEPT
                !.pc = IF t.row.survey = 0 THEN "copy_create" ELSE "send_collect"]]
  /\ UNCHANGED <<contact, subscriber, lastSurvey, callrequest, expired, queue, message,
                 spoolLock, collectLock, requests, faults, cut>>

CopyCreate(p) ==
  /\ At(p, "copy_create")
  /\ lastSurvey' = AtMost(MaxSurvey, lastSurvey + 1)
  /\ task' = [task EXCEPT ![p].pc = "copy_save",
                          ![p].row = [campaign EXCEPT !.survey = lastSurvey']]
  /\ UNCHANGED <<campaign, contact, subscriber, callrequest, expired, queue, message,
                 spoolLock, collectLock, requests, faults, cut>>

CopySave(p) ==
  /\ At(p, "copy_save")
  /\ campaign' = task[p].row
  /\ task' = [task EXCEPT ![p] = [Idle EXCEPT !.pc = "send_collect"]]
  /\ UNCHANGED <<contact, subscriber, lastSurvey, callrequest, expired, queue, message,
                 spoolLock, collectLock, requests, faults, cut>>

SendCollect(p) ==
  /\ At(p, "send_collect")
  /\ message' = message \cup {"collect"}
  /\ task' = [task EXCEPT ![p] = IF p \in Web THEN Idle ELSE [@ EXCEPT !.pc = "reserve"]]
  /\ UNCHANGED <<tables, expired, queue, spoolLock, collectLock, requests, faults, cut>>

-----------------------------------------------------------------------------
(***************************************************************************)
(* collect_subscriber.  only_one drops a message that finds the key taken, *)
(* and the end of a run frees the key, whoever holds it by now.            *)
(***************************************************************************)
\* get_running_campaign.
Running == campaign.status = "START" /\ ~expired

\* campaign_spool_contact and campaign_running: a second message of a kind is
\* not told from the one that waits.
SpoolContact ==
  /\ Running
  /\ message' = message \cup {"collect"}
  /\ UNCHANGED <<tables, expired, queue, spoolLock, collectLock, task, requests, faults, cut>>

CampaignRunning ==
  /\ Running
  /\ message' = message \cup {"spool"}
  /\ UNCHANGED <<tables, expired, queue, spoolLock, collectLock, task, requests, faults, cut>>

CollectSubscriber(w) ==
  /\ IsIdle(w)
  /\ "collect" \in message
  /\ message' = message \ {"collect"}
  /\ IF collectLock = Nobody
     THEN /\ collectLock' = w
          /\ task' = [task EXCEPT ![w] = [Idle EXCEPT !.pc = "collect", !.row = campaign]]
     ELSE UNCHANGED <<collectLock, task>>
  /\ UNCHANGED <<tables, expired, queue, spoolLock, requests, faults, cut>>

\* The rows the INSERT may add; LIMIT NULL stands for as many as there are.
ImportLimit ==
  IF MaxSubscriber = 0 THEN Cardinality(Contact)
  ELSE IF Cardinality(Subscribed) < MaxSubscriber
  THEN MaxSubscriber - Cardinality(Subscribed) ELSE 0

\* The phonebook is added to the list and saved before it is imported; the
\* subscribers are counted before the INSERT.
MarkImported(w, b) ==
  LET row == [task[w].row EXCEPT !.imported_phonebook = @ \cup {b}] IN
  /\ At(w, "collect")
  /\ b \in Phonebook \ task[w].row.imported_phonebook
  /\ campaign' = row
  /\ task' = [task EXCEPT ![w].pc = "import", ![w].row = row, ![w].limit = ImportLimit,
                          ![w].contacts = {c \in Contact : PhonebookOf[c] = b}]
  /\ UNCHANGED <<contact, subscriber, lastSurvey, callrequest, expired, queue, message,
                 spoolLock, collectLock, requests, faults, cut>>

\* Mutant: the import is for campaigns that have no subscriber yet.
Imported_OnlyEmpty(t) ==
  IF Subscribed = {} THEN t.contacts \cap contact ELSE {}

\* The contacts of the phonebook that are not subscribed yet: NOT EXISTS.
Imported(t) == (t.contacts \cap contact) \ Subscribed

\* LOCK TABLE and INSERT ... SELECT ... LIMIT: at most limit of them.
ImportContacts(w) ==
  LET t == task[w] IN
  /\ At(w, "import")
  /\ \E B \in SUBSET Imported(t) :
       /\ Cardinality(B) = AtMost(t.limit, Cardinality(Imported(t)))
       /\ subscriber' = [c \in Contact |-> IF c \in B THEN "PENDING" ELSE subscriber[c]]
  /\ task' = [task EXCEPT ![w] = [Idle EXCEPT !.pc = "collect", !.row = t.row]]
  /\ UNCHANGED <<campaign, contact, lastSurvey, callrequest, expired, queue, message,
                 spoolLock, collectLock, requests, faults, cut>>

\* totalcontact is saved with the rest of the copy read at the beginning.
SaveTotalContact(w) ==
  /\ At(w, "collect")
  /\ Phonebook \subseteq task[w].row.imported_phonebook
  /\ campaign' = task[w].row
  /\ task' = [task EXCEPT ![w] = Idle]
  /\ collectLock' = Nobody
  /\ UNCHANGED <<contact, subscriber, lastSurvey, callrequest, expired, queue, message,
                 spoolLock, requests, faults, cut>>

-----------------------------------------------------------------------------
(***************************************************************************)
(* pending_call_processing: the status of the campaign is not looked at.   *)
(***************************************************************************)
PendingCallProcessing(w) ==
  /\ IsIdle(w)
  /\ "spool" \in message
  /\ message' = message \ {"spool"}
  /\ IF spoolLock = Nobody
     THEN /\ spoolLock' = w
          /\ task' = [task EXCEPT ![w] =
                        IF campaign.has_been_started THEN [Idle EXCEPT !.pc = "reserve"]
                        ELSE [Idle EXCEPT !.pc = "save_started", !.row = campaign]]
     ELSE UNCHANGED <<spoolLock, task>>
  /\ UNCHANGED <<tables, expired, queue, collectLock, requests, faults, cut>>

\* Mutant: a slice that ends one short of the limit.
Reserve_OffByOne(w) ==
  /\ At(w, "reserve")
  /\ \E B \in SUBSET Pending :
       /\ Cardinality(B) = AtMost(Frequency - 1, Cardinality(Pending))
       /\ subscriber' = [c \in Contact |-> IF c \in B THEN "IN_PROCESS" ELSE subscriber[c]]
       /\ task' = [task EXCEPT ![w] = IF B = {} THEN Idle
                                      ELSE [@ EXCEPT !.pc = "create", !.contacts = B]]
       /\ spoolLock' = IF B = {} THEN Nobody ELSE spoolLock
  /\ UNCHANGED <<campaign, contact, lastSurvey, callrequest, expired, queue, message,
                 collectLock, requests, faults, cut>>

\* get_pending_subscriber_update, one transaction on locked rows; the run ends
\* when nothing is pending.
Reserve(w) ==
  /\ At(w, "reserve")
  /\ \E B \in SUBSET Pending :
       /\ Cardinality(B) = AtMost(Frequency, Cardinality(Pending))
       /\ subscriber' = [c \in Contact |-> IF c \in B THEN "IN_PROCESS" ELSE subscriber[c]]
       /\ task' = [task EXCEPT ![w] = IF B = {} THEN Idle
                                      ELSE [@ EXCEPT !.pc = "create", !.contacts = B]]
       /\ spoolLock' = IF B = {} THEN Nobody ELSE spoolLock
  /\ UNCHANGED <<campaign, contact, lastSurvey, callrequest, expired, queue, message,
                 collectLock, requests, faults, cut>>

\* Mutant: a status of the subscribers that were called.
RefuseContact_Fail(w, c) ==
  /\ At(w, "create")
  /\ c \in task[w].contacts \cap Refused
  /\ subscriber' = [subscriber EXCEPT ![c] = "FAIL"]
  /\ task' = [task EXCEPT ![w].contacts = @ \ {c}]
  /\ UNCHANGED <<campaign, contact, lastSurvey, callrequest, expired, queue, message,
                 spoolLock, collectLock, requests, faults, cut>>

\* The blacklist of the user or the DNC list has the number.
RefuseContact(w, c) ==
  /\ At(w, "create")
  /\ c \in task[w].contacts \cap Refused
  /\ subscriber' = [subscriber EXCEPT ![c] = "NOT_AUTHORIZED"]
  /\ task' = [task EXCEPT ![w].contacts = @ \ {c}]
  /\ UNCHANGED <<campaign, contact, lastSurvey, callrequest, expired, queue, message,
                 spoolLock, collectLock, requests, faults, cut>>

BulkCreate(w) ==
  LET B == task[w].contacts IN
  /\ At(w, "create")
  /\ B \cap Refused = {}
  /\ callrequest' = [c \in Contact |-> IF c \in B THEN callrequest[c] + 1 ELSE callrequest[c]]
  /\ task' = [task EXCEPT ![w].pc = "dispatch"]
  /\ UNCHANGED <<campaign, contact, subscriber, lastSurvey, expired, queue, message,
                 spoolLock, collectLock, requests, faults, cut>>

\* Mutant: all call requests of the campaign that were not dialled.
DispatchCall_AllPending(w, c) ==
  /\ At(w, "dispatch")
  /\ callrequest[c] > 0
  /\ queue' = [queue EXCEPT ![c] = @ + 1]
  /\ task' = [task EXCEPT ![w].contacts = @ \ {c}]
  /\ UNCHANGED <<tables, expired, message, spoolLock, collectLock, requests, faults, cut>>

\* init_callrequest.apply_async for a call request tagged with the batch's uuid.
DispatchCall(w, c) ==
  /\ At(w, "dispatch")
  /\ c \in task[w].contacts
  /\ queue' = [queue EXCEPT ![c] = @ + 1]
  /\ task' = [task EXCEPT ![w].contacts = @ \ {c}]
  /\ UNCHANGED <<tables, expired, message, spoolLock, collectLock, requests, faults, cut>>

EndSpool(w) ==
  /\ At(w, "dispatch")
  /\ task[w].contacts = {}
  /\ task' = [task EXCEPT ![w] = Idle]
  /\ spoolLock' = Nobody
  /\ UNCHANGED <<tables, expired, queue, message, collectLock, requests, faults, cut>>

-----------------------------------------------------------------------------
(***************************************************************************)
(* Time and failures.                                                      *)
(***************************************************************************)
Expire ==
  /\ "expire" \in Env
  /\ ~expired
  /\ expired' = TRUE
  /\ UNCHANGED <<tables, queue, message, spoolLock, collectLock, task, requests, faults, cut>>

\* Mutant: only running campaigns are looked for.
CampaignExpireCheck_Running ==
  /\ expired
  /\ campaign.status = "START"
  /\ campaign' = [campaign EXCEPT !.status = "END"]
  /\ UNCHANGED <<contact, subscriber, lastSurvey, callrequest, expired, queue, message,
                 spoolLock, collectLock, task, requests, faults, cut>>

\* campaign_expire_check: an UPDATE of the status alone.
CampaignExpireCheck ==
  /\ expired
  /\ campaign.status # "END"
  /\ campaign' = [campaign EXCEPT !.status = "END"]
  /\ UNCHANGED <<contact, subscriber, lastSurvey, callrequest, expired, queue, message,
                 spoolLock, collectLock, task, requests, faults, cut>>

Fault(kind) ==
  /\ kind \in Env
  /\ faults < MaxFaults
  /\ faults' = faults + 1

\* A worker dies and leaves its key behind.
Crash(w) ==
  /\ ~IsIdle(w)
  /\ Fault("crash")
  /\ task' = [task EXCEPT ![w] = Idle]
  /\ cut' = IF At(w, "import") THEN cut \cup Imported(task[w]) ELSE cut
  /\ UNCHANGED <<tables, expired, queue, message, spoolLock, collectLock, requests>>

\* The key of a worker that died expires, and so does that of a slow run.
Outlived(w, pcs) == IF task[w].pc \in pcs THEN Fault("lock_expires") ELSE UNCHANGED faults

ExpireSpoolLock ==
  /\ spoolLock # Nobody
  /\ Outlived(spoolLock, StartPc \cup SpoolPc)
  /\ spoolLock' = Nobody
  /\ UNCHANGED <<tables, expired, queue, message, collectLock, task, requests, cut>>

ExpireCollectLock ==
  /\ collectLock # Nobody
  /\ Outlived(collectLock, CollectPc)
  /\ collectLock' = Nobody
  /\ UNCHANGED <<tables, expired, queue, message, spoolLock, task, requests, cut>>

-----------------------------------------------------------------------------
FirstStart(p) == SaveStarted(p) \/ CopyCreate(p) \/ CopySave(p) \/ SendCollect(p)

WebStep(p) == SaveStatus(p) \/ PostSaveAddContact(p)

CollectStep(w) ==
  \/ \E b \in Phonebook : MarkImported(w, b)
  \/ ImportContacts(w) \/ SaveTotalContact(w)

SpoolStep(w) ==
  \/ Reserve(w) \/ BulkCreate(w) \/ EndSpool(w)
  \/ \E c \in Contact : RefuseContact(w, c) \/ DispatchCall(w, c)

StartTask(w) == CollectSubscriber(w) \/ PendingCallProcessing(w)

Next ==
  \/ \E p \in Web, st \in CampaignStatus, cust \in BOOLEAN :
       UpdateCampaignStatus(p, st, cust)
  \/ \E p \in Web, c \in Contact : AddContact(p, c)
  \/ \E c \in Contact : ContactImport(c)
  \/ \E p \in Web : WebStep(p)
  \/ \E p \in Process : FirstStart(p)
  \/ SpoolContact \/ CampaignRunning
  \/ \E w \in Worker : StartTask(w) \/ CollectStep(w) \/ SpoolStep(w) \/ Crash(w)
  \/ Expire \/ CampaignExpireCheck \/ ExpireSpoolLock \/ ExpireCollectLock

Spec == Init /\ [][Next]_vars

(***************************************************************************)
(* Fairness.  beat sends its messages every minute and the broker hands    *)
(* them out in order, so no message waits for ever behind others; a run    *)
(* that has started goes on; keys expire; the expiry check runs every five *)
(* minutes.  Nothing is assumed about users, failures or slow runs.        *)
(***************************************************************************)
Fairness ==
  /\ WF_vars(SpoolContact) /\ WF_vars(CampaignRunning)
  /\ SF_vars(\E w \in Worker : CollectSubscriber(w))
  /\ SF_vars(\E w \in Worker : PendingCallProcessing(w))
  /\ \A p \in Web : WF_vars(WebStep(p) \/ FirstStart(p))
  /\ \A w \in Worker : WF_vars(FirstStart(w) \/ CollectStep(w) \/ SpoolStep(w))
  /\ WF_vars(ExpireSpoolLock) /\ WF_vars(ExpireCollectLock)
  /\ WF_vars(CampaignExpireCheck)

FairSpec == Spec /\ Fairness

-----------------------------------------------------------------------------
(***************************************************************************)
(* Properties.                                                             *)
(***************************************************************************)
\* A contact gets one first call request and one message for it, although runs
\* of pending_call_processing overlap when a lock expires, workers die, and stale
\* saves make phonebooks be imported again.
SpooledOnce ==
  \A c \in Contact : queue[c] <= callrequest[c] /\ callrequest[c] <= 1

\* Once the phonebooks are imported and nothing is running, every contact of a
\* started campaign is a subscriber, whether it was created before, during or
\* after the import; what an import that died had to add is left out.
NoContactMissed ==
  (campaign.status = "START" /\ campaign.imported_phonebook = Phonebook
     /\ \A p \in Process : IsIdle(p))
  => contact \subseteq Subscribed \cup cut

\* A campaign that was paused, stopped or has ended is started again by a user,
\* by nobody else.
StopHolds ==
  [][campaign.status # "START" /\ campaign'.status = "START" =>
       \E p \in Web : At(p, "save_status") /\ task[p].row.status = "START" /\ task'[p] # task[p]]_vars

\* Every subscriber of a campaign that runs on is handed to the dialer or refused.
EveryContactServed ==
  \A c \in Contact :
    (subscriber[c] = "PENDING" /\ []Running)
      ~> (queue[c] > 0 \/ subscriber[c] = "NOT_AUTHORIZED")

\* An expired campaign comes to END and stays there, although runs that read the
\* row before save it after.
ExpiredEnds == expired ~> [](campaign.status = "END")
=============================================================================
