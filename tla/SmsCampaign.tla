---------------------------- MODULE SmsCampaign ----------------------------
(***************************************************************************)
(* One SMS campaign: its contacts are imported as subscribers, batches of  *)
(* subscribers are taken, a task per subscriber creates the message, and a *)
(* periodic task reads the reports of the messages and sends failed ones   *)
(* again.  Next to it, the messages without a campaign that surveys and    *)
(* alarms leave in the table.                                              *)
(*                                                                         *)
(* Every task saves whole rows: the copies it read at its start are part   *)
(* of its state.  only_one keeps runs of a task apart, so there is one     *)
(* record per task; that a run outlasts its lock of ten minutes is not     *)
(* modelled.  SendMessage belongs to the package django-sms.               *)
(***************************************************************************)
EXTENDS Integers, Sequences, FiniteSets, SequencesExt

CONSTANTS
  Contact,
  Unauthorized,    \* contacts is_authorized_contact refuses
  Deletable,       \* contacts the user may delete
  MaxRetry,        \* campaign.maxretry
  Frequency,       \* campaign.frequency: subscribers taken per run
  MaxMessage,      \* bound: messages per contact
  Env,
  MaxDeaths        \* bound: worker processes that die

EnvBehaviour == {
  "death",      \* a worker process dies and its task is gone
  "no_route",   \* the gateway answers No_Route or Unauthorized
  "stop" }      \* the user pauses the campaign, or its expiry date passes

ASSUME ContactAssumption ==
  IsFiniteSet(Contact) /\ Unauthorized \subseteq Contact /\ Deletable \subseteq Contact
ASSUME BoundAssumption ==
  /\ MaxRetry \in Nat
  /\ Frequency \in Nat \ {0}
  /\ MaxMessage \in Nat
  /\ MaxDeaths \in Nat
ASSUME EnvAssumption == Env \subseteq EnvBehaviour

(***************************************************************************)
(* Rows.  The messages of a contact are numbered in the order they are     *)
(* created, 0 is NULL; a count_attempt of NULL behaves as 0 does.          *)
(***************************************************************************)
Status == {"PENDING", "IN_PROCESS", "COMPLETE", "FAIL", "NOT_AUTHORIZED"}
Row == [status : Status, count_attempt : Nat, message : 0 .. MaxMessage]
NoRow == [status |-> "none", count_attempt |-> 0, message |-> 0]
NewRow == [NoRow EXCEPT !.status = "PENDING"]
DeletedRow == [NoRow EXCEPT !.status = "deleted"]

\* Delivered is a report that changes nothing here and stands under Sent.
MessageStatus == {"Unsent", "Sent", "Failed", "No_Route"}
\* PAUSE stands for every status but START: ABORT and END are told apart nowhere.
CampaignStatus == {"START", "PAUSE"}
CampaignRow == [status : CampaignStatus, imported : BOOLEAN]

VARIABLES
  campaign,     \* status, and whether the phonebook is in imported_phonebook
  contact,      \* the contacts of the phonebook
  subscriber,   \* sms_campaign_subscriber
  message,      \* the messages of each contact
  loose,        \* the status of a message that has no campaign, Sent after any report
  outbox,       \* SendMessage messages in the broker, by contact and message
  looseSpooled, \* and whether there is one for the message without a campaign
  initTask,     \* init_smsrequest, per contact
  pendingRun,   \* check_sms_campaign_pendingcall
  resendRun,    \* resend_sms_update_smscampaignsubscriber
  importRun,    \* SMSImportPhonebook
  deaths

rows == <<campaign, contact, subscriber, message, loose>>
vars == <<rows, outbox, looseSpooled, initTask, pendingRun, resendRun, importRun, deaths>>

NoRun == [pc |-> "idle", batch |-> <<>>]
NoResend == [pc |-> "idle", list |-> [c \in {} |-> NoRow], c |-> "none"]
NoImport == [pc |-> "idle", row |-> [status |-> "PAUSE", imported |-> FALSE]]

TypeOK ==
  /\ campaign \in CampaignRow
  /\ contact \subseteq Contact
  /\ subscriber \in [Contact -> Row \cup {NoRow, DeletedRow}]
  /\ \A c \in Contact : /\ message[c] \in Seq(MessageStatus)
                        /\ Len(message[c]) <= MaxMessage
  /\ loose \in {"Unsent", "Sent"}
  /\ outbox \subseteq Contact \X (1 .. MaxMessage)
  /\ looseSpooled \in BOOLEAN
  /\ initTask \in [Contact -> {"none", "queued", "create", "send"}]
  /\ pendingRun.pc \in {"idle", "mark", "loop"}
  /\ pendingRun.batch \in Seq(Contact)
  /\ resendRun.pc \in {"idle", "loop", "send", "save"}
  /\ DOMAIN resendRun.list \subseteq Contact
  /\ \A c \in DOMAIN resendRun.list : resendRun.list[c] \in Row
  /\ importRun.pc \in {"idle", "queued", "insert", "save"}
  /\ importRun.row \in CampaignRow
  /\ deaths \in 0 .. MaxDeaths

Init ==
  /\ campaign = [status |-> "PAUSE", imported |-> FALSE]
  /\ contact = {}
  /\ subscriber = [c \in Contact |-> NoRow]
  /\ message = [c \in Contact |-> <<>>]
  /\ loose = "Unsent"
  /\ outbox = {}
  /\ looseSpooled = FALSE
  /\ initTask = [c \in Contact |-> "none"]
  /\ pendingRun = NoRun
  /\ resendRun = NoResend
  /\ importRun = NoImport
  /\ deaths = 0

Deleted(c) == subscriber[c] = DeletedRow
Having(status) == {c \in Contact : subscriber[c].status = status}
Running == campaign.status = "START"

-----------------------------------------------------------------------------
(***************************************************************************)
(* The user.                                                               *)
(***************************************************************************)
CollectSent(run) == IF run.pc = "idle" THEN [run EXCEPT !.pc = "queued"] ELSE run

\* common_sms_campaign_status: a start sends sms_collect_subscriber, which sends an
\* import if the phonebook is not in the list.
Start ==
  /\ ~Running
  /\ campaign' = [campaign EXCEPT !.status = "START"]
  /\ importRun' = IF campaign.imported THEN importRun ELSE CollectSent(importRun)
  /\ UNCHANGED <<contact, subscriber, message, loose, outbox, looseSpooled, initTask,
                 pendingRun, resendRun, deaths>>

\* The same for a pause, and for END by sms_campaign_expire_check.
Stop ==
  /\ "stop" \in Env
  /\ Running
  /\ campaign' = [campaign EXCEPT !.status = "PAUSE"]
  /\ UNCHANGED <<contact, subscriber, message, loose, outbox, looseSpooled, initTask,
                 pendingRun, resendRun, importRun, deaths>>

\* post_save_add_contact: a started campaign gets the contact at once.
AddContact(c) ==
  /\ c \notin contact /\ ~Deleted(c)
  /\ contact' = contact \cup {c}
  /\ subscriber' = IF Running THEN [subscriber EXCEPT ![c] = NewRow] ELSE subscriber
  /\ UNCHANGED <<campaign, message, loose, outbox, looseSpooled, initTask, pendingRun,
                 resendRun, importRun, deaths>>

\* contact_del and phonebook_del; the subscriber goes with its contact.  Django saves
\* a row that is gone as a new one, which lacks its contact: save raises.
DeleteContact(c) ==
  /\ c \in Deletable \cap contact
  /\ contact' = contact \ {c}
  /\ subscriber' = [subscriber EXCEPT ![c] = DeletedRow]
  /\ UNCHANGED <<campaign, message, loose, outbox, looseSpooled, initTask, pendingRun,
                 resendRun, importRun, deaths>>

-----------------------------------------------------------------------------
(***************************************************************************)
(* The import: INSERT first, then the row read at the start is saved with  *)
(* the phonebook added to the list.                                        *)
(***************************************************************************)
\* sms_campaign_spool_contact, every minute.
SpoolContact ==
  /\ Running
  /\ ~campaign.imported
  /\ importRun.pc = "idle"
  /\ importRun' = [importRun EXCEPT !.pc = "queued"]
  /\ UNCHANGED <<rows, outbox, looseSpooled, initTask, pendingRun, resendRun, deaths>>

ImportRead ==
  /\ importRun.pc = "queued"
  /\ importRun' = [pc |-> "insert", row |-> campaign]
  /\ UNCHANGED <<rows, outbox, looseSpooled, initTask, pendingRun, resendRun, deaths>>

\* Mutant: without NOT EXISTS, ON CONFLICT the row is written again.
ImportInsert_Overwrites ==
  /\ importRun.pc = "insert"
  /\ subscriber' = [c \in Contact |-> IF c \in contact THEN NewRow ELSE subscriber[c]]
  /\ importRun' = [importRun EXCEPT !.pc = "save"]
  /\ UNCHANGED <<campaign, contact, message, loose, outbox, looseSpooled, initTask,
                 pendingRun, resendRun, deaths>>

\* importcontact_custom_sql.
ImportInsert ==
  /\ importRun.pc = "insert"
  /\ subscriber' = [c \in Contact |->
       IF c \in contact /\ subscriber[c] = NoRow THEN NewRow ELSE subscriber[c]]
  /\ importRun' = [importRun EXCEPT !.pc = "save"]
  /\ UNCHANGED <<campaign, contact, message, loose, outbox, looseSpooled, initTask,
                 pendingRun, resendRun, deaths>>

ImportSave ==
  /\ importRun.pc = "save"
  /\ campaign' = [importRun.row EXCEPT !.imported = TRUE]
  /\ importRun' = NoImport
  /\ UNCHANGED <<contact, subscriber, message, loose, outbox, looseSpooled, initTask,
                 pendingRun, resendRun, deaths>>

-----------------------------------------------------------------------------
(***************************************************************************)
(* check_sms_campaign_pendingcall.                                         *)
(***************************************************************************)
\* get_pending_subscriber_update: SELECT ... LIMIT frequency.
TakePending ==
  /\ Running
  /\ pendingRun.pc = "idle"
  /\ \E B \in SUBSET Having("PENDING") :
       /\ B # {}
       /\ Cardinality(B) <= Frequency
       /\ Cardinality(B) < Frequency => B = Having("PENDING")
       /\ \E order \in SetToSeqs(B) : pendingRun' = [pc |-> "mark", batch |-> order]
  /\ UNCHANGED <<rows, outbox, looseSpooled, initTask, resendRun, importRun, deaths>>

\* The loop that saves the rows as IN_PROCESS, up to one that was deleted; nothing
\* else writes a pending row.
MarkInProcess ==
  LET batch == pendingRun.batch
      saved == {i \in DOMAIN batch : \A j \in 1 .. i : ~Deleted(batch[j])} IN
  /\ pendingRun.pc = "mark"
  /\ subscriber' = [c \in Contact |->
       IF \E i \in saved : batch[i] = c THEN [NewRow EXCEPT !.status = "IN_PROCESS"]
       ELSE subscriber[c]]
  /\ pendingRun' = IF saved = DOMAIN batch THEN [pendingRun EXCEPT !.pc = "loop"] ELSE NoRun
  /\ UNCHANGED <<campaign, contact, message, loose, outbox, looseSpooled, initTask,
                 resendRun, importRun, deaths>>

Rest == IF Tail(pendingRun.batch) = <<>> THEN NoRun
        ELSE [pendingRun EXCEPT !.batch = Tail(@)]

SendInit ==
  LET c == Head(pendingRun.batch) IN
  /\ pendingRun.pc = "loop"
  /\ c \notin Unauthorized /\ ~Deleted(c)
  /\ initTask' = [initTask EXCEPT ![c] = "queued"]
  /\ pendingRun' = Rest
  /\ UNCHANGED <<rows, outbox, looseSpooled, resendRun, importRun, deaths>>

\* "Contact not authorized": the row is saved and the run RETURNS, the rest of the
\* batch stays IN_PROCESS.
RefuseContact ==
  LET c == Head(pendingRun.batch) IN
  /\ pendingRun.pc = "loop"
  /\ c \in Unauthorized /\ ~Deleted(c)
  /\ subscriber' = [subscriber EXCEPT ![c] = [NewRow EXCEPT !.status = "NOT_AUTHORIZED"]]
  /\ pendingRun' = NoRun
  /\ UNCHANGED <<campaign, contact, message, loose, outbox, looseSpooled, initTask,
                 resendRun, importRun, deaths>>

\* The contact of the row is read in the loop, and not found.
BatchBreaks ==
  /\ pendingRun.pc = "loop"
  /\ Deleted(Head(pendingRun.batch))
  /\ pendingRun' = NoRun
  /\ UNCHANGED <<rows, outbox, looseSpooled, initTask, resendRun, importRun, deaths>>

-----------------------------------------------------------------------------
(***************************************************************************)
(* init_smsrequest works on the copy of the row it was sent: IN_PROCESS,   *)
(* no attempt and no message, whatever the row has become.  With a         *)
(* maxretry of 0 or more, count_attempt <= maxretry holds of that copy.    *)
(***************************************************************************)
InitCreate(c) ==
  /\ initTask[c] = "queued"
  /\ Len(message[c]) < MaxMessage
  /\ message' = [message EXCEPT ![c] = Append(@, "Unsent")]
  /\ initTask' = [initTask EXCEPT ![c] = "create"]
  /\ UNCHANGED <<campaign, contact, subscriber, loose, outbox, looseSpooled, pendingRun,
                 resendRun, importRun, deaths>>

InitSave(c) ==
  /\ initTask[c] = "create"
  /\ IF Deleted(c)
     THEN initTask' = [initTask EXCEPT ![c] = "none"] /\ UNCHANGED subscriber
     ELSE /\ initTask' = [initTask EXCEPT ![c] = "send"]
          /\ subscriber' = [subscriber EXCEPT ![c] =
               [status |-> "IN_PROCESS", count_attempt |-> 1, message |-> Len(message[c])]]
  /\ UNCHANGED <<campaign, contact, message, loose, outbox, looseSpooled, pendingRun,
                 resendRun, importRun, deaths>>

InitSend(c) ==
  /\ initTask[c] = "send"
  /\ outbox' = outbox \cup {<<c, Len(message[c])>>}
  /\ initTask' = [initTask EXCEPT ![c] = "none"]
  /\ UNCHANGED <<rows, looseSpooled, pendingRun, resendRun, importRun, deaths>>

-----------------------------------------------------------------------------
(***************************************************************************)
(* resend_sms_update_smscampaignsubscriber: the rows are read at once; the *)
(* report of the message a row names is read when its turn comes.          *)
(***************************************************************************)
ResendRead ==
  /\ Running
  /\ resendRun.pc = "idle"
  /\ Having("IN_PROCESS") # {}
  /\ resendRun' = [NoResend EXCEPT !.pc = "loop",
                     !.list = [c \in Having("IN_PROCESS") |-> subscriber[c]]]
  /\ UNCHANGED <<rows, outbox, looseSpooled, initTask, pendingRun, importRun, deaths>>

Without(run, c) ==
  LET left == DOMAIN run.list \ {c} IN
  IF left = {} THEN NoResend
  ELSE [NoResend EXCEPT !.pc = "loop", !.list = [d \in left |-> run.list[d]]]

Report(c) == LET k == resendRun.list[c].message IN IF k = 0 THEN "none" ELSE message[c][k]

\* Mutant: > for >= in the test of the limit.
RetryDue_OffByOne(c) ==
  Report(c) = "Failed" /\ resendRun.list[c].count_attempt <= MaxRetry
RetryDue(c) == Report(c) = "Failed" /\ resendRun.list[c].count_attempt < MaxRetry

\* Mutant: a row without a message waits for one.
Verdict_Waits(c) ==
  IF Report(c) = "Sent" THEN "COMPLETE"
  ELSE IF Report(c) = "Failed" /\ ~RetryDue(c) THEN "FAIL"
  ELSE "IN_PROCESS"

\* Mutant: SENT, a status of the voice campaigns.
Verdict_OtherTable(c) ==
  IF Report(c) = "none" THEN "FAIL"
  ELSE IF Report(c) = "Sent" THEN "SENT"
  ELSE IF Report(c) = "Failed" /\ ~RetryDue(c) THEN "FAIL"
  ELSE "IN_PROCESS"

\* The status the row gets if the message is not sent again.
Verdict(c) ==
  IF Report(c) = "none" THEN "FAIL"
  ELSE IF Report(c) = "Sent" THEN "COMPLETE"
  ELSE IF Report(c) = "Failed" /\ ~RetryDue(c) THEN "FAIL"
  ELSE "IN_PROCESS"

\* The whole row is saved as it was read, with its status changed.
ResendSettle(c) ==
  /\ resendRun.pc = "loop"
  /\ c \in DOMAIN resendRun.list
  /\ ~RetryDue(c)
  /\ Deleted(c) => Verdict(c) = "IN_PROCESS"
  /\ subscriber' = IF Verdict(c) = "IN_PROCESS" THEN subscriber
                   ELSE [subscriber EXCEPT ![c] = [resendRun.list[c] EXCEPT !.status = Verdict(c)]]
  /\ resendRun' = Without(resendRun, c)
  /\ UNCHANGED <<campaign, contact, message, loose, outbox, looseSpooled, initTask,
                 pendingRun, importRun, deaths>>

ResendCreate(c) ==
  /\ resendRun.pc = "loop"
  /\ c \in DOMAIN resendRun.list
  /\ RetryDue(c) /\ ~Deleted(c)
  /\ Len(message[c]) < MaxMessage
  /\ message' = [message EXCEPT ![c] = Append(@, "Unsent")]
  /\ resendRun' = [resendRun EXCEPT !.pc = "send", !.c = c]
  /\ UNCHANGED <<campaign, contact, subscriber, loose, outbox, looseSpooled, initTask,
                 pendingRun, importRun, deaths>>

ResendSend ==
  LET c == resendRun.c IN
  /\ resendRun.pc = "send"
  /\ outbox' = outbox \cup {<<c, Len(message[c])>>}
  /\ resendRun' = [resendRun EXCEPT !.pc = "save"]
  /\ UNCHANGED <<rows, looseSpooled, initTask, pendingRun, importRun, deaths>>

ResendSave ==
  LET c == resendRun.c IN
  /\ resendRun.pc = "save"
  /\ ~Deleted(c)
  /\ subscriber' = [subscriber EXCEPT ![c] =
       [resendRun.list[c] EXCEPT !.message = Len(message[c]), !.count_attempt = @ + 1]]
  /\ resendRun' = Without(resendRun, c)
  /\ UNCHANGED <<campaign, contact, message, loose, outbox, looseSpooled, initTask,
                 pendingRun, importRun, deaths>>

\* The row to save, or its contact, is gone: the run is over.
ResendBreaks(c) ==
  /\ Deleted(c)
  /\ \/ resendRun.pc = "save" /\ resendRun.c = c
     \/ resendRun.pc = "loop" /\ c \in DOMAIN resendRun.list /\ Verdict(c) # "IN_PROCESS"
     \/ resendRun.pc = "loop" /\ c \in DOMAIN resendRun.list /\ RetryDue(c)
  /\ resendRun' = NoResend
  /\ UNCHANGED <<rows, outbox, looseSpooled, initTask, pendingRun, importRun, deaths>>

-----------------------------------------------------------------------------
\* Mutant: the messages are spooled for running campaigns only.
SpoolNoCampaign_WithCampaign ==
  /\ Running
  /\ loose = "Unsent"
  /\ looseSpooled' = TRUE
  /\ UNCHANGED <<rows, outbox, initTask, pendingRun, resendRun, importRun, deaths>>

\* spool_sms_nocampaign, every six seconds: the message is sent to the broker as
\* long as it is Unsent.
SpoolNoCampaign ==
  /\ loose = "Unsent"
  /\ looseSpooled' = TRUE
  /\ UNCHANGED <<rows, outbox, initTask, pendingRun, resendRun, importRun, deaths>>

Outcome == {"Sent", "Failed"} \cup ({"No_Route" : x \in {"no_route"} \cap Env})

SendMessage(c, k) ==
  /\ <<c, k>> \in outbox
  /\ outbox' = outbox \ {<<c, k>>}
  /\ \E st \in Outcome : message' = [message EXCEPT ![c][k] = st]
  /\ UNCHANGED <<campaign, contact, subscriber, loose, looseSpooled, initTask,
                 pendingRun, resendRun, importRun, deaths>>

SendLoose ==
  /\ looseSpooled
  /\ looseSpooled' = FALSE
  /\ loose' = "Sent"
  /\ UNCHANGED <<campaign, contact, subscriber, message, outbox, initTask, pendingRun,
                 resendRun, importRun, deaths>>

\* A worker process dies with its task.
Die ==
  /\ "death" \in Env
  /\ deaths < MaxDeaths
  /\ deaths' = deaths + 1
  /\ \/ pendingRun # NoRun /\ pendingRun' = NoRun
        /\ UNCHANGED <<initTask, resendRun, importRun, outbox, looseSpooled>>
     \/ resendRun # NoResend /\ resendRun' = NoResend
        /\ UNCHANGED <<initTask, pendingRun, importRun, outbox, looseSpooled>>
     \/ importRun # NoImport /\ importRun' = NoImport
        /\ UNCHANGED <<initTask, pendingRun, resendRun, outbox, looseSpooled>>
     \/ /\ \E c \in Contact :
             initTask[c] # "none" /\ initTask' = [initTask EXCEPT ![c] = "none"]
        /\ UNCHANGED <<pendingRun, resendRun, importRun, outbox, looseSpooled>>
     \/ /\ \E x \in outbox : outbox' = outbox \ {x}
        /\ UNCHANGED <<initTask, pendingRun, resendRun, importRun, looseSpooled>>
     \/ looseSpooled /\ looseSpooled' = FALSE
        /\ UNCHANGED <<initTask, pendingRun, resendRun, importRun, outbox>>
  /\ UNCHANGED rows

-----------------------------------------------------------------------------
ImportStep == ImportRead \/ ImportInsert \/ ImportSave
PendingStep == TakePending \/ MarkInProcess \/ SendInit \/ RefuseContact \/ BatchBreaks
InitStep(c) == InitCreate(c) \/ InitSave(c) \/ InitSend(c)
SendStep(c) == \E k \in 1 .. MaxMessage : SendMessage(c, k)
ResendStep ==
  \/ ResendRead \/ ResendSend \/ ResendSave
  \/ \E c \in Contact : ResendSettle(c) \/ ResendCreate(c) \/ ResendBreaks(c)

Next ==
  \/ Start \/ Stop
  \/ \E c \in Contact : AddContact(c) \/ DeleteContact(c) \/ InitStep(c) \/ SendStep(c)
  \/ SpoolContact \/ ImportStep \/ PendingStep \/ ResendStep
  \/ SpoolNoCampaign \/ SendLoose
  \/ Die

Spec == Init /\ [][Next]_vars

(***************************************************************************)
(* Beat starts the periodic tasks for ever and the workers finish what     *)
(* they take; nothing is assumed of the user or of deaths.                 *)
(***************************************************************************)
Fairness ==
  /\ WF_vars(SpoolContact) /\ WF_vars(ImportStep)
  /\ WF_vars(PendingStep)
  /\ WF_vars(ResendStep)
  /\ WF_vars(SpoolNoCampaign) /\ WF_vars(SendLoose)
  /\ \A c \in Contact : WF_vars(InitStep(c)) /\ WF_vars(SendStep(c))

FairSpec == Spec /\ Fairness

-----------------------------------------------------------------------------
(***************************************************************************)
(* Properties.                                                             *)
(***************************************************************************)
Larger(a, b) == IF a > b THEN a ELSE b

\* The limit is tested on a counter in a row that three tasks save whole: a contact
\* still gets no more messages than maxretry allows, none once one was sent, and one
\* more for each run that died before it saved the row.
MessagesBounded ==
  \A c \in Contact :
    /\ Len(message[c]) <= Larger(1, MaxRetry) + deaths
    /\ Cardinality({k \in DOMAIN message[c] : message[c][k] = "Sent"}) <= 1 + deaths

\* COMPLETE is final, until the contact is deleted, although stale rows are saved over
\* newer ones.  FAIL and NOT_AUTHORIZED are not: the task of a contact may start after
\* the resend run gave its row up for want of a message, and that run may save FAIL
\* over NOT_AUTHORIZED.
CompleteIsFinal ==
  [][\A c \in Contact : subscriber[c].status = "COMPLETE"
                         => subscriber'[c] \in {subscriber[c], DeletedRow}]_vars

Settled(c) == subscriber[c].status \in {"COMPLETE", "FAIL", "NOT_AUTHORIZED", "deleted"}

\* The message the row names will never have a report.
Silent(c) ==
  /\ subscriber[c].message # 0
  /\ LET k == subscriber[c].message IN
       \/ message[c][k] = "No_Route"
       \/ message[c][k] = "Unsent" /\ <<c, k>> \notin outbox

\* While the campaign runs every subscriber reaches an outcome, also those whose task
\* died and those a refused or deleted contact cut off; the one exception is a message
\* the gateway never reports on.  What is silent for a while only has to go on after it.
EveryContactSettles ==
  \A c \in Contact :
    (subscriber[c] # NoRow /\ Running) ~> (Settled(c) \/ ~Running \/ Silent(c))

\* A message without a campaign leaves in the end, whatever died on the way.
LooseMessageSent == (loose = "Unsent") ~> (loose # "Unsent")
=============================================================================
