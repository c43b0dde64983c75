-------------------------- MODULE Campaign_proofs --------------------------
(***************************************************************************)
(* Proofs about the module Campaign, for every set of contacts,            *)
(* phonebooks and processes; for every limit and every Env too, but where  *)
(* a theorem says otherwise.                                               *)
(***************************************************************************)
EXTENDS Campaign, FiniteSetTheorems, TLAPS

(***************************************************************************)
(* What a process may be running.                                          *)
(***************************************************************************)
LEMMA IdleTyped ==
  /\ NewCampaign \in CampaignRow
  /\ Idle \in Task
  /\ Idle.pc = "idle"
BY LimitAssumption DEF NewCampaign, CampaignRow, CampaignStatus, Idle, Task

LEMMA StartedTyped ==
  ASSUME NEW pc \in WebPc \cup StartPc \cup SpoolPc \cup CollectPc,
         NEW row \in CampaignRow, NEW cust \in BOOLEAN
  PROVE  /\ [Idle EXCEPT !.pc = pc] \in Task
         /\ [Idle EXCEPT !.pc = pc, !.row = row] \in Task
         /\ [Idle EXCEPT !.pc = pc, !.cust = cust, !.row = row] \in Task
         /\ [Idle EXCEPT !.pc = pc].pc = pc
         /\ [Idle EXCEPT !.pc = pc, !.row = row].pc = pc
         /\ [Idle EXCEPT !.pc = pc, !.cust = cust, !.row = row].pc = pc
BY IdleTyped DEF Task

LEMMA RowTyped ==
  ASSUME NEW row \in CampaignRow
  PROVE  /\ \A st \in CampaignStatus : [row EXCEPT !.status = st] \in CampaignRow
         /\ [row EXCEPT !.has_been_started = TRUE] \in CampaignRow
         /\ \A n \in 0 .. MaxSurvey : [row EXCEPT !.survey = n] \in CampaignRow
         /\ \A b \in Phonebook :
              [row EXCEPT !.imported_phonebook = @ \cup {b}] \in CampaignRow
BY DEF CampaignRow

LEMMA TaskTyped ==
  ASSUME NEW t \in Task
  PROVE  /\ t.row \in CampaignRow
         /\ t.contacts \subseteq Contact
         /\ \A B \in SUBSET Contact, pc \in SpoolPc :
              /\ [t EXCEPT !.pc = pc] \in Task
              /\ [t EXCEPT !.contacts = B] \in Task
              /\ [t EXCEPT !.pc = pc, !.contacts = B] \in Task
BY DEF Task

\* The limit of an import is a number, however many subscribers there are.
LEMMA ImportLimitTyped == ImportLimit \in Nat
<1>1. Subscribed \subseteq Contact
  BY DEF Subscribed
<1>2. Cardinality(Contact) \in Nat /\ Cardinality(Subscribed) \in Nat
  BY <1>1, ContactAssumption, FS_CardinalityType, FS_Subset
<1>3. QED
  BY <1>2, LimitAssumption DEF ImportLimit

LEMMA ViewsKeepTypes ==
  ASSUME TypeOK,
         \/ \E p \in Web, st \in CampaignStatus, cust \in BOOLEAN :
              UpdateCampaignStatus(p, st, cust)
         \/ \E p \in Web, c \in Contact : AddContact(p, c)
         \/ \E c \in Contact : ContactImport(c)
         \/ \E p \in Web : WebStep(p)
  PROVE  TypeOK'
<1>1. ASSUME NEW p \in Web, NEW st \in CampaignStatus, NEW cust \in BOOLEAN,
             UpdateCampaignStatus(p, st, cust)
      PROVE  TypeOK'
  <2> DEFINE new == [Idle EXCEPT !.pc = "save_status", !.cust = cust,
                                 !.row = [campaign EXCEPT !.status = st]]
  <2>1. new \in Task
    BY RowTyped, StartedTyped DEF TypeOK, WebPc
  <2>2. requests' \in 0 .. MaxRequest
    <3>1. requests < MaxRequest /\ requests' = requests + 1
      BY <1>1 DEF UpdateCampaignStatus
    <3>2. QED
      BY <3>1, LimitAssumption DEF TypeOK
  <2>3. task' = [task EXCEPT ![p] = new]
    BY <1>1 DEF UpdateCampaignStatus
  <2> HIDE DEF new
  <2>4. QED
    BY <1>1, <2>1, <2>2, <2>3 DEF TypeOK, UpdateCampaignStatus, tables, Process
<1>2. ASSUME NEW p \in Web, NEW c \in Contact, AddContact(p, c) PROVE TypeOK'
  <2> DEFINE new == [Idle EXCEPT !.pc = "post_save", !.contacts = {c}]
  <2>1. new \in Task
    BY IdleTyped DEF Task, WebPc
  <2>2. task' = [task EXCEPT ![p] = new]
    BY <1>2 DEF AddContact
  <2> HIDE DEF new
  <2>3. QED
    BY <1>2, <2>1, <2>2 DEF TypeOK, AddContact, Process
<1>3. ASSUME NEW c \in Contact, ContactImport(c) PROVE TypeOK'
  BY <1>3 DEF TypeOK, ContactImport
<1>4. ASSUME NEW p \in Web, SaveStatus(p) PROVE TypeOK'
  <2> DEFINE row == task[p].row
             next == [Idle EXCEPT !.pc = "save_started", !.row = row]
  <2>1. row \in CampaignRow
    BY TaskTyped DEF TypeOK, Process
  <2>2. next \in Task /\ Idle \in Task
    BY <2>1, StartedTyped, IdleTyped DEF StartPc
  <2>3. campaign' = row /\ (task' = [task EXCEPT ![p] = next] \/ task' = [task EXCEPT ![p] = Idle])
    BY <1>4 DEF SaveStatus
  <2> HIDE DEF row, next
  <2>4. QED
    BY <1>4, <2>1, <2>2, <2>3 DEF TypeOK, SaveStatus, Process
<1>5. ASSUME NEW p \in Web, PostSaveAddContact(p) PROVE TypeOK'
  BY <1>5, IdleTyped DEF TypeOK, PostSaveAddContact, Process, SubscriberStatus
<1>6. QED
  BY <1>1, <1>2, <1>3, <1>4, <1>5 DEF WebStep

LEMMA FirstStartKeepsTypes ==
  ASSUME TypeOK, NEW p \in Process, FirstStart(p)
  PROVE  TypeOK'
<1> DEFINE row == task[p].row
<1>1. row \in CampaignRow /\ Idle \in Task
  BY TaskTyped, IdleTyped DEF TypeOK
<1>2. CASE SaveStarted(p)
  <2> DEFINE pc == IF row.survey = 0 THEN "copy_create" ELSE "send_collect"
  <2>1. [row EXCEPT !.has_been_started = TRUE] \in CampaignRow
    BY <1>1, RowTyped
  <2>2. pc \in StartPc
    BY DEF StartPc
  <2>3. [Idle EXCEPT !.pc = pc] \in Task
    BY <1>1, <2>2, StartedTyped
  <2>4. task' = [task EXCEPT ![p] = [Idle EXCEPT !.pc = pc]]
    BY <1>2 DEF SaveStarted
  <2> HIDE DEF pc
  <2>5. QED
    BY <1>2, <2>1, <2>3, <2>4 DEF TypeOK, SaveStarted
<1>3. CASE CopyCreate(p)
  <2> DEFINE new == [campaign EXCEPT !.survey = lastSurvey']
             t == [task[p] EXCEPT !.pc = "copy_save", !.row = new]
  <2>1. lastSurvey' \in 0 .. MaxSurvey
    BY <1>3, LimitAssumption DEF TypeOK, CopyCreate, AtMost
  <2>2. new \in CampaignRow
    BY <2>1, RowTyped DEF TypeOK
  <2>3. t \in Task
    <3> HIDE DEF new
    <3>1. QED
      BY <2>2 DEF TypeOK, Task, StartPc
  <2>4. task' = [task EXCEPT ![p] = t]
    BY <1>3 DEF CopyCreate, TypeOK
  <2> HIDE DEF t
  <2>5. QED
    BY <1>3, <2>1, <2>3, <2>4 DEF TypeOK, CopyCreate
<1>4. CASE CopySave(p)
  <2>1. [Idle EXCEPT !.pc = "send_collect"] \in Task
    BY <1>1, StartedTyped DEF StartPc
  <2>2. QED
    BY <1>1, <1>4, <2>1 DEF TypeOK, CopySave
<1>5. CASE SendCollect(p)
  <2> DEFINE next == [task[p] EXCEPT !.pc = "reserve"]
  <2>1. next \in Task
    BY TaskTyped DEF TypeOK, SpoolPc
  <2>2. task' = [task EXCEPT ![p] = Idle] \/ task' = [task EXCEPT ![p] = next]
    BY <1>5 DEF SendCollect
  <2> HIDE DEF next
  <2>3. QED
    BY <1>1, <1>5, <2>1, <2>2 DEF TypeOK, SendCollect, tables
<1>6. QED
  BY <1>2, <1>3, <1>4, <1>5 DEF FirstStart

LEMMA CollectKeepsTypes ==
  ASSUME TypeOK, NEW w \in Worker, CollectSubscriber(w) \/ CollectStep(w)
  PROVE  TypeOK'
<1> DEFINE t == task[w]
<1>1. /\ w \in Process /\ t \in Task /\ t.row \in CampaignRow /\ campaign \in CampaignRow
      /\ Idle \in Task
  BY TaskTyped, IdleTyped DEF TypeOK, Process
<1>2. \A row \in CampaignRow : [Idle EXCEPT !.pc = "collect", !.row = row] \in Task
  BY StartedTyped DEF CollectPc
<1>3. CASE CollectSubscriber(w)
  <2> DEFINE new == [Idle EXCEPT !.pc = "collect", !.row = campaign]
  <2>1. new \in Task
    BY <1>1, <1>2
  <2>2. \/ collectLock' = w /\ task' = [task EXCEPT ![w] = new]
        \/ UNCHANGED <<collectLock, task>>
    BY <1>3 DEF CollectSubscriber
  <2> HIDE DEF new
  <2>3. QED
    BY <1>1, <1>3, <2>1, <2>2 DEF TypeOK, CollectSubscriber, tables
<1>4. ASSUME NEW b \in Phonebook, MarkImported(w, b) PROVE TypeOK'
  <2> DEFINE row == [t.row EXCEPT !.imported_phonebook = @ \cup {b}]
             B == {c \in Contact : PhonebookOf[c] = b}
             new == [t EXCEPT !.pc = "import", !.row = row, !.limit = ImportLimit,
                              !.contacts = B]
  <2>1. row \in CampaignRow
    BY <1>1, RowTyped
  <2>2. B \subseteq Contact
    OBVIOUS
  <2>3. task' = [task EXCEPT ![w] = new] /\ campaign' = row
    BY <1>1, <1>4 DEF MarkImported, TypeOK
  <2>4. new \in Task
    <3> DEFINE limit == ImportLimit
    <3>1. limit \in Nat
      BY ImportLimitTyped
    <3> HIDE DEF row, B, limit, t
    <3>2. [t EXCEPT !.pc = "import", !.row = row, !.limit = limit, !.contacts = B] \in Task
      BY <1>1, <2>1, <2>2, <3>1 DEF Task, CollectPc
    <3>3. QED
      BY <3>2 DEF limit
  <2> HIDE DEF new, row
  <2>5. task' \in [Process -> Task] /\ campaign' \in CampaignRow
    BY <1>1, <2>1, <2>3, <2>4 DEF TypeOK
  <2>6. QED
    BY <1>4, <2>5 DEF TypeOK, MarkImported
<1>5. CASE ImportContacts(w)
  <2> DEFINE new == [Idle EXCEPT !.pc = "collect", !.row = t.row]
  <2>1. new \in Task
    BY <1>1, <1>2
  <2>2. task' = [task EXCEPT ![w] = new]
    BY <1>5 DEF ImportContacts
  <2>3. subscriber' \in [Contact -> SubscriberStatus]
    BY <1>5 DEF TypeOK, ImportContacts, SubscriberStatus
  <2> HIDE DEF new
  <2>4. QED
    BY <1>1, <1>5, <2>1, <2>2, <2>3 DEF TypeOK, ImportContacts
<1>6. CASE SaveTotalContact(w)
  BY <1>1, <1>6 DEF TypeOK, SaveTotalContact
<1>7. QED
  BY <1>3, <1>4, <1>5, <1>6 DEF CollectStep

LEMMA SpoolKeepsTypes ==
  ASSUME TypeOK, NEW w \in Worker, PendingCallProcessing(w) \/ SpoolStep(w)
  PROVE  TypeOK'
<1> DEFINE t == task[w]
<1>1. /\ w \in Process /\ t \in Task /\ t.contacts \subseteq Contact
      /\ campaign \in CampaignRow /\ Idle \in Task
  BY TaskTyped, IdleTyped DEF TypeOK, Process
<1>2. \A B \in SUBSET Contact, pc \in SpoolPc :
        /\ [t EXCEPT !.pc = pc] \in Task
        /\ [t EXCEPT !.contacts = B] \in Task
        /\ [t EXCEPT !.pc = pc, !.contacts = B] \in Task
  BY <1>1, TaskTyped
<1>3. CASE PendingCallProcessing(w)
  <2> DEFINE reserve == [Idle EXCEPT !.pc = "reserve"]
             start == [Idle EXCEPT !.pc = "save_started", !.row = campaign]
  <2>1. reserve \in Task /\ start \in Task
    BY <1>1, StartedTyped DEF SpoolPc, StartPc
  <2>2. \/ /\ spoolLock' = w
           /\ task' = [task EXCEPT ![w] = reserve] \/ task' = [task EXCEPT ![w] = start]
        \/ UNCHANGED <<spoolLock, task>>
    BY <1>3 DEF PendingCallProcessing
  <2> HIDE DEF reserve, start
  <2>3. QED
    BY <1>1, <1>3, <2>1, <2>2 DEF TypeOK, PendingCallProcessing, tables
<1>4. CASE Reserve(w)
  <2>1. PICK B \in SUBSET Pending :
          /\ subscriber' = [c \in Contact |-> IF c \in B THEN "IN_PROCESS" ELSE subscriber[c]]
          /\ task' = [task EXCEPT ![w] = IF B = {} THEN Idle
                                         ELSE [@ EXCEPT !.pc = "create", !.contacts = B]]
          /\ spoolLock' = IF B = {} THEN Nobody ELSE spoolLock
    BY <1>4 DEF Reserve
  <2> DEFINE new == [t EXCEPT !.pc = "create", !.contacts = B]
  <2>2. new \in Task
    BY <1>2 DEF Pending, SpoolPc
  <2>3. task' = [task EXCEPT ![w] = Idle] \/ task' = [task EXCEPT ![w] = new]
    BY <1>1, <2>1 DEF TypeOK
  <2> HIDE DEF new
  <2>4. task' \in [Process -> Task]
    BY <1>1, <2>2, <2>3 DEF TypeOK
  <2>5. subscriber' \in [Contact -> SubscriberStatus]
    BY <2>1 DEF TypeOK, SubscriberStatus
  <2>6. QED
    BY <1>4, <2>1, <2>4, <2>5 DEF TypeOK, Reserve
<1>5. CASE BulkCreate(w)
  <2> DEFINE new == [t EXCEPT !.pc = "dispatch"]
  <2>1. new \in Task
    BY <1>2 DEF SpoolPc
  <2>2. task' = [task EXCEPT ![w] = new]
    BY <1>1, <1>5 DEF BulkCreate, TypeOK
  <2> HIDE DEF new
  <2>3. callrequest' \in [Contact -> Nat]
    BY <1>5 DEF BulkCreate, TypeOK
  <2>4. QED
    BY <1>1, <1>5, <2>1, <2>2, <2>3 DEF TypeOK, BulkCreate
<1>6. CASE EndSpool(w)
  BY <1>1, <1>6 DEF TypeOK, EndSpool, tables
<1>7. ASSUME NEW c \in Contact, RefuseContact(w, c) \/ DispatchCall(w, c) PROVE TypeOK'
  <2> DEFINE B == t.contacts \ {c}
             new == [t EXCEPT !.contacts = B]
  <2>1. new \in Task
    <3>1. B \in SUBSET Contact /\ "create" \in SpoolPc
      BY <1>1 DEF SpoolPc
    <3> HIDE DEF B, t
    <3>2. QED
      BY <1>2, <3>1
  <2>2. task' = [task EXCEPT ![w] = new]
    BY <1>1, <1>7 DEF RefuseContact, DispatchCall, TypeOK
  <2> HIDE DEF new
  <2>3. task' \in [Process -> Task]
    BY <1>1, <2>1, <2>2 DEF TypeOK
  <2>4. CASE RefuseContact(w, c)
    BY <2>3, <2>4 DEF TypeOK, RefuseContact, SubscriberStatus
  <2>5. CASE DispatchCall(w, c)
    BY <2>3, <2>5 DEF TypeOK, DispatchCall, tables
  <2>6. QED
    BY <1>7, <2>4, <2>5
<1>8. QED
  BY <1>3, <1>4, <1>5, <1>6, <1>7 DEF SpoolStep

LEMMA TimeKeepsTypes ==
  ASSUME TypeOK,
         \/ SpoolContact \/ CampaignRunning
         \/ \E w \in Worker : Crash(w)
         \/ Expire \/ CampaignExpireCheck \/ ExpireSpoolLock \/ ExpireCollectLock
  PROVE  TypeOK'
<1>1. \A kind : Fault(kind) => faults' \in 0 .. MaxFaults
  <2> SUFFICES ASSUME NEW kind, Fault(kind) PROVE faults' \in 0 .. MaxFaults
    OBVIOUS
  <2>1. faults < MaxFaults /\ faults' = faults + 1
    BY DEF Fault
  <2>2. QED
    BY <2>1, LimitAssumption DEF TypeOK
<1>2. CASE SpoolContact \/ CampaignRunning
  BY <1>2 DEF TypeOK, SpoolContact, CampaignRunning, tables
<1>3. ASSUME NEW w \in Worker, Crash(w) PROVE TypeOK'
  <2>1. Imported(task[w]) \subseteq Contact
    BY TaskTyped DEF TypeOK, Imported, Process
  <2>2. cut' \subseteq Contact
    BY <1>3, <2>1 DEF TypeOK, Crash
  <2>3. faults' \in 0 .. MaxFaults
    BY <1>1, <1>3 DEF Crash
  <2>4. task' \in [Process -> Task]
    BY <1>3, IdleTyped DEF TypeOK, Crash
  <2>5. QED
    BY <1>3, <2>2, <2>3, <2>4 DEF TypeOK, Crash, tables
<1>4. CASE Expire
  BY <1>4 DEF TypeOK, Expire, tables
<1>5. CASE CampaignExpireCheck
  <2>1. campaign' \in CampaignRow
    BY <1>5, RowTyped DEF TypeOK, CampaignExpireCheck, CampaignStatus
  <2>2. QED
    BY <1>5, <2>1 DEF TypeOK, CampaignExpireCheck
<1>6. CASE ExpireSpoolLock
  <2>1. faults' \in 0 .. MaxFaults
    BY <1>1, <1>6 DEF TypeOK, ExpireSpoolLock, Outlived
  <2>2. QED
    BY <1>6, <2>1 DEF TypeOK, ExpireSpoolLock, tables
<1>7. CASE ExpireCollectLock
  <2>1. faults' \in 0 .. MaxFaults
    BY <1>1, <1>7 DEF TypeOK, ExpireCollectLock, Outlived
  <2>2. QED
    BY <1>7, <2>1 DEF TypeOK, ExpireCollectLock, tables
<1>8. QED
  BY <1>2, <1>3, <1>4, <1>5, <1>6, <1>7

LEMMA InitTypes == Init => TypeOK
<1> SUFFICES ASSUME Init PROVE TypeOK
  OBVIOUS
<1>1. task \in [Process -> Task] /\ campaign \in CampaignRow
  BY IdleTyped DEF Init
<1>2. lastSurvey \in 0 .. MaxSurvey /\ requests \in 0 .. MaxRequest /\ faults \in 0 .. MaxFaults
  BY LimitAssumption DEF Init
<1>3. QED
  BY <1>1, <1>2 DEF Init, TypeOK, SubscriberStatus

LEMMA NextKeepsTypes == TypeOK /\ [Next]_vars => TypeOK'
<1> SUFFICES ASSUME TypeOK, [Next]_vars PROVE TypeOK'
  OBVIOUS
<1>1. CASE Next
  BY <1>1, ViewsKeepTypes, FirstStartKeepsTypes, CollectKeepsTypes, SpoolKeepsTypes,
     TimeKeepsTypes DEF Next, StartTask
<1>2. CASE UNCHANGED vars
  BY <1>2 DEF TypeOK, vars, tables
<1>3. QED
  BY <1>1, <1>2

\* Every row, message, key and task of a campaign keeps its type, for any number
\* of contacts, phonebooks and processes (rows of dialer_campaign and
\* dialer_subscriber, the arguments of the two tasks).
THEOREM CampaignTypeCorrect == Spec => []TypeOK
<1>1. QED
  BY InitTypes, NextKeepsTypes, PTL DEF Spec

-----------------------------------------------------------------------------
(***************************************************************************)
(* A contact is called for the first time once.                            *)
(***************************************************************************)
BatchPc == {"create", "dispatch"}
InBatch(w, c) == task[w].pc \in BatchPc /\ c \in task[w].contacts

\* A contact that was not reserved yet has no call request, no message, and is
\* in no batch.
Unreserved ==
  \A c \in Contact : subscriber[c] \in {"none", "PENDING"} =>
    callrequest[c] = 0 /\ \A w \in Worker : ~InBatch(w, c)

\* A contact is in the batch of one run only, and has no message while it is; it
\* has no call request until that run has created them.
Exclusive ==
  \A w \in Worker, c \in Contact : InBatch(w, c) =>
    /\ \A v \in Worker : InBatch(v, c) => v = w
    /\ queue[c] = 0
    /\ callrequest[c] = IF task[w].pc = "create" THEN 0 ELSE 1

BInv == TypeOK /\ SpooledOnce /\ Unreserved /\ Exclusive

\* A step that reserves, creates and sends nothing: it may empty batches, and
\* give statuses, but makes no contact reservable again.
Tame ==
  /\ callrequest' = callrequest /\ queue' = queue
  /\ \A c \in Contact :
       subscriber'[c] \in {"none", "PENDING"} => subscriber[c] \in {"none", "PENDING"}
  /\ \A w \in Worker :
       \/ task'[w].pc \notin BatchPc
       \/ task'[w].pc = task[w].pc /\ task'[w].contacts \subseteq task[w].contacts

LEMMA InitBInv == Init => BInv
<1> SUFFICES ASSUME Init PROVE BInv
  OBVIOUS
<1>1. \A w \in Worker : task[w].pc = "idle"
  BY IdleTyped DEF Init, Process
<1>2. SpooledOnce
  BY DEF Init, SpooledOnce
<1>3. Unreserved /\ Exclusive
  BY <1>1 DEF Init, Unreserved, Exclusive, InBatch, BatchPc
<1>4. QED
  BY <1>2, <1>3, InitTypes DEF BInv

LEMMA TameKeeps == BInv /\ TypeOK' /\ Tame => BInv'
<1> SUFFICES ASSUME BInv, TypeOK', Tame PROVE BInv'
  OBVIOUS
<1>1. \A w \in Worker, c \in Contact :
        InBatch(w, c)' => InBatch(w, c) /\ task'[w].pc = task[w].pc
  BY DEF Tame, InBatch
<1>2. SpooledOnce'
  BY DEF BInv, Tame, SpooledOnce
<1>3. Unreserved'
  BY <1>1 DEF BInv, Tame, Unreserved
<1>4. Exclusive'
  BY <1>1 DEF BInv, Tame, Exclusive
<1>5. QED
  BY <1>2, <1>3, <1>4 DEF BInv

\* A process that starts or ends a run, or goes on outside the loop over the
\* batch, touches no batch of another.
LEMMA OneTaskChanges ==
  ASSUME TypeOK, NEW p \in Process, NEW new,
         task' = [task EXCEPT ![p] = new],
         \/ new.pc \notin BatchPc
         \/ new.pc = task[p].pc /\ new.contacts \subseteq task[p].contacts
  PROVE  \A w \in Worker :
           \/ task'[w].pc \notin BatchPc
           \/ task'[w].pc = task[w].pc /\ task'[w].contacts \subseteq task[w].contacts
BY DEF TypeOK

LEMMA ViewsTame ==
  ASSUME TypeOK,
         \/ \E p \in Web, st \in CampaignStatus, cust \in BOOLEAN :
              UpdateCampaignStatus(p, st, cust)
         \/ \E p \in Web, c \in Contact : AddContact(p, c)
         \/ \E c \in Contact : ContactImport(c)
         \/ \E p \in Web : WebStep(p)
  PROVE  Tame
<1>1. ASSUME NEW p \in Web, NEW st \in CampaignStatus, NEW cust \in BOOLEAN,
             UpdateCampaignStatus(p, st, cust)
      PROVE  Tame
  <2> DEFINE new == [Idle EXCEPT !.pc = "save_status", !.cust = cust,
                                 !.row = [campaign EXCEPT !.status = st]]
  <2>1. task' = [task EXCEPT ![p] = new] /\ new.pc = "save_status"
    BY <1>1, IdleTyped DEF UpdateCampaignStatus, Idle
  <2> HIDE DEF new
  <2>2. QED
    BY <1>1, <2>1, OneTaskChanges DEF Tame, UpdateCampaignStatus, tables, Process, BatchPc
<1>2. ASSUME NEW p \in Web, NEW c \in Contact, AddContact(p, c) PROVE Tame
  <2> DEFINE new == [Idle EXCEPT !.pc = "post_save", !.contacts = {c}]
  <2>1. task' = [task EXCEPT ![p] = new] /\ new.pc = "post_save"
    BY <1>2 DEF AddContact, Idle
  <2> HIDE DEF new
  <2>2. QED
    BY <1>2, <2>1, OneTaskChanges DEF Tame, AddContact, Process, BatchPc
<1>3. ASSUME NEW c \in Contact, ContactImport(c) PROVE Tame
  BY <1>3 DEF Tame, ContactImport
<1>4. ASSUME NEW p \in Web, SaveStatus(p) PROVE Tame
  <2> DEFINE start == [Idle EXCEPT !.pc = "save_started", !.row = task[p].row]
  <2>0. task' = [task EXCEPT ![p] = start] \/ task' = [task EXCEPT ![p] = Idle]
    BY <1>4 DEF SaveStatus
  <2>1. start.pc = "save_started" /\ Idle.pc = "idle"
    BY DEF Idle
  <2> HIDE DEF start
  <2>2. QED
    BY <1>4, <2>0, <2>1, OneTaskChanges DEF Tame, SaveStatus, Process, BatchPc
<1>5. ASSUME NEW p \in Web, PostSaveAddContact(p) PROVE Tame
  <2>1. \A c \in Contact : subscriber'[c] = subscriber[c] \/ subscriber[c] = "none"
    BY <1>5 DEF TypeOK, PostSaveAddContact, Subscribed
  <2>2. task' = [task EXCEPT ![p] = Idle]
    BY <1>5 DEF PostSaveAddContact
  <2>3. QED
    BY <1>5, <2>1, <2>2, IdleTyped, OneTaskChanges DEF Tame, PostSaveAddContact, Process, BatchPc
<1>6. QED
  BY <1>1, <1>2, <1>3, <1>4, <1>5 DEF WebStep

LEMMA FirstStartTame ==
  ASSUME TypeOK, NEW p \in Process, FirstStart(p)
  PROVE  Tame
<1>1. PICK new : task' = [task EXCEPT ![p] = new] /\ new.pc \notin BatchPc
  <2>1. CASE SaveStarted(p)
    <3> DEFINE pc == IF task[p].row.survey = 0 THEN "copy_create" ELSE "send_collect"
               t == [Idle EXCEPT !.pc = pc]
    <3>1. t.pc = pc
      BY DEF Idle
    <3>2. task' = [task EXCEPT ![p] = t] /\ pc \notin BatchPc
      BY <2>1 DEF SaveStarted, BatchPc
    <3> HIDE DEF t, pc
    <3>3. QED
      BY <3>1, <3>2
  <2>2. CASE CopyCreate(p)
    <3> DEFINE t == [task[p] EXCEPT !.pc = "copy_save",
                                    !.row = [campaign EXCEPT !.survey = lastSurvey']]
    <3>1. task' = [task EXCEPT ![p] = t] /\ t.pc = "copy_save"
      BY <2>2 DEF CopyCreate, TypeOK, Task
    <3>2. QED
      BY <3>1 DEF BatchPc
  <2>3. CASE CopySave(p)
    <3> DEFINE t == [Idle EXCEPT !.pc = "send_collect"]
    <3>1. t.pc = "send_collect"
      BY DEF Idle
    <3>2. task' = [task EXCEPT ![p] = t]
      BY <2>3 DEF CopySave
    <3> HIDE DEF t
    <3>3. QED
      BY <3>1, <3>2 DEF BatchPc
  <2>4. CASE SendCollect(p)
    <3> DEFINE t == [task[p] EXCEPT !.pc = "reserve"]
    <3>1. t.pc = "reserve"
      BY DEF TypeOK, Task
    <3>2. task' = [task EXCEPT ![p] = Idle] \/ task' = [task EXCEPT ![p] = t]
      BY <2>4 DEF SendCollect
    <3> HIDE DEF t
    <3>3. QED
      BY <3>1, <3>2, IdleTyped DEF BatchPc
  <2>5. QED
    BY <2>1, <2>2, <2>3, <2>4 DEF FirstStart
<1>2. UNCHANGED <<subscriber, callrequest, queue>>
  BY DEF FirstStart, SaveStarted, CopyCreate, CopySave, SendCollect, tables
<1>3. QED
  BY <1>1, <1>2, OneTaskChanges DEF Tame

LEMMA CollectTame ==
  ASSUME TypeOK, NEW w \in Worker, CollectSubscriber(w) \/ CollectStep(w)
  PROVE  Tame
<1>1. w \in Process
  BY DEF Process
<1>2. CASE CollectSubscriber(w)
  <2> DEFINE new == [Idle EXCEPT !.pc = "collect", !.row = campaign]
  <2>0. UNCHANGED task \/ task' = [task EXCEPT ![w] = new]
    BY <1>2 DEF CollectSubscriber
  <2>1. new.pc = "collect"
    BY DEF Idle
  <2> HIDE DEF new
  <2>2. QED
    BY <1>1, <1>2, <2>0, <2>1, OneTaskChanges DEF Tame, CollectSubscriber, tables, BatchPc
<1>3. ASSUME NEW b \in Phonebook, MarkImported(w, b) PROVE Tame
  <2> DEFINE row == [task[w].row EXCEPT !.imported_phonebook = @ \cup {b}]
             B == {c \in Contact : PhonebookOf[c] = b}
             new == [task[w] EXCEPT !.pc = "import", !.row = row, !.limit = ImportLimit,
                                    !.contacts = B]
  <2>0. task' = [task EXCEPT ![w] = new]
    BY <1>1, <1>3 DEF MarkImported, TypeOK
  <2>1. new.pc = "import"
    <3> HIDE DEF row, B
    <3>1. QED
      BY <1>1 DEF TypeOK, Task
  <2> HIDE DEF new
  <2>2. QED
    BY <1>1, <1>3, <2>0, <2>1, OneTaskChanges DEF Tame, MarkImported, BatchPc
<1>4. CASE ImportContacts(w)
  <2>1. \A c \in Contact : subscriber'[c] = subscriber[c] \/ subscriber[c] = "none"
    BY <1>4 DEF TypeOK, ImportContacts, Imported, Subscribed
  <2> DEFINE new == [Idle EXCEPT !.pc = "collect", !.row = task[w].row]
  <2>2. task' = [task EXCEPT ![w] = new] /\ new.pc = "collect"
    BY <1>4 DEF ImportContacts, Idle
  <2> HIDE DEF new
  <2>3. QED
    BY <1>1, <1>4, <2>1, <2>2, OneTaskChanges DEF Tame, ImportContacts, BatchPc
<1>5. CASE SaveTotalContact(w)
  BY <1>1, <1>5, IdleTyped, OneTaskChanges DEF Tame, SaveTotalContact, BatchPc
<1>6. QED
  BY <1>2, <1>3, <1>4, <1>5 DEF CollectStep

LEMMA TimeTame ==
  ASSUME TypeOK,
         \/ SpoolContact \/ CampaignRunning
         \/ \E w \in Worker : Crash(w)
         \/ Expire \/ CampaignExpireCheck \/ ExpireSpoolLock \/ ExpireCollectLock
  PROVE  Tame
<1>1. ASSUME NEW w \in Worker, Crash(w) PROVE Tame
  BY <1>1, IdleTyped, OneTaskChanges DEF Tame, Crash, tables, Process, BatchPc
<1>2. CASE \/ SpoolContact \/ CampaignRunning \/ Expire
           \/ CampaignExpireCheck \/ ExpireSpoolLock \/ ExpireCollectLock
  BY <1>2 DEF Tame, SpoolContact, CampaignRunning, Expire, CampaignExpireCheck,
     ExpireSpoolLock, ExpireCollectLock, tables
<1>3. QED
  BY <1>1, <1>2

LEMMA SpoolKeeps ==
  ASSUME BInv, TypeOK', NEW w \in Worker, PendingCallProcessing(w) \/ SpoolStep(w)
  PROVE  BInv'
<1> DEFINE t == task[w]
<1>1. /\ TypeOK /\ w \in Process /\ t \in Task
      /\ \A v \in Worker : v # w => v \in Process
  BY DEF BInv, TypeOK, Process
<1>2. CASE PendingCallProcessing(w)
  <2> DEFINE reserve == [Idle EXCEPT !.pc = "reserve"]
             start == [Idle EXCEPT !.pc = "save_started", !.row = campaign]
  <2>0. \/ UNCHANGED task
        \/ task' = [task EXCEPT ![w] = reserve]
        \/ task' = [task EXCEPT ![w] = start]
    BY <1>2 DEF PendingCallProcessing
  <2>1. reserve.pc = "reserve" /\ start.pc = "save_started"
    BY DEF Idle
  <2> HIDE DEF reserve, start
  <2>2. Tame
    BY <1>1, <1>2, <2>0, <2>1, OneTaskChanges DEF Tame, PendingCallProcessing, tables, BatchPc
  <2>3. QED
    BY <2>2, TameKeeps
<1>3. CASE Reserve(w)
  <2>1. PICK B \in SUBSET Pending :
          /\ subscriber' = [c \in Contact |-> IF c \in B THEN "IN_PROCESS" ELSE subscriber[c]]
          /\ task' = [task EXCEPT ![w] = IF B = {} THEN Idle
                                         ELSE [@ EXCEPT !.pc = "create", !.contacts = B]]
    BY <1>3 DEF Reserve
  <2>2. UNCHANGED <<callrequest, queue>>
    BY <1>3 DEF Reserve
  <2>3. \A v \in Worker : v # w => task'[v] = task[v]
    BY <1>1, <2>1 DEF TypeOK
  <2>4. task'[w].pc \notin BatchPc \/ (task'[w].pc = "create" /\ task'[w].contacts = B)
    BY <1>1, <2>1, IdleTyped DEF TypeOK, Task, BatchPc
  <2>5. \A c \in B : c \in Contact /\ callrequest[c] = 0 /\ queue[c] = 0
                      /\ \A v \in Worker : ~InBatch(v, c)
    BY <1>1 DEF BInv, Unreserved, SpooledOnce, Pending, TypeOK
  <2>6. \A v \in Worker, c \in Contact : InBatch(v, c)' =>
          \/ v # w /\ InBatch(v, c) /\ task'[v] = task[v] /\ c \notin B
          \/ v = w /\ c \in B /\ task'[w].pc = "create"
    BY <2>3, <2>4, <2>5 DEF InBatch
  <2>7. SpooledOnce'
    BY <2>2 DEF BInv, SpooledOnce
  <2>8. \A c \in Contact : subscriber'[c] \in {"none", "PENDING"} =>
          c \notin B /\ subscriber[c] \in {"none", "PENDING"}
    BY <2>1
  <2>9. Unreserved'
    BY <2>2, <2>6, <2>8 DEF BInv, Unreserved
  <2>10. Exclusive'
    BY <2>2, <2>5, <2>6 DEF BInv, Exclusive
  <2>11. QED
    BY <2>7, <2>9, <2>10 DEF BInv
<1>4. CASE BulkCreate(w)
  <2>1. /\ t.pc = "create" /\ task'[w].pc = "dispatch" /\ task'[w].contacts = t.contacts
        /\ \A v \in Worker : v # w => task'[v] = task[v]
    BY <1>1, <1>4 DEF BulkCreate, At, TypeOK, Task
  <2>2. /\ \A c \in Contact :
             callrequest'[c] = IF c \in t.contacts THEN callrequest[c] + 1 ELSE callrequest[c]
        /\ UNCHANGED <<subscriber, queue>>
    BY <1>4 DEF BulkCreate
  <2>3. \A c \in Contact : c \in t.contacts =>
          /\ callrequest[c] = 0 /\ queue[c] = 0
          /\ \A v \in Worker : InBatch(v, c) => v = w
          /\ subscriber[c] \notin {"none", "PENDING"}
    BY <2>1 DEF BInv, Exclusive, Unreserved, InBatch, BatchPc
  <2>4. \A v \in Worker, c \in Contact : InBatch(v, c)' => InBatch(v, c)
    BY <2>1 DEF InBatch, BatchPc
  <2>5. SpooledOnce'
    BY <2>2, <2>3 DEF BInv, SpooledOnce
  <2>6. Unreserved'
    BY <2>2, <2>3, <2>4 DEF BInv, Unreserved
  <2>7. Exclusive'
    <3> SUFFICES ASSUME NEW v \in Worker, NEW c \in Contact, InBatch(v, c)'
                 PROVE  /\ \A u \in Worker : InBatch(u, c)' => u = v
                        /\ queue'[c] = 0
                        /\ callrequest'[c] = IF task'[v].pc = "create" THEN 0 ELSE 1
      BY DEF Exclusive
    <3>1. InBatch(v, c)
      BY <2>4
    <3>2. /\ \A u \in Worker : InBatch(u, c) => u = v
          /\ queue[c] = 0
          /\ callrequest[c] = IF task[v].pc = "create" THEN 0 ELSE 1
      BY <3>1 DEF BInv, Exclusive
    <3>3. CASE v = w
      BY <2>1, <2>2, <2>4, <3>1, <3>2, <3>3 DEF InBatch
    <3>4. CASE v # w
      BY <2>1, <2>2, <2>3, <2>4, <3>1, <3>2, <3>4
    <3>5. QED
      BY <3>3, <3>4
  <2>8. QED
    BY <2>5, <2>6, <2>7 DEF BInv
<1>5. CASE EndSpool(w)
  <2>1. Tame
    BY <1>1, <1>5, IdleTyped, OneTaskChanges DEF Tame, EndSpool, tables, BatchPc
  <2>2. QED
    BY <2>1, TameKeeps
<1>6. ASSUME NEW c \in Contact, RefuseContact(w, c) PROVE BInv'
  <2>1. /\ task'[w].pc = t.pc /\ task'[w].contacts \subseteq t.contacts
        /\ \A v \in Worker : v # w => task'[v] = task[v]
    BY <1>1, <1>6 DEF RefuseContact, TypeOK, Task
  <2>2. \A d \in Contact : subscriber'[d] = subscriber[d] \/ subscriber'[d] = "NOT_AUTHORIZED"
    BY <1>1, <1>6 DEF RefuseContact, TypeOK
  <2>3. Tame
    BY <1>6, <2>1, <2>2 DEF Tame, RefuseContact
  <2>4. QED
    BY <2>3, TameKeeps
<1>7. ASSUME NEW c \in Contact, DispatchCall(w, c) PROVE BInv'
  <2>1. /\ t.pc = "dispatch" /\ c \in t.contacts
        /\ task'[w].pc = "dispatch" /\ task'[w].contacts = t.contacts \ {c}
        /\ \A v \in Worker : v # w => task'[v] = task[v]
    BY <1>1, <1>7 DEF DispatchCall, At, TypeOK, Task
  <2>2. /\ \A d \in Contact : queue'[d] = IF d = c THEN queue[c] + 1 ELSE queue[d]
        /\ UNCHANGED <<subscriber, callrequest>>
    BY <1>1, <1>7 DEF DispatchCall, tables, TypeOK
  <2>3. /\ callrequest[c] = 1 /\ queue[c] = 0
        /\ \A v \in Worker : InBatch(v, c) => v = w
    BY <2>1 DEF BInv, Exclusive, InBatch, BatchPc
  <2>4. \A v \in Worker, d \in Contact : InBatch(v, d)' =>
          InBatch(v, d) /\ d # c /\ task'[v].pc = task[v].pc
    BY <2>1, <2>3 DEF InBatch
  <2>5. SpooledOnce'
    BY <2>2, <2>3 DEF BInv, SpooledOnce
  <2>6. Unreserved'
    BY <2>2, <2>4 DEF BInv, Unreserved
  <2>7. Exclusive'
    BY <2>2, <2>4 DEF BInv, Exclusive
  <2>8. QED
    BY <2>5, <2>6, <2>7 DEF BInv
<1>8. QED
  BY <1>2, <1>3, <1>4, <1>5, <1>6, <1>7 DEF SpoolStep

LEMMA NextKeepsBInv == BInv /\ [Next]_vars => BInv'
<1> SUFFICES ASSUME BInv, [Next]_vars PROVE BInv'
  OBVIOUS
<1>1. TypeOK /\ TypeOK'
  BY NextKeepsTypes DEF BInv
<1>2. CASE Next
  <2>1. CASE \E w \in Worker : PendingCallProcessing(w) \/ SpoolStep(w)
    BY <1>1, <2>1, SpoolKeeps
  <2>2. CASE ~ \E w \in Worker : PendingCallProcessing(w) \/ SpoolStep(w)
    <3>1. Tame
      BY <1>1, <1>2, <2>2, ViewsTame, FirstStartTame, CollectTame, TimeTame DEF Next, StartTask
    <3>2. QED
      BY <1>1, <3>1, TameKeeps
  <2>3. QED
    BY <2>1, <2>2
<1>3. CASE UNCHANGED vars
  <2>1. Tame
    BY <1>3 DEF Tame, vars, tables
  <2>2. QED
    BY <1>1, <2>1, TameKeeps
<1>4. QED
  BY <1>2, <1>3

\* However many runs of pending_call_processing overlap, die or are repeated, a
\* contact of the campaign gets one first call request and one message to dial it
\* (get_pending_subscriber_update and the loops after it).
THEOREM ContactSpooledOnce == Spec => []SpooledOnce
<1>1. BInv => SpooledOnce
  BY DEF BInv
<1>2. QED
  BY <1>1, InitBInv, NextKeepsBInv, PTL DEF Spec

-----------------------------------------------------------------------------
(***************************************************************************)
(* No contact is missed.  The row of the campaign is saved whole from      *)
(* copies of any age, so what it says of the phonebooks counts only with   *)
(* what every copy says; and a contact is covered by whoever comes last of *)
(* the INSERT of its phonebook and its own post_save.  A user who stops    *)
(* the campaign, an expiry and a bulk import leave contacts aside, and so  *)
(* does a limit: they are excluded here.                                   *)
(***************************************************************************)
Undisturbed == MaxSubscriber = 0 /\ Env \cap {"stop", "expire", "bulk"} = {}

RowPc == {"save_status", "save_started", "copy_save"} \cup CollectPc
WorkPc == StartPc \cup SpoolPc \cup CollectPc
WaitPc == {"post_save", "import"}

\* The row or a copy of it has the phonebook in its list.
Marked(b) ==
  \/ b \in campaign.imported_phonebook
  \/ \E p \in Process : b \in task[p].row.imported_phonebook

\* An import or a post_save that has yet to run will come to this contact.
Awaited(c) == \E p \in Process : task[p].pc \in WaitPc /\ c \in task[p].contacts

\* Which process runs t, what a copy says of the status, what an import may add.
SoundTask(p, t) ==
  /\ t.pc \in CollectPc => p \in Worker
  /\ t.pc = "post_save" => p \in Web
  /\ t.pc \in RowPc => t.row.status = "START"
  /\ t.pc = "import" => t.limit = Cardinality(Contact)

\* Tasks and messages come with the start of the campaign, which nobody takes back.
Underway ==
  /\ ~expired
  /\ message # {} => campaign.status = "START"
  /\ \A p \in Process : /\ SoundTask(p, task[p])
                        /\ task[p].pc \in WorkPc => campaign.status = "START"
Unmarked == campaign.status # "START" => \A b \in Phonebook : ~Marked(b)
Covered ==
  campaign.status = "START" =>
    \A c \in contact : c \in Subscribed \cup cut \/ Awaited(c) \/ ~Marked(PhonebookOf[c])
MInv == TypeOK /\ Underway /\ Unmarked /\ Covered

\* What every step does: a phonebook is marked by who is about to import it, and only
\* who subscribes a contact, or adds it to those that were cut, forgets it.
Steady ==
  /\ ~expired'
  /\ campaign.status = "START" => campaign'.status = "START"
  /\ message' # {} => campaign'.status = "START"
  /\ \A p \in Process :
       \/ task'[p] = task[p]
       \/ /\ SoundTask(p, task'[p])
          /\ task'[p].pc \in WorkPc => campaign'.status = "START"
  /\ \A b \in Phonebook : Marked(b)' =>
       \/ Marked(b)
       \/ /\ campaign'.status = "START"
          /\ \A c \in Contact : PhonebookOf[c] = b => Awaited(c)'
  /\ campaign.status = "START" =>
       \A c \in contact' :
         \/ c \in Subscribed' \cup cut' \/ Awaited(c)'
         \/ c \in contact /\ c \notin Subscribed \cup cut /\ ~Awaited(c)

LEMMA InitMInv == Init => MInv
<1> SUFFICES ASSUME Init PROVE MInv
  OBVIOUS
<1>1. TypeOK
  BY InitTypes
<1>2. \A p \in Process : task[p] = Idle
  BY DEF Init
<1>3. campaign.status = "PAUSE" /\ campaign.imported_phonebook = {} /\ message = {} /\ ~expired
  BY DEF Init, NewCampaign
<1>4. Idle.pc = "idle" /\ Idle.row.imported_phonebook = {}
  BY DEF Idle, NewCampaign
<1>5. Underway
  BY <1>2, <1>3, <1>4 DEF Underway, SoundTask, RowPc, WorkPc, StartPc, SpoolPc, CollectPc
<1>6. Unmarked
  BY <1>2, <1>3, <1>4 DEF Unmarked, Marked
<1>7. Covered
  BY <1>3 DEF Covered
<1>8. QED
  BY <1>1, <1>5, <1>6, <1>7 DEF MInv

LEMMA SteadyKeeps == MInv /\ TypeOK' /\ Steady => MInv'
<1> SUFFICES ASSUME MInv, TypeOK', Steady PROVE MInv'
  OBVIOUS
<1>1. Underway'
  BY DEF MInv, Underway, Steady
<1>2. Unmarked'
  BY DEF MInv, Unmarked, Steady
<1>3. Covered'
  <2> SUFFICES ASSUME campaign'.status = "START", NEW c \in contact',
                      c \notin Subscribed' \cup cut', ~Awaited(c)', Marked(PhonebookOf[c])'
               PROVE  FALSE
    BY DEF Covered
  <2>1. c \in Contact /\ PhonebookOf[c] \in Phonebook
    BY PhonebookAssumption DEF TypeOK
  <2>2. Marked(PhonebookOf[c])
    BY <2>1 DEF Steady
  <2>3. campaign.status = "START"
    BY <2>1, <2>2 DEF MInv, Unmarked
  <2>4. c \in contact /\ c \notin Subscribed \cup cut /\ ~Awaited(c)
    BY <2>3 DEF Steady
  <2>5. QED
    BY <2>2, <2>3, <2>4 DEF MInv, Covered
<1>4. QED
  BY <1>1, <1>2, <1>3 DEF MInv

\* A process goes on, and forgets only contacts that are taken care of.
LEMMA OneSteady ==
  ASSUME TypeOK, NEW p \in Process, NEW new,
         task' = [task EXCEPT ![p] = new],
         SoundTask(p, new),
         new.pc \in WorkPc => campaign'.status = "START",
         \A b \in Phonebook :
           b \in new.row.imported_phonebook \cup campaign'.imported_phonebook => Marked(b),
         ~expired',
         campaign.status = "START" => campaign'.status = "START",
         message' # {} => campaign'.status = "START",
         contact' = contact, Subscribed \subseteq Subscribed', cut \subseteq cut',
         campaign.status = "START" /\ task[p].pc \in WaitPc =>
           task[p].contacts \cap contact \subseteq Subscribed' \cup cut'
  PROVE  Steady
<1>1. task'[p] = new /\ \A q \in Process : q # p => task'[q] = task[q]
  BY DEF TypeOK
<1>2. \A b \in Phonebook : Marked(b)' => Marked(b)
  BY <1>1 DEF Marked
<1>3. ASSUME campaign.status = "START", NEW c \in contact', c \notin Subscribed' \cup cut',
             Awaited(c)
      PROVE  Awaited(c)'
  <2>1. PICK q \in Process : task[q].pc \in WaitPc /\ c \in task[q].contacts
    BY <1>3 DEF Awaited
  <2>2. q # p
    BY <1>3, <2>1
  <2>3. QED
    BY <1>1, <2>1, <2>2 DEF Awaited
<1>4. campaign.status = "START" =>
        \A c \in contact' :
          \/ c \in Subscribed' \cup cut' \/ Awaited(c)'
          \/ c \in contact /\ c \notin Subscribed \cup cut /\ ~Awaited(c)
  BY <1>3
<1>5. \A q \in Process :
        \/ task'[q] = task[q]
        \/ /\ SoundTask(q, task'[q])
           /\ task'[q].pc \in WorkPc => campaign'.status = "START"
  BY <1>1
<1>6. QED
  BY <1>2, <1>4, <1>5 DEF Steady

\* No process goes on: messages are sent, keys expire.
LEMMA NoneSteady ==
  ASSUME MInv, UNCHANGED <<campaign, contact, subscriber, task, cut, expired>>,
         message' = message \/ campaign.status = "START"
  PROVE  Steady
<1>1. \A b \in Phonebook : Marked(b)' => Marked(b)
  BY DEF Marked
<1>2. \A c \in Contact : Awaited(c)' <=> Awaited(c)
  BY DEF Awaited
<1>3. Subscribed' = Subscribed
  BY DEF Subscribed
<1>4. contact \subseteq Contact
  BY DEF MInv, TypeOK
<1>5. QED
  BY <1>1, <1>2, <1>3, <1>4 DEF Steady, MInv, Underway

LEMMA ViewsSteady ==
  ASSUME MInv, Undisturbed,
         \/ \E p \in Web, st \in CampaignStatus, cust \in BOOLEAN :
              UpdateCampaignStatus(p, st, cust)
         \/ \E p \in Web, c \in Contact : AddContact(p, c)
         \/ \E c \in Contact : ContactImport(c)
         \/ \E p \in Web : WebStep(p)
  PROVE  Steady
<1> USE DEF MInv
<1>1. ASSUME NEW p \in Web, NEW st \in CampaignStatus, NEW cust \in BOOLEAN,
             UpdateCampaignStatus(p, st, cust)
      PROVE  Steady
  <2> DEFINE row == [campaign EXCEPT !.status = st]
             new == [Idle EXCEPT !.pc = "save_status", !.cust = cust, !.row = row]
  <2>1. /\ p \in Process /\ task[p].pc = "idle" /\ st = "START"
        /\ task' = [task EXCEPT ![p] = new]
        /\ UNCHANGED <<campaign, contact, subscriber, cut, expired, message>>
    BY <1>1 DEF UpdateCampaignStatus, IsIdle, tables, Undisturbed, Process
  <2>2. row.status = "START" /\ row.imported_phonebook = campaign.imported_phonebook
    BY <2>1 DEF TypeOK, CampaignRow
  <2> HIDE DEF row
  <2>3. new.pc = "save_status" /\ new.row = row
    BY DEF Idle
  <2> HIDE DEF new
  <2>4. SoundTask(p, new) /\ new.pc \notin WorkPc
    BY <2>2, <2>3 DEF SoundTask, CollectPc, WorkPc, StartPc, SpoolPc
  <2>5. \A b \in Phonebook :
          b \in new.row.imported_phonebook \cup campaign'.imported_phonebook => Marked(b)
    BY <2>1, <2>2, <2>3 DEF Marked
  <2>6. Subscribed' = Subscribed
    BY <2>1 DEF Subscribed
  <2>7. QED
    BY <2>1, <2>4, <2>5, <2>6, OneSteady DEF Underway, WaitPc
<1>2. ASSUME NEW p \in Web, NEW c \in Contact, AddContact(p, c) PROVE Steady
  <2> DEFINE new == [Idle EXCEPT !.pc = "post_save", !.contacts = {c}]
  <2>1. /\ p \in Process /\ task[p].pc = "idle"
        /\ task' = [task EXCEPT ![p] = new] /\ contact' = contact \cup {c}
        /\ UNCHANGED <<campaign, subscriber, cut, expired, message>>
    BY <1>2 DEF AddContact, IsIdle, Process
  <2>2. new.pc = "post_save" /\ new.contacts = {c} /\ new.row.imported_phonebook = {}
    BY DEF Idle, NewCampaign
  <2> HIDE DEF new
  <2>3. task'[p] = new /\ \A q \in Process : q # p => task'[q] = task[q]
    BY <2>1 DEF TypeOK
  <2>4. SoundTask(p, new) /\ new.pc \notin WorkPc
    BY <2>2 DEF SoundTask, CollectPc, RowPc, WorkPc, StartPc, SpoolPc
  <2>5. \A b \in Phonebook : Marked(b)' => Marked(b)
    BY <2>1, <2>2, <2>3 DEF Marked
  <2>6. \A d \in Contact : (Awaited(d) => Awaited(d)') /\ (d = c => Awaited(d)')
    BY <2>1, <2>2, <2>3 DEF Awaited, WaitPc
  <2>7. Subscribed' = Subscribed /\ contact \subseteq Contact
    BY <2>1 DEF Subscribed, TypeOK
  <2>8. \A q \in Process :
          \/ task'[q] = task[q]
          \/ SoundTask(q, task'[q]) /\ task'[q].pc \notin WorkPc
    BY <2>3, <2>4
  <2>9. \A d \in contact' :
          \/ Awaited(d)'
          \/ d \in contact /\ ~Awaited(d)
    BY <2>1, <2>6, <2>7
  <2>10. QED
    BY <2>1, <2>5, <2>7, <2>8, <2>9 DEF Steady, Underway
<1>3. ASSUME NEW c \in Contact, ContactImport(c) PROVE Steady
  BY <1>3 DEF ContactImport, Undisturbed
<1>4. ASSUME NEW p \in Web, SaveStatus(p) PROVE Steady
  <2> DEFINE row == task[p].row
             next == [Idle EXCEPT !.pc = "save_started", !.row = row]
  <2>1. /\ p \in Process /\ task[p].pc = "save_status" /\ campaign' = row
        /\ task' = [task EXCEPT ![p] = next] \/ task' = [task EXCEPT ![p] = Idle]
        /\ UNCHANGED <<contact, subscriber, cut, expired, message>>
    BY <1>4 DEF SaveStatus, At, Process
  <2>2. row.status = "START"
    BY <2>1 DEF Underway, SoundTask, RowPc
  <2>3. \A b \in Phonebook : b \in row.imported_phonebook => Marked(b)
    BY <2>1 DEF Marked
  <2> HIDE DEF row
  <2>4. next.pc = "save_started" /\ next.row = row /\ Idle.pc = "idle"
        /\ Idle.row.imported_phonebook = {}
    BY DEF Idle, NewCampaign
  <2> HIDE DEF next
  <2>5. SoundTask(p, next) /\ SoundTask(p, Idle)
    BY <2>2, <2>4 DEF SoundTask, CollectPc, RowPc
  <2>6. Subscribed' = Subscribed
    BY <2>1 DEF Subscribed
  <2>7. task[p].pc \notin WaitPc
    BY <2>1 DEF WaitPc
  <2>8. /\ ~expired' /\ contact' = contact /\ cut' = cut /\ campaign'.status = "START"
        /\ \A b \in Phonebook : b \in campaign'.imported_phonebook => Marked(b)
    BY <2>1, <2>2, <2>3 DEF Underway
  <2>9. CASE task' = [task EXCEPT ![p] = next]
    BY <2>1, <2>3, <2>4, <2>5, <2>6, <2>7, <2>8, <2>9, OneSteady
  <2>10. CASE task' = [task EXCEPT ![p] = Idle]
    BY <2>1, <2>3, <2>4, <2>5, <2>6, <2>7, <2>8, <2>10, OneSteady
  <2>11. QED
    BY <2>1, <2>9, <2>10
<1>5. ASSUME NEW p \in Web, PostSaveAddContact(p) PROVE Steady
  <2>1. /\ p \in Process /\ task[p].pc = "post_save" /\ task' = [task EXCEPT ![p] = Idle]
        /\ UNCHANGED <<campaign, contact, cut, expired, message>>
    BY <1>5 DEF PostSaveAddContact, At, Process
  <2>2. \A c \in Contact :
          \/ subscriber'[c] = "PENDING"
          \/ /\ subscriber'[c] = subscriber[c]
             /\ campaign.status = "START" => c \notin task[p].contacts \ Subscribed
    BY <1>5 DEF PostSaveAddContact
  <2>3. Subscribed \subseteq Subscribed'
    BY <2>2 DEF Subscribed
  <2>4. campaign.status = "START" => task[p].contacts \cap Contact \subseteq Subscribed'
    BY <2>2 DEF Subscribed
  <2>5. SoundTask(p, Idle) /\ Idle.pc \notin WorkPc /\ Idle.row.imported_phonebook = {}
    BY DEF SoundTask, Idle, NewCampaign, CollectPc, RowPc, WorkPc, StartPc, SpoolPc
  <2>6. \A b \in Phonebook : b \in campaign'.imported_phonebook => Marked(b)
    BY <2>1 DEF Marked
  <2>7. contact \subseteq Contact
    BY DEF TypeOK
  <2>8. QED
    BY <2>1, <2>3, <2>4, <2>5, <2>6, <2>7, OneSteady DEF Underway
<1>6. QED
  BY <1>1, <1>2, <1>3, <1>4, <1>5 DEF WebStep

LEMMA FirstStartSteady ==
  ASSUME MInv, NEW p \in Process, FirstStart(p)
  PROVE  Steady
<1> USE DEF MInv
<1> DEFINE row == task[p].row
<1>1. /\ task[p].pc \in StartPc /\ campaign.status = "START" /\ task[p].pc \notin WaitPc
      /\ UNCHANGED <<contact, subscriber, cut, expired>>
  BY DEF FirstStart, SaveStarted, CopyCreate, CopySave, SendCollect, At, StartPc, WaitPc,
         Underway, WorkPc, tables
<1>2. Subscribed' = Subscribed
  BY <1>1 DEF Subscribed
<1>3. \A b \in Phonebook :
        b \in row.imported_phonebook \cup campaign.imported_phonebook => Marked(b)
  BY DEF Marked
<1>4. row \in CampaignRow /\ campaign \in CampaignRow
  BY TaskTyped DEF TypeOK
<1>5. Idle.pc = "idle" /\ Idle.row.imported_phonebook = {}
  BY DEF Idle, NewCampaign
<1>6. ~expired'
  BY <1>1 DEF Underway
<1>7. CASE SaveStarted(p)
  <2> DEFINE pc == IF row.survey = 0 THEN "copy_create" ELSE "send_collect"
             new == [Idle EXCEPT !.pc = pc]
             saved == [row EXCEPT !.has_been_started = TRUE]
  <2>1. campaign' = saved /\ task' = [task EXCEPT ![p] = new] /\ message' = message
    BY <1>7 DEF SaveStarted
  <2>2. task[p].pc = "save_started"
    BY <1>7 DEF SaveStarted, At
  <2>3. /\ saved.imported_phonebook = row.imported_phonebook /\ saved.status = "START"
    BY <1>4, <2>2 DEF CampaignRow, Underway, SoundTask, RowPc
  <2>4. new.pc \in {"copy_create", "send_collect"} /\ new.row.imported_phonebook = {}
    BY DEF Idle, NewCampaign
  <2> HIDE DEF new, saved, row
  <2>5. SoundTask(p, new)
    BY <2>4 DEF SoundTask, CollectPc, RowPc
  <2>6. QED
    BY <1>1, <1>2, <1>3, <1>6, <2>1, <2>3, <2>4, <2>5, OneSteady
<1>8. CASE CopyCreate(p)
  <2> DEFINE copy == [campaign EXCEPT !.survey = lastSurvey']
             new == [task[p] EXCEPT !.pc = "copy_save", !.row = copy]
  <2>1. campaign' = campaign /\ task' = [task EXCEPT ![p] = new] /\ message' = message
    BY <1>8 DEF CopyCreate, TypeOK
  <2>2. copy.imported_phonebook = campaign.imported_phonebook /\ copy.status = "START"
    BY <1>1, <1>4 DEF CampaignRow
  <2> HIDE DEF copy
  <2>3. new.pc = "copy_save" /\ new.row = copy
    BY DEF TypeOK, Task
  <2> HIDE DEF new
  <2>4. SoundTask(p, new)
    BY <2>2, <2>3 DEF SoundTask, CollectPc, RowPc
  <2>5. QED
    BY <1>1, <1>2, <1>3, <1>6, <2>1, <2>2, <2>3, <2>4, OneSteady
<1>9. CASE CopySave(p)
  <2> DEFINE new == [Idle EXCEPT !.pc = "send_collect"]
  <2>1. campaign' = row /\ task' = [task EXCEPT ![p] = new] /\ message' = message
    BY <1>9 DEF CopySave
  <2>2. row.status = "START"
    BY <1>9 DEF CopySave, At, Underway, SoundTask, RowPc
  <2>3. new.pc = "send_collect" /\ new.row.imported_phonebook = {}
    BY DEF Idle, NewCampaign
  <2> HIDE DEF new, row
  <2>4. SoundTask(p, new)
    BY <2>3 DEF SoundTask, CollectPc, RowPc
  <2>5. QED
    BY <1>1, <1>2, <1>3, <1>6, <2>1, <2>2, <2>3, <2>4, OneSteady
<1>10. CASE SendCollect(p)
  <2> DEFINE next == [task[p] EXCEPT !.pc = "reserve"]
  <2>1. /\ campaign' = campaign
        /\ task' = [task EXCEPT ![p] = Idle] \/ task' = [task EXCEPT ![p] = next]
    BY <1>10 DEF SendCollect, tables
  <2>2. next.pc = "reserve" /\ next.row = row
    BY DEF TypeOK, Task
  <2> HIDE DEF next, row
  <2>3. SoundTask(p, next) /\ SoundTask(p, Idle)
    BY <1>5, <2>2 DEF SoundTask, CollectPc, RowPc
  <2>4. CASE task' = [task EXCEPT ![p] = Idle]
    BY <1>1, <1>2, <1>3, <1>5, <1>6, <2>1, <2>3, <2>4, OneSteady
  <2>5. CASE task' = [task EXCEPT ![p] = next]
    BY <1>1, <1>2, <1>3, <1>6, <2>1, <2>2, <2>3, <2>5, OneSteady
  <2>6. QED
    BY <2>1, <2>4, <2>5
<1>11. QED
  BY <1>7, <1>8, <1>9, <1>10 DEF FirstStart

\* With no limit an import adds every contact of the phonebook that is there.
LEMMA ImportTakesAll ==
  ASSUME MInv, Undisturbed, NEW w \in Worker, ImportContacts(w)
  PROVE  /\ Subscribed \subseteq Subscribed'
         /\ task[w].contacts \cap contact \subseteq Subscribed'
<1> DEFINE I == Imported(task[w])
<1>1. PICK B \in SUBSET I :
        /\ Cardinality(B) = AtMost(task[w].limit, Cardinality(I))
        /\ subscriber' = [c \in Contact |-> IF c \in B THEN "PENDING" ELSE subscriber[c]]
  BY DEF ImportContacts
<1>2. I \subseteq Contact /\ contact \subseteq Contact
  BY DEF Imported, MInv, TypeOK
<1>3. IsFiniteSet(I) /\ Cardinality(I) \in Nat /\ Cardinality(I) <= Cardinality(Contact)
      /\ Cardinality(Contact) \in Nat
  BY <1>2, ContactAssumption, FS_Subset, FS_CardinalityType
<1>4. task[w].limit = Cardinality(Contact)
  BY DEF MInv, Underway, SoundTask, ImportContacts, At, Process
<1>5. Cardinality(B) = Cardinality(I)
  BY <1>1, <1>3, <1>4 DEF AtMost
<1>6. B = I
  <2> HIDE DEF I
  <2>1. QED
    BY <1>3, <1>5, FS_Subset
<1>7. \A c \in Contact : c \in I => subscriber'[c] = "PENDING"
  BY <1>1, <1>6
<1>8. \A c \in Contact : subscriber'[c] = "PENDING" \/ subscriber'[c] = subscriber[c]
  BY <1>1
<1>9. QED
  BY <1>2, <1>7, <1>8 DEF Subscribed, Imported

LEMMA CollectSteady ==
  ASSUME MInv, Undisturbed, NEW w \in Worker, CollectSubscriber(w) \/ CollectStep(w)
  PROVE  Steady
<1> USE DEF MInv
<1> DEFINE t == task[w]
<1>1. w \in Process
  BY DEF Process
<1>2. t \in Task /\ t.row \in CampaignRow /\ campaign \in CampaignRow
  BY <1>1, TaskTyped DEF TypeOK
<1>3. \A b \in Phonebook :
        b \in t.row.imported_phonebook \cup campaign.imported_phonebook => Marked(b)
  BY <1>1 DEF Marked
<1>4. CASE CollectSubscriber(w)
  <2> DEFINE new == [Idle EXCEPT !.pc = "collect", !.row = campaign]
  <2>1. /\ campaign.status = "START" /\ message' \subseteq message /\ t.pc = "idle"
        /\ UNCHANGED <<campaign, contact, subscriber, cut, expired>>
    BY <1>4 DEF CollectSubscriber, Underway, tables, IsIdle
  <2>2. task' = [task EXCEPT ![w] = new] \/ task' = task
    BY <1>4 DEF CollectSubscriber
  <2>3. CASE task' = [task EXCEPT ![w] = new]
    <3>1. new.pc = "collect" /\ new.row = campaign
      BY DEF Idle
    <3> HIDE DEF new
    <3>2. SoundTask(w, new) /\ t.pc \notin WaitPc
      BY <2>1, <3>1 DEF SoundTask, WaitPc
    <3>3. Subscribed' = Subscribed
      BY <2>1 DEF Subscribed
    <3>4. QED
      BY <1>1, <1>3, <2>1, <2>3, <3>1, <3>2, <3>3, OneSteady DEF Underway
  <2>4. CASE task' = task
    BY <2>1, <2>4, NoneSteady
  <2>5. QED
    BY <2>2, <2>3, <2>4
<1>5. ASSUME NEW b \in Phonebook, MarkImported(w, b) PROVE Steady
  <2> DEFINE row == [t.row EXCEPT !.imported_phonebook = @ \cup {b}]
             B == {c \in Contact : PhonebookOf[c] = b}
             limit == ImportLimit
             new == [t EXCEPT !.pc = "import", !.row = row, !.limit = limit, !.contacts = B]
  <2>1. /\ t.pc = "collect" /\ task' = [task EXCEPT ![w] = new] /\ campaign' = row
        /\ UNCHANGED <<contact, subscriber, cut, expired, message>>
    BY <1>1, <1>5 DEF MarkImported, At, TypeOK
  <2>2. t.row.status = "START" /\ campaign.status = "START"
    BY <1>1, <2>1 DEF Underway, SoundTask, RowPc, CollectPc, WorkPc
  <2>3. row.status = "START" /\ row.imported_phonebook = t.row.imported_phonebook \cup {b}
    BY <1>2, <2>2 DEF CampaignRow
  <2>4. limit = Cardinality(Contact)
    BY DEF ImportLimit, Undisturbed
  <2> HIDE DEF row, limit
  <2>5. new.pc = "import" /\ new.row = row /\ new.limit = limit /\ new.contacts = B
    BY <1>2 DEF Task
  <2> HIDE DEF new
  <2>6. task'[w] = new /\ \A q \in Process : q # w => task'[q] = task[q]
    BY <1>1, <2>1 DEF TypeOK
  <2>7. SoundTask(w, new)
    BY <2>3, <2>4, <2>5 DEF SoundTask
  <2>8. \A c \in Contact : PhonebookOf[c] = b => Awaited(c)'
    BY <1>1, <2>5, <2>6 DEF Awaited, WaitPc
  <2>9. \A d \in Phonebook : Marked(d)' => Marked(d) \/ d = b
    <3> SUFFICES ASSUME NEW d \in Phonebook, Marked(d)', d # b PROVE Marked(d)
      OBVIOUS
    <3>1. d \in row.imported_phonebook => d \in t.row.imported_phonebook
      BY <2>3
    <3>2. CASE d \in campaign'.imported_phonebook
      BY <1>3, <2>1, <3>1, <3>2
    <3>3. CASE \E p \in Process : d \in task'[p].row.imported_phonebook
      BY <1>3, <2>5, <2>6, <3>1, <3>3 DEF Marked
    <3>4. QED
      BY <3>2, <3>3 DEF Marked
  <2>10. \A c \in Contact : Awaited(c) => Awaited(c)'
    <3> SUFFICES ASSUME NEW c \in Contact, Awaited(c) PROVE Awaited(c)'
      OBVIOUS
    <3>1. PICK q \in Process : task[q].pc \in WaitPc /\ c \in task[q].contacts
      BY DEF Awaited
    <3>2. q # w
      BY <2>1, <3>1 DEF WaitPc
    <3>3. QED
      BY <2>6, <3>1, <3>2 DEF Awaited
  <2>11. Subscribed' = Subscribed /\ contact \subseteq Contact
    BY <2>1 DEF Subscribed, TypeOK
  <2>12. /\ ~expired' /\ campaign'.status = "START" /\ contact' = contact /\ cut' = cut
    BY <2>1, <2>3 DEF Underway
  <2>13. \A q \in Process : task'[q] = task[q] \/ SoundTask(q, task'[q])
    BY <2>6, <2>7
  <2>14. \A d \in Phonebook : Marked(d)' =>
           Marked(d) \/ \A c \in Contact : PhonebookOf[c] = d => Awaited(c)'
    BY <2>8, <2>9
  <2>15. \A c \in contact' : Awaited(c)' \/ (c \in contact /\ ~Awaited(c))
    BY <2>10, <2>11, <2>12
  <2>16. QED
    BY <2>11, <2>12, <2>13, <2>14, <2>15 DEF Steady
<1>6. CASE ImportContacts(w)
  <2> DEFINE new == [Idle EXCEPT !.pc = "collect", !.row = t.row]
  <2>1. /\ t.pc = "import" /\ task' = [task EXCEPT ![w] = new]
        /\ UNCHANGED <<campaign, contact, cut, expired, message>>
    BY <1>6 DEF ImportContacts, At
  <2>2. t.row.status = "START" /\ campaign.status = "START"
    BY <1>1, <2>1 DEF Underway, SoundTask, RowPc, CollectPc, WorkPc
  <2>3. new.pc = "collect" /\ new.row = t.row
    BY DEF Idle
  <2> HIDE DEF new
  <2>4. SoundTask(w, new)
    BY <2>2, <2>3 DEF SoundTask
  <2>5. Subscribed \subseteq Subscribed' /\ t.contacts \cap contact \subseteq Subscribed'
    BY <1>6, ImportTakesAll
  <2>6. QED
    BY <1>1, <1>3, <2>1, <2>2, <2>3, <2>4, <2>5, OneSteady DEF Underway
<1>7. CASE SaveTotalContact(w)
  <2>1. /\ t.pc = "collect" /\ task' = [task EXCEPT ![w] = Idle] /\ campaign' = t.row
        /\ UNCHANGED <<contact, subscriber, cut, expired, message>>
    BY <1>7 DEF SaveTotalContact, At
  <2>2. t.row.status = "START"
    BY <1>1, <2>1 DEF Underway, SoundTask, RowPc, CollectPc
  <2>3. SoundTask(w, Idle) /\ Idle.row.imported_phonebook = {} /\ t.pc \notin WaitPc
    BY <2>1 DEF SoundTask, Idle, NewCampaign, CollectPc, RowPc, WaitPc
  <2>4. Subscribed' = Subscribed
    BY <2>1 DEF Subscribed
  <2>5. QED
    BY <1>1, <1>3, <2>1, <2>2, <2>3, <2>4, OneSteady DEF Underway
<1>8. QED
  BY <1>4, <1>5, <1>6, <1>7 DEF CollectStep

\* The spooling tasks and a death: no row of the campaign is saved, no subscriber is lost.
LEMMA SpoolSteady ==
  ASSUME MInv, NEW w \in Worker, PendingCallProcessing(w) \/ SpoolStep(w) \/ Crash(w)
  PROVE  Steady
<1> USE DEF MInv
<1> DEFINE t == task[w]
<1>1. w \in Process
  BY DEF Process
<1>2. t \in Task /\ campaign \in CampaignRow
  BY <1>1 DEF TypeOK
<1>3. \A b \in Phonebook :
        b \in t.row.imported_phonebook \cup campaign.imported_phonebook => Marked(b)
  BY <1>1 DEF Marked
<1>4. Idle.pc = "idle" /\ Idle.row.imported_phonebook = {} /\ SoundTask(w, Idle)
  BY DEF Idle, NewCampaign, SoundTask, CollectPc, RowPc
<1>5. ASSUME NEW new, task' = [task EXCEPT ![w] = new],
             new = Idle \/ (new.row = t.row /\ new.pc \in SpoolPc),
             t.pc \in SpoolPc,
             UNCHANGED <<campaign, contact, cut, expired, message>>,
             Subscribed \subseteq Subscribed'
      PROVE  Steady
  <2>1. SoundTask(w, new)
    BY <1>4, <1>5 DEF SoundTask, CollectPc, RowPc, SpoolPc
  <2>2. new.row.imported_phonebook = {} \/ new.row = t.row
    BY <1>4, <1>5
  <2>3. campaign.status = "START" /\ t.pc \notin WaitPc
    BY <1>1, <1>5 DEF Underway, WorkPc, SpoolPc, WaitPc
  <2>4. QED
    BY <1>1, <1>3, <1>5, <2>1, <2>2, <2>3, OneSteady DEF Underway
<1>6. CASE PendingCallProcessing(w)
  <2> DEFINE reserve == [Idle EXCEPT !.pc = "reserve"]
             start == [Idle EXCEPT !.pc = "save_started", !.row = campaign]
  <2>1. /\ t.pc = "idle" /\ campaign.status = "START" /\ message' \subseteq message
        /\ UNCHANGED <<campaign, contact, subscriber, cut, expired>>
    BY <1>6 DEF PendingCallProcessing, IsIdle, Underway, tables
  <2>2. \/ task' = [task EXCEPT ![w] = reserve] \/ task' = [task EXCEPT ![w] = start]
        \/ task' = task
    BY <1>6 DEF PendingCallProcessing
  <2>3. reserve.pc = "reserve" /\ start.pc = "save_started" /\ start.row = campaign
        /\ reserve.row.imported_phonebook = {}
    BY DEF Idle, NewCampaign
  <2> HIDE DEF reserve, start
  <2>4. SoundTask(w, reserve) /\ SoundTask(w, start)
    BY <2>1, <2>3 DEF SoundTask, CollectPc, RowPc
  <2>5. Subscribed' = Subscribed /\ t.pc \notin WaitPc
    BY <2>1 DEF Subscribed, WaitPc
  <2>6. CASE task' = [task EXCEPT ![w] = reserve]
    BY <1>1, <1>3, <2>1, <2>3, <2>4, <2>5, <2>6, OneSteady DEF Underway
  <2>7. CASE task' = [task EXCEPT ![w] = start]
    BY <1>1, <1>3, <2>1, <2>3, <2>4, <2>5, <2>7, OneSteady DEF Underway
  <2>8. CASE task' = task
    BY <2>1, <2>8, NoneSteady
  <2>9. QED
    BY <2>2, <2>6, <2>7, <2>8
<1>7. CASE Reserve(w)
  <2>1. PICK B \in SUBSET Pending :
          /\ subscriber' = [c \in Contact |-> IF c \in B THEN "IN_PROCESS" ELSE subscriber[c]]
          /\ task' = [task EXCEPT ![w] = IF B = {} THEN Idle
                                         ELSE [@ EXCEPT !.pc = "create", !.contacts = B]]
    BY <1>7 DEF Reserve
  <2> DEFINE new == [t EXCEPT !.pc = "create", !.contacts = B]
  <2>2. new.pc = "create" /\ new.row = t.row
    BY <1>2 DEF Task
  <2>3. task' = [task EXCEPT ![w] = Idle] \/ task' = [task EXCEPT ![w] = new]
    BY <1>1, <2>1 DEF TypeOK
  <2>4. Subscribed \subseteq Subscribed'
    BY <2>1 DEF Subscribed
  <2>5. t.pc \in SpoolPc /\ UNCHANGED <<campaign, contact, cut, expired, message>>
    BY <1>7 DEF Reserve, At, SpoolPc
  <2> HIDE DEF new
  <2>6. new.pc \in SpoolPc
    BY <2>2 DEF SpoolPc
  <2>7. QED
    BY <1>5, <2>2, <2>3, <2>4, <2>5, <2>6
<1>8. CASE BulkCreate(w)
  <2> DEFINE new == [t EXCEPT !.pc = "dispatch"]
  <2>1. /\ task' = [task EXCEPT ![w] = new] /\ t.pc \in SpoolPc
        /\ UNCHANGED <<campaign, contact, cut, expired, message, subscriber>>
    BY <1>1, <1>8 DEF BulkCreate, At, SpoolPc, TypeOK
  <2>2. new.pc \in SpoolPc /\ new.row = t.row
    BY <1>2 DEF Task, SpoolPc
  <2>3. Subscribed' = Subscribed
    BY <2>1 DEF Subscribed
  <2> HIDE DEF new
  <2>4. QED
    BY <1>5, <2>1, <2>2, <2>3
<1>9. CASE EndSpool(w)
  <2>1. /\ task' = [task EXCEPT ![w] = Idle] /\ t.pc \in SpoolPc
        /\ UNCHANGED <<campaign, contact, cut, expired, message, subscriber>>
    BY <1>9 DEF EndSpool, At, SpoolPc, tables
  <2>2. Subscribed' = Subscribed
    BY <2>1 DEF Subscribed
  <2>3. QED
    BY <1>5, <2>1, <2>2
<1>10. ASSUME NEW c \in Contact, RefuseContact(w, c) \/ DispatchCall(w, c) PROVE Steady
  <2> DEFINE new == [t EXCEPT !.contacts = @ \ {c}]
  <2>1. /\ task' = [task EXCEPT ![w] = new] /\ t.pc \in SpoolPc
        /\ UNCHANGED <<campaign, contact, cut, expired, message>>
    BY <1>1, <1>10 DEF RefuseContact, DispatchCall, At, SpoolPc, TypeOK, tables
  <2>2. new.pc = t.pc /\ new.row = t.row
    BY <1>2 DEF Task
  <2>3. \A d \in Contact : subscriber'[d] = subscriber[d] \/ subscriber'[d] = "NOT_AUTHORIZED"
    BY <1>10 DEF RefuseContact, DispatchCall, TypeOK, tables
  <2>4. Subscribed \subseteq Subscribed'
    BY <2>3 DEF Subscribed
  <2> HIDE DEF new
  <2>5. QED
    BY <1>5, <2>1, <2>2, <2>4
<1>11. CASE Crash(w)
  <2>1. /\ task' = [task EXCEPT ![w] = Idle] /\ cut \subseteq cut'
        /\ UNCHANGED <<campaign, contact, expired, message, subscriber>>
    BY <1>11 DEF Crash, tables
  <2>2. t.pc = "import" => t.contacts \cap contact \subseteq Subscribed \cup cut'
    BY <1>11 DEF Crash, At, Imported
  <2>3. t.pc # "post_save"
    BY <1>1, ProcessAssumption DEF Underway, SoundTask
  <2>4. Subscribed' = Subscribed
    BY <2>1 DEF Subscribed
  <2>5. QED
    BY <1>1, <1>3, <1>4, <2>1, <2>2, <2>3, <2>4, OneSteady
    DEF Underway, WaitPc, WorkPc, StartPc, SpoolPc, CollectPc
<1>12. QED
  BY <1>6, <1>7, <1>8, <1>9, <1>10, <1>11 DEF SpoolStep

LEMMA TimeSteady ==
  ASSUME MInv, Undisturbed,
         \/ SpoolContact \/ CampaignRunning \/ Expire \/ CampaignExpireCheck
         \/ ExpireSpoolLock \/ ExpireCollectLock \/ UNCHANGED vars
  PROVE  Steady
<1>1. ~Expire /\ ~CampaignExpireCheck
  BY DEF MInv, Underway, Expire, CampaignExpireCheck, Undisturbed
<1>2. UNCHANGED <<campaign, contact, subscriber, task, cut, expired>>
  BY <1>1 DEF SpoolContact, CampaignRunning, ExpireSpoolLock, ExpireCollectLock, vars, tables
<1>3. message' = message \/ campaign.status = "START"
  BY <1>1 DEF SpoolContact, CampaignRunning, Running, ExpireSpoolLock, ExpireCollectLock, vars
<1>4. QED
  BY <1>2, <1>3, NoneSteady

LEMMA NextKeepsMInv == MInv /\ Undisturbed /\ [Next]_vars => MInv'
<1> SUFFICES ASSUME MInv, Undisturbed, [Next]_vars PROVE MInv'
  OBVIOUS
<1>1. TypeOK'
  BY NextKeepsTypes DEF MInv
<1>2. Steady
  BY ViewsSteady, FirstStartSteady, CollectSteady, SpoolSteady, TimeSteady DEF Next, StartTask
<1>3. QED
  BY <1>1, <1>2, SteadyKeeps

\* A campaign that is left running calls everybody in its phonebooks: whether a contact
\* is created before, while or after its phonebook is imported, and whatever old rows the
\* views and tasks save, it is a subscriber in the end, unless the import it depended on
\* died (importcontact, post_save_add_contact).
THEOREM NobodyMissed == Undisturbed => (Spec => []NoContactMissed)
<1> SUFFICES ASSUME Undisturbed PROVE Spec => []NoContactMissed
  OBVIOUS
<1>1. MInv => NoContactMissed
  <2> SUFFICES ASSUME MInv, campaign.status = "START",
                      campaign.imported_phonebook = Phonebook,
                      \A p \in Process : IsIdle(p), NEW c \in contact
               PROVE  c \in Subscribed \cup cut
    BY DEF NoContactMissed
  <2>1. ~Awaited(c)
    BY DEF Awaited, IsIdle, WaitPc
  <2>2. Marked(PhonebookOf[c])
    BY PhonebookAssumption DEF Marked, MInv, TypeOK
  <2>3. QED
    BY <2>1, <2>2 DEF MInv, Covered
<1>2. MInv /\ [Next]_vars => MInv'
  BY NextKeepsMInv
<1>3. QED
  BY <1>1, <1>2, InitMInv, PTL DEF Spec
=============================================================================
