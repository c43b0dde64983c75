------------------------ MODULE SmsCampaign_proofs ------------------------
(***************************************************************************)
(* Proofs about the module SmsCampaign, for any contacts, any maxretry and *)
(* frequency, every Env and every bound.                                   *)
(***************************************************************************)
EXTENDS SmsCampaign, FiniteSetTheorems, SequenceTheorems, TLAPS

(***************************************************************************)
(* The types of what the tasks carry.                                      *)
(***************************************************************************)
Listing == UNION {[D -> Row] : D \in SUBSET Contact}
Resending == [pc : {"idle", "loop", "send", "save"}, list : Listing, c : Contact \cup {"none"}]
Spooling == [pc : {"idle", "mark", "loop"}, batch : Seq(Contact)]
Importing == [pc : {"idle", "queued", "insert", "save"}, row : CampaignRow]

RowsTyped ==
  /\ campaign \in CampaignRow /\ contact \subseteq Contact
  /\ subscriber \in [Contact -> Row \cup {NoRow, DeletedRow}]
  /\ loose \in {"Unsent", "Sent"} /\ looseSpooled \in BOOLEAN
  /\ importRun \in Importing
  /\ pendingRun \in Spooling
  /\ pendingRun.pc # "idle" => pendingRun.batch # <<>>
  /\ deaths \in 0 .. MaxDeaths

MessagesTyped ==
  /\ message \in [Contact -> Seq(MessageStatus)]
  /\ outbox \subseteq Contact \X (1 .. MaxMessage)
  /\ initTask \in [Contact -> {"none", "queued", "create", "send"}]
  /\ resendRun \in Resending
  /\ resendRun.pc \in {"send", "save"} => resendRun.c \in DOMAIN resendRun.list

\* A row names a message that exists, and so does what is sent.
NamesTyped(c) ==
  /\ Len(message[c]) <= MaxMessage
  /\ subscriber[c].message \in 0 .. Len(message[c])
  /\ c \in DOMAIN resendRun.list => resendRun.list[c].message \in 0 .. Len(message[c])
  /\ \A k \in 1 .. MaxMessage : <<c, k>> \in outbox => k <= Len(message[c])
  /\ initTask[c] \in {"create", "send"} => Len(message[c]) > 0
  /\ resendRun.pc \in {"send", "save"} /\ resendRun.c = c => Len(message[c]) > 0

Typed == RowsTyped /\ MessagesTyped /\ \A c \in Contact : NamesTyped(c)

(***************************************************************************)
(* Where a contact is.                                                     *)
(***************************************************************************)
InBatch(c) == \E i \in DOMAIN pendingRun.batch : pendingRun.batch[i] = c
Marking(c) == pendingRun.pc = "mark" /\ InBatch(c)
Looping(c) == pendingRun.pc = "loop" /\ InBatch(c)
Distinct ==
  \A i, j \in DOMAIN pendingRun.batch :
    pendingRun.batch[i] = pendingRun.batch[j] => i = j

Listed(c) == c \in DOMAIN resendRun.list
Sending(c) == resendRun.pc = "send" /\ resendRun.c = c
Resent(c) == resendRun.pc \in {"send", "save"} /\ resendRun.c = c

\* init_smsrequest has not come to the contact.
Unserved(c) == initTask[c] = "none" /\ message[c] = <<>>

\* A row is handed to init_smsrequest once: it leaves PENDING before and never returns.
Handed(c) ==
  /\ Deleted(c) => c \notin contact
  /\ c \notin contact => subscriber[c] \in {NoRow, DeletedRow}
  /\ subscriber[c].status = "PENDING" => subscriber[c] = NewRow
  /\ subscriber[c] \in {NoRow, NewRow} => Unserved(c) /\ ~Listed(c) /\ ~Looping(c)
  /\ Marking(c) => subscriber[c] \in {NewRow, DeletedRow}
  /\ Looping(c) => Unserved(c)

\* The message of init_smsrequest is the only one until it was sent.
FirstUnsent(c) ==
  /\ initTask[c] = "queued" => message[c] = <<>>
  /\ initTask[c] = "create" => /\ subscriber[c].message = 0
                               /\ Listed(c) => resendRun.list[c].message = 0
  /\ initTask[c] \in {"create", "send"} =>
       Len(message[c]) = 1 /\ message[c][1] = "Unsent" /\ <<c, 1>> \notin outbox

\* A message in the broker was not sent before.
Outgoing(c) ==
  /\ \A k \in 1 .. MaxMessage : <<c, k>> \in outbox => message[c][k] = "Unsent"
  /\ Sending(c) => /\ message[c][Len(message[c])] = "Unsent"
                   /\ <<c, Len(message[c])>> \notin outbox

\* The copy of a row that names a message is not stale, and one that names none is of a
\* contact that has one message at most.
Held(c) ==
  /\ subscriber[c].status = "COMPLETE" => subscriber[c].message # 0 /\ ~Listed(c)
  /\ Listed(c) =>
       /\ resendRun.list[c].status = "IN_PROCESS"
       /\ IF resendRun.list[c].message = 0 THEN Len(message[c]) <= 1
          ELSE subscriber[c] \in {resendRun.list[c], DeletedRow}
  /\ Resent(c) => /\ Listed(c) /\ resendRun.list[c].message # 0
                  /\ resendRun.list[c].message < Len(message[c])
                  /\ resendRun.list[c].count_attempt < MaxRetry

\* Messages that were sent or may be, and the one the row names or is about to.
Good(c) == {k \in 1 .. Len(message[c]) : message[c][k] \in {"Unsent", "Sent"}}
Named(c) == IF Resent(c) THEN Len(message[c]) ELSE subscriber[c].message
Limit == Larger(1, MaxRetry)

\* What was sent in vain is one message for each death, and what count_attempt counts.
Counted(c) ==
  ~Deleted(c) =>
    IF subscriber[c].message = 0 THEN Len(message[c]) <= 1
    ELSE /\ subscriber[c].count_attempt <= Limit
         /\ Len(message[c]) <= subscriber[c].count_attempt + deaths + (IF Resent(c) THEN 1 ELSE 0)

Spared(c) ==
  ~Deleted(c) /\ subscriber[c].message # 0 => Cardinality(Good(c) \ {Named(c)}) <= deaths

Bounded(c) == Len(message[c]) <= Limit + deaths /\ Cardinality(Good(c)) <= 1 + deaths

ContactInv(c) ==
  Handed(c) /\ FirstUnsent(c) /\ Outgoing(c) /\ Held(c) /\ Counted(c) /\ Spared(c) /\ Bounded(c)

SmsInv == Distinct /\ \A c \in Contact : ContactInv(c)

-----------------------------------------------------------------------------
(***************************************************************************)
(* Types.                                                                  *)
(***************************************************************************)
LEMMA SeqDomain == ASSUME NEW S, NEW s \in Seq(S) PROVE DOMAIN s = 1 .. Len(s) /\ Len(s) \in Nat
OBVIOUS

LEMMA RowFacts ==
  /\ NewRow = [status |-> "PENDING", count_attempt |-> 0, message |-> 0]
  /\ NoRow = [status |-> "none", count_attempt |-> 0, message |-> 0]
  /\ DeletedRow = [status |-> "deleted", count_attempt |-> 0, message |-> 0]
  /\ NewRow \in Row
BY BoundAssumption DEF NewRow, NoRow, DeletedRow, Row, Status

LEMMA RunFacts ==
  /\ NoRun = [pc |-> "idle", batch |-> <<>>] /\ NoRun \in Spooling
  /\ NoResend = [pc |-> "idle", list |-> [c \in {} |-> NoRow], c |-> "none"]
  /\ NoResend \in Resending /\ DOMAIN NoResend.list = {}
  /\ NoImport \in Importing
<1>1. [c \in {} |-> NoRow] \in [{} -> Row]
  OBVIOUS
<1>2. [c \in {} |-> NoRow] \in Listing
  BY <1>1 DEF Listing
<1>3. NoResend \in Resending /\ DOMAIN NoResend.list = {}
  BY <1>2 DEF NoResend, Resending
<1>4. NoRun \in Spooling
  BY DEF NoRun, Spooling
<1>5. NoImport \in Importing
  BY DEF NoImport, Importing, CampaignRow, CampaignStatus
<1>6. QED
  BY <1>3, <1>4, <1>5 DEF NoRun, NoResend

\* The list without a contact that was treated.
LEMMA WithoutRow ==
  ASSUME NEW run \in Resending, NEW c
  PROVE  /\ Without(run, c) \in Resending
         /\ Without(run, c).pc \in {"idle", "loop"}
         /\ DOMAIN Without(run, c).list = DOMAIN run.list \ {c}
         /\ \A d \in DOMAIN run.list \ {c} : Without(run, c).list[d] = run.list[d]
<1> DEFINE left == DOMAIN run.list \ {c}
           new == [d \in left |-> run.list[d]]
<1>1. PICK D \in SUBSET Contact : run.list \in [D -> Row]
  BY DEF Resending, Listing
<1>2. new \in [left -> Row] /\ left \in SUBSET Contact
  BY <1>1
<1>3. new \in Listing
  BY <1>2 DEF Listing
<1>4. CASE left = {}
  <2>1. Without(run, c) = NoResend
    BY <1>4 DEF Without
  <2>2. QED
    BY <2>1, <1>4, RunFacts
<1>5. CASE left # {}
  <2>1. Without(run, c) = [pc |-> "loop", list |-> new, c |-> "none"]
    BY <1>5 DEF Without, NoResend
  <2>2. QED
    BY <2>1, <1>3 DEF Resending
<1>6. QED
  BY <1>4, <1>5

\* The batch without its first contact.
LEMMA RestRun ==
  ASSUME Typed, pendingRun.pc = "loop"
  PROVE  /\ Rest \in Spooling /\ Rest.pc \in {"idle", "loop"}
         /\ Rest.pc = "loop" => Rest.batch # <<>>
         /\ Len(pendingRun.batch) \in Nat \ {0} /\ Head(pendingRun.batch) = pendingRun.batch[1]
         /\ Head(pendingRun.batch) \in Contact
         /\ \A i \in DOMAIN Rest.batch : /\ i + 1 \in DOMAIN pendingRun.batch
                                         /\ Rest.batch[i] = pendingRun.batch[i + 1]
<1> DEFINE b == pendingRun.batch
<1>1. b \in Seq(Contact) /\ b # <<>> /\ pendingRun = [pc |-> "loop", batch |-> b]
  BY DEF Typed, RowsTyped, Spooling
<1>2. Tail(b) \in Seq(Contact) /\ Len(b) \in Nat \ {0} /\ Head(b) = b[1] /\ Head(b) \in Contact
      /\ Len(Tail(b)) = Len(b) - 1 /\ \A i \in 1 .. Len(Tail(b)) : Tail(b)[i] = b[i + 1]
  BY <1>1
<1>3. DOMAIN Tail(b) = 1 .. Len(Tail(b)) /\ DOMAIN b = 1 .. Len(b)
  BY <1>1, <1>2, SeqDomain
<1>4. CASE Tail(b) = <<>>
  <2>1. Rest = NoRun /\ NoRun.batch = <<>> /\ NoRun.pc = "idle"
    BY <1>4, RunFacts DEF Rest
  <2>2. DOMAIN Rest.batch = {}
    BY <2>1
  <2>3. QED
    BY <1>2, <2>1, <2>2, RunFacts
<1>5. CASE Tail(b) # <<>>
  <2>1. Rest = [pc |-> "loop", batch |-> Tail(b)]
    BY <1>1, <1>5 DEF Rest
  <2>2. Rest \in Spooling
    BY <1>2, <2>1 DEF Spooling
  <2>3. QED
    BY <2>1, <2>2, <1>2, <1>3, <1>5
<1>6. QED
  BY <1>4, <1>5

LEMMA InitTyped == Init => Typed
<1> SUFFICES ASSUME Init PROVE Typed
  OBVIOUS
<1>1. RowsTyped
  <2>1. pendingRun \in Spooling /\ pendingRun.pc = "idle" /\ importRun \in Importing
        /\ campaign \in CampaignRow
    BY RunFacts DEF Init, CampaignRow, CampaignStatus
  <2>2. deaths \in 0 .. MaxDeaths
    BY BoundAssumption DEF Init
  <2>3. subscriber \in [Contact -> Row \cup {NoRow, DeletedRow}]
    BY DEF Init
  <2>4. contact \subseteq Contact /\ loose \in {"Unsent", "Sent"} /\ looseSpooled \in BOOLEAN
    BY DEF Init
  <2>5. QED
    BY <2>1, <2>2, <2>3, <2>4 DEF RowsTyped
<1>2. MessagesTyped
  BY RunFacts DEF Init, MessagesTyped
<1>3. ASSUME NEW c \in Contact PROVE NamesTyped(c)
  <2>1. Len(message[c]) = 0 /\ subscriber[c].message = 0 /\ MaxMessage \in Nat
        /\ outbox = {} /\ initTask[c] = "none" /\ resendRun.pc = "idle"
        /\ DOMAIN resendRun.list = {}
    BY RowFacts, RunFacts, BoundAssumption DEF Init
  <2>2. QED
    BY <2>1 DEF NamesTyped
<1>4. QED
  BY <1>1, <1>2, <1>3 DEF Typed

LEMMA TypedTypeOK == Typed => TypeOK
<1> SUFFICES ASSUME Typed PROVE TypeOK
  OBVIOUS
<1>1. \A c \in Contact : message[c] \in Seq(MessageStatus) /\ Len(message[c]) <= MaxMessage
  BY DEF Typed, MessagesTyped, NamesTyped
<1>2. pendingRun.pc \in {"idle", "mark", "loop"} /\ pendingRun.batch \in Seq(Contact)
      /\ importRun.pc \in {"idle", "queued", "insert", "save"} /\ importRun.row \in CampaignRow
  BY DEF Typed, RowsTyped, Spooling, Importing
<1>3. resendRun.pc \in {"idle", "loop", "send", "save"} /\ resendRun.list \in Listing
  BY DEF Typed, MessagesTyped, Resending
<1>4. DOMAIN resendRun.list \subseteq Contact
      /\ \A c \in DOMAIN resendRun.list : resendRun.list[c] \in Row
  BY <1>3 DEF Listing
<1>5. QED
  BY <1>1, <1>2, <1>3, <1>4 DEF Typed, RowsTyped, MessagesTyped, TypeOK

\* What a step leaves alone keeps its type.
LEMMA MessagesFrame ==
  ASSUME Typed, UNCHANGED <<message, outbox, initTask, resendRun>>,
         \A c \in Contact : subscriber'[c].message \in {0, subscriber[c].message}
  PROVE  MessagesTyped' /\ \A c \in Contact : NamesTyped(c)'
<1>1. MessagesTyped'
  BY DEF Typed, MessagesTyped
<1>2. ASSUME NEW c \in Contact PROVE NamesTyped(c)'
  <2>1. Len(message[c]) \in Nat
    BY SeqDomain DEF Typed, MessagesTyped
  <2>2. QED
    BY <2>1 DEF Typed, NamesTyped
<1>3. QED
  BY <1>1, <1>2

\* The user, the import and the pending run write no message.
LEMMA TypedUser ==
  ASSUME Typed,
         \/ Start \/ Stop \/ SpoolContact \/ ImportStep \/ SpoolNoCampaign \/ SendLoose
         \/ \E c \in Contact : AddContact(c) \/ DeleteContact(c)
  PROVE  Typed'
<1>1. \A c \in Contact : subscriber[c] \in Row \cup {NoRow, DeletedRow}
  BY DEF Typed, RowsTyped
<1>2. campaign \in CampaignRow /\ importRun \in Importing /\ importRun.row \in CampaignRow
  BY DEF Typed, RowsTyped, Importing
<1>3. RowsTyped' /\ (\A c \in Contact : subscriber'[c].message \in {0, subscriber[c].message})
      /\ UNCHANGED <<message, outbox, initTask, resendRun>>
  <2>1. CASE Start
    <3>1. campaign' \in CampaignRow
      BY <1>2, <2>1 DEF Start, CampaignRow, CampaignStatus
    <3>2. importRun' \in Importing
      BY <1>2, <2>1 DEF Start, CollectSent, Importing
    <3>3. QED
      BY <2>1, <3>1, <3>2 DEF Start, Typed, RowsTyped
  <2>2. CASE Stop
    <3>1. campaign' \in CampaignRow
      BY <1>2, <2>2 DEF Stop, CampaignRow, CampaignStatus
    <3>2. QED
      BY <2>2, <3>1 DEF Stop, Typed, RowsTyped
  <2>3. CASE SpoolContact
    <3>1. importRun' \in Importing
      BY <1>2, <2>3 DEF SpoolContact, Importing
    <3>2. QED
      BY <2>3, <3>1 DEF SpoolContact, Typed, RowsTyped, rows
  <2>4. CASE ImportRead
    <3>1. importRun' \in Importing
      BY <1>2, <2>4 DEF ImportRead, Importing
    <3>2. QED
      BY <2>4, <3>1 DEF ImportRead, Typed, RowsTyped, rows
  <2>5. CASE ImportInsert
    <3>1. importRun' \in Importing
      BY <1>2, <2>5 DEF ImportInsert, Importing
    <3>2. subscriber' \in [Contact -> Row \cup {NoRow, DeletedRow}]
          /\ \A c \in Contact : subscriber'[c].message \in {0, subscriber[c].message}
      BY <1>1, <2>5, RowFacts DEF ImportInsert
    <3>3. QED
      BY <2>5, <3>1, <3>2 DEF ImportInsert, Typed, RowsTyped
  <2>6. CASE ImportSave
    <3>1. campaign' \in CampaignRow
      BY <1>2, <2>6 DEF ImportSave, CampaignRow
    <3>2. QED
      BY <2>6, <3>1, RunFacts DEF ImportSave, Typed, RowsTyped
  <2>7. CASE SpoolNoCampaign
    BY <2>7 DEF SpoolNoCampaign, Typed, RowsTyped, rows
  <2>8. CASE SendLoose
    BY <2>8 DEF SendLoose, Typed, RowsTyped
  <2>9. ASSUME NEW c \in Contact, AddContact(c) \/ DeleteContact(c)
        PROVE  /\ RowsTyped'
               /\ \A d \in Contact : subscriber'[d].message \in {0, subscriber[d].message}
               /\ UNCHANGED <<message, outbox, initTask, resendRun>>
    <3>1. subscriber \in [Contact -> Row \cup {NoRow, DeletedRow}] /\ contact \subseteq Contact
      BY DEF Typed, RowsTyped
    <3>2. contact' \subseteq Contact
      BY <2>9, <3>1 DEF AddContact, DeleteContact
    <3>3. subscriber' \in {subscriber, [subscriber EXCEPT ![c] = NewRow],
                            [subscriber EXCEPT ![c] = DeletedRow]}
      BY <2>9 DEF AddContact, DeleteContact
    <3>4. subscriber' \in [Contact -> Row \cup {NoRow, DeletedRow}]
          /\ \A d \in Contact : subscriber'[d].message \in {0, subscriber[d].message}
      BY <3>1, <3>3, RowFacts
    <3>5. QED
      BY <2>9, <3>2, <3>4 DEF AddContact, DeleteContact, Typed, RowsTyped
  <2>10. QED
    BY <2>1, <2>2, <2>3, <2>4, <2>5, <2>6, <2>7, <2>8, <2>9 DEF ImportStep
<1>4. QED
  BY <1>3, MessagesFrame DEF Typed

LEMMA OrderTyped ==
  ASSUME NEW B \in SUBSET Contact, NEW order \in SetToSeqs(B)
  PROVE  /\ order \in Seq(Contact)
         /\ \A i \in DOMAIN order : order[i] \in B
         /\ \A i, j \in DOMAIN order : order[i] = order[j] => i = j
         /\ B # {} => order # <<>>
<1>1. Cardinality(B) \in Nat
  BY ContactAssumption, FS_Subset, FS_CardinalityType
<1>2. order \in [1 .. Cardinality(B) -> B]
      /\ \A i, j \in 1 .. Cardinality(B) : i # j => order[i] # order[j]
  BY DEF SetToSeqs
<1>3. B # {} => Cardinality(B) # 0
  BY <1>1, ContactAssumption, FS_Subset, FS_EmptySet
<1>4. order \in Seq(Contact) /\ Len(order) = Cardinality(B) /\ DOMAIN order = 1 .. Cardinality(B)
  BY <1>1, <1>2
<1>5. QED
  BY <1>2, <1>3, <1>4

LEMMA TypedPending == ASSUME Typed, PendingStep PROVE Typed'
<1>1. pendingRun \in Spooling /\ subscriber \in [Contact -> Row \cup {NoRow, DeletedRow}]
  BY DEF Typed, RowsTyped
<1>2. CASE TakePending
  <2>1. PICK B \in SUBSET Contact :
          B # {} /\ \E order \in SetToSeqs(B) : pendingRun' = [pc |-> "mark", batch |-> order]
    BY <1>2 DEF TakePending, Having
  <2>5. PICK order \in SetToSeqs(B) : pendingRun' = [pc |-> "mark", batch |-> order]
    BY <2>1
  <2>2. pendingRun' \in Spooling /\ pendingRun'.pc = "mark" /\ pendingRun'.batch # <<>>
    BY <2>1, <2>5, OrderTyped DEF Spooling
  <2>3. RowsTyped'
    BY <1>2, <2>2 DEF TakePending, Typed, RowsTyped, rows
  <2>4. QED
    BY <1>2, <2>3, MessagesFrame DEF TakePending, Typed, RowsTyped, rows
<1>3. CASE MarkInProcess
  <2>1. pendingRun' \in Spooling
    BY <1>1, <1>3, RunFacts DEF MarkInProcess, Spooling
  <2>2. pendingRun'.pc # "idle" => pendingRun'.batch # <<>>
    BY <1>1, <1>3, RunFacts DEF MarkInProcess, Spooling, Typed, RowsTyped
  <2>3. [NewRow EXCEPT !.status = "IN_PROCESS"] \in Row
        /\ [NewRow EXCEPT !.status = "IN_PROCESS"].message = 0
    BY RowFacts DEF Row, Status
  <2>4. subscriber' \in [Contact -> Row \cup {NoRow, DeletedRow}]
        /\ \A c \in Contact : subscriber'[c].message \in {0, subscriber[c].message}
    BY <1>1, <1>3, <2>3 DEF MarkInProcess
  <2>5. RowsTyped'
    BY <1>3, <2>1, <2>2, <2>4 DEF MarkInProcess, Typed, RowsTyped
  <2>6. QED
    BY <1>3, <2>4, <2>5, MessagesFrame DEF MarkInProcess, Typed
<1>4. CASE SendInit
  <2>1. PICK c \in Contact : c = Head(pendingRun.batch)
    BY <1>4, RestRun DEF SendInit
  <2>2. initTask' = [initTask EXCEPT ![c] = "queued"] /\ pendingRun' = Rest
        /\ UNCHANGED <<rows, outbox, looseSpooled, resendRun, importRun, deaths>>
    BY <1>4, <2>1 DEF SendInit
  <2>3. RowsTyped'
    BY <1>4, <2>2, RestRun DEF SendInit, Typed, RowsTyped, rows
  <2>4. MessagesTyped'
    BY <2>2 DEF Typed, MessagesTyped, rows
  <2>5. ASSUME NEW d \in Contact PROVE NamesTyped(d)'
    <3>1. initTask'[d] \in {"queued", initTask[d]}
      BY <2>2 DEF Typed, MessagesTyped
    <3>2. QED
      BY <2>2, <3>1 DEF Typed, NamesTyped, rows
  <2>6. QED
    BY <2>3, <2>4, <2>5 DEF Typed
<1>5. CASE RefuseContact
  <2>1. PICK c \in Contact : c = Head(pendingRun.batch)
    BY <1>5, RestRun DEF RefuseContact
  <2>2. subscriber' = [subscriber EXCEPT ![c] = [NewRow EXCEPT !.status = "NOT_AUTHORIZED"]]
    BY <1>5, <2>1 DEF RefuseContact
  <2>3. [NewRow EXCEPT !.status = "NOT_AUTHORIZED"] \in Row
        /\ [NewRow EXCEPT !.status = "NOT_AUTHORIZED"].message = 0
    BY RowFacts DEF Row, Status
  <2>4. subscriber' \in [Contact -> Row \cup {NoRow, DeletedRow}]
        /\ \A d \in Contact : subscriber'[d].message \in {0, subscriber[d].message}
    BY <1>1, <2>2, <2>3
  <2>5. RowsTyped'
    BY <1>5, <2>4, RunFacts DEF RefuseContact, Typed, RowsTyped
  <2>6. QED
    BY <1>5, <2>4, <2>5, MessagesFrame DEF RefuseContact, Typed
<1>6. CASE BatchBreaks
  <2>1. RowsTyped'
    BY <1>6, RunFacts DEF BatchBreaks, Typed, RowsTyped, rows
  <2>2. QED
    BY <1>6, <2>1, MessagesFrame DEF BatchBreaks, Typed, RowsTyped, rows
<1>7. QED
  BY <1>2, <1>3, <1>4, <1>5, <1>6 DEF PendingStep

\* A message is created, or sent on.
LEMMA TypedInit == ASSUME Typed, NEW c \in Contact, InitStep(c) PROVE Typed'
<1>1. message \in [Contact -> Seq(MessageStatus)] /\ message[c] \in Seq(MessageStatus)
      /\ Len(message[c]) \in Nat /\ MaxMessage \in Nat
      /\ initTask \in [Contact -> {"none", "queued", "create", "send"}]
      /\ subscriber \in [Contact -> Row \cup {NoRow, DeletedRow}]
  BY SeqDomain, BoundAssumption DEF Typed, MessagesTyped, RowsTyped
<1>2. CASE InitCreate(c)
  <2> DEFINE more == Append(message[c], "Unsent")
  <2>1. more \in Seq(MessageStatus) /\ Len(more) = Len(message[c]) + 1
    BY <1>1 DEF MessageStatus
  <2>2. message' = [message EXCEPT ![c] = more] /\ Len(message[c]) < MaxMessage
        /\ initTask' = [initTask EXCEPT ![c] = "create"]
        /\ UNCHANGED <<campaign, contact, subscriber, loose, outbox, looseSpooled, pendingRun,
                       resendRun, importRun, deaths>>
    BY <1>2 DEF InitCreate
  <2> HIDE DEF more
  <2>3. RowsTyped' /\ MessagesTyped'
    BY <1>1, <2>1, <2>2 DEF Typed, RowsTyped, MessagesTyped
  <2>4. ASSUME NEW d \in Contact PROVE NamesTyped(d)'
    <3>1. CASE d = c
      BY <1>1, <2>1, <2>2, <3>1 DEF Typed, NamesTyped
    <3>2. CASE d # c
      BY <1>1, <2>2, <3>2 DEF Typed, NamesTyped
    <3>3. QED
      BY <3>1, <3>2
  <2>5. QED
    BY <2>3, <2>4 DEF Typed
<1>3. CASE InitSave(c)
  <2>1. UNCHANGED <<campaign, contact, message, loose, outbox, looseSpooled, pendingRun,
                    resendRun, importRun, deaths>>
        /\ initTask' \in {[initTask EXCEPT ![c] = "none"], [initTask EXCEPT ![c] = "send"]}
        /\ Len(message[c]) > 0 /\ Len(message[c]) \in 0 .. MaxMessage
    BY <1>1, <1>3 DEF InitSave, Typed, NamesTyped
  <2>2. PICK row \in Row \cup {NoRow, DeletedRow} :
          subscriber' = [subscriber EXCEPT ![c] = row] /\ row.message \in 0 .. Len(message[c])
    <3>1. CASE Deleted(c)
      <4>1. subscriber' = [subscriber EXCEPT ![c] = subscriber[c]]
        BY <1>1, <1>3, <3>1 DEF InitSave
      <4>2. subscriber[c].message \in 0 .. Len(message[c])
        BY DEF Typed, NamesTyped
      <4>3. QED
        BY <1>1, <4>1, <4>2
    <3>2. CASE ~Deleted(c)
      <4> DEFINE row == [status |-> "IN_PROCESS", count_attempt |-> 1, message |-> Len(message[c])]
      <4>1. subscriber' = [subscriber EXCEPT ![c] = row]
        BY <1>3, <3>2 DEF InitSave
      <4>2. row \in Row /\ row.message \in 0 .. Len(message[c])
        BY <1>1, <2>1 DEF Row, Status
      <4>3. QED
        BY <4>1, <4>2
    <3>3. QED
      BY <3>1, <3>2
  <2>3. RowsTyped' /\ MessagesTyped'
    BY <1>1, <2>1, <2>2 DEF Typed, RowsTyped, MessagesTyped
  <2>4. ASSUME NEW d \in Contact PROVE NamesTyped(d)'
    BY <1>1, <2>1, <2>2 DEF Typed, NamesTyped
  <2>5. QED
    BY <2>3, <2>4 DEF Typed
<1>4. CASE InitSend(c)
  <2>1. initTask' = [initTask EXCEPT ![c] = "none"]
        /\ outbox' = outbox \cup {<<c, Len(message[c])>>}
        /\ UNCHANGED <<rows, looseSpooled, pendingRun, resendRun, importRun, deaths>>
        /\ Len(message[c]) \in 1 .. MaxMessage
    BY <1>1, <1>4 DEF InitSend, Typed, NamesTyped
  <2>2. RowsTyped' /\ MessagesTyped'
    BY <1>1, <2>1 DEF Typed, RowsTyped, MessagesTyped, rows
  <2>3. ASSUME NEW d \in Contact PROVE NamesTyped(d)'
    BY <1>1, <2>1 DEF Typed, NamesTyped, rows
  <2>4. QED
    BY <2>2, <2>3 DEF Typed
<1>5. QED
  BY <1>2, <1>3, <1>4 DEF InitStep

LEMMA TypedSend ==
  ASSUME Typed, NEW c \in Contact, NEW k \in 1 .. MaxMessage, SendMessage(c, k)
  PROVE  Typed'
<1>1. PICK st \in Outcome : message' = [message EXCEPT ![c][k] = st]
  BY DEF SendMessage
<1>2. st \in MessageStatus /\ message[c] \in Seq(MessageStatus) /\ k \in 1 .. Len(message[c])
  BY BoundAssumption DEF Outcome, MessageStatus, SendMessage, Typed, MessagesTyped, NamesTyped
<1> DEFINE changed == [message[c] EXCEPT ![k] = st]
<1>3. changed \in Seq(MessageStatus) /\ Len(changed) = Len(message[c])
  BY <1>2
<1>4. message' = [message EXCEPT ![c] = changed] /\ outbox' \subseteq outbox
      /\ UNCHANGED <<campaign, contact, subscriber, loose, looseSpooled, initTask,
                     pendingRun, resendRun, importRun, deaths>>
  BY <1>1 DEF SendMessage
<1> HIDE DEF changed
<1>5. RowsTyped' /\ MessagesTyped'
  BY <1>3, <1>4 DEF Typed, RowsTyped, MessagesTyped
<1>6. ASSUME NEW d \in Contact PROVE NamesTyped(d)'
  <2>1. Len(message'[d]) = Len(message[d])
    BY <1>3, <1>4 DEF Typed, MessagesTyped
  <2>2. QED
    BY <1>4, <2>1 DEF Typed, NamesTyped
<1>7. QED
  BY <1>5, <1>6 DEF Typed

LEMMA ListedTyped ==
  ASSUME Typed, NEW c \in DOMAIN resendRun.list
  PROVE  c \in Contact /\ resendRun.list[c] \in Row
<1>1. PICK D \in SUBSET Contact : resendRun.list \in [D -> Row]
  BY DEF Typed, MessagesTyped, Resending, Listing
<1>2. QED
  BY <1>1

\* A run that treated a contact, and saved its row perhaps.
LEMMA TypedSettle ==
  ASSUME Typed, NEW c \in DOMAIN resendRun.list, NEW row \in Row,
         row.message \in 0 .. Len(message[c]),
         \/ UNCHANGED subscriber
         \/ subscriber' = [subscriber EXCEPT ![c] = row],
         resendRun' = Without(resendRun, c),
         UNCHANGED <<campaign, contact, message, loose, outbox, looseSpooled, initTask,
                     pendingRun, importRun, deaths>>
  PROVE  Typed'
<1>1. c \in Contact /\ resendRun \in Resending
      /\ subscriber \in [Contact -> Row \cup {NoRow, DeletedRow}]
  BY ListedTyped DEF Typed, MessagesTyped, RowsTyped
<1>2. /\ resendRun' \in Resending /\ resendRun'.pc \in {"idle", "loop"}
      /\ DOMAIN resendRun'.list \subseteq DOMAIN resendRun.list
      /\ \A d \in DOMAIN resendRun'.list : resendRun'.list[d] = resendRun.list[d]
  BY <1>1, WithoutRow
<1>3. subscriber' \in [Contact -> Row \cup {NoRow, DeletedRow}]
      /\ \A d \in Contact : subscriber'[d].message = subscriber[d].message
                              \/ (d = c /\ subscriber'[d].message = row.message)
  BY <1>1
<1>4. RowsTyped' /\ MessagesTyped'
  BY <1>2, <1>3 DEF Typed, RowsTyped, MessagesTyped
<1>5. ASSUME NEW d \in Contact PROVE NamesTyped(d)'
  BY <1>2, <1>3 DEF Typed, NamesTyped
<1>6. QED
  BY <1>4, <1>5 DEF Typed

LEMMA ReportTyped ==
  ASSUME Typed, NEW c \in DOMAIN resendRun.list
  PROVE  /\ c \in Contact /\ Report(c) = "none" <=> resendRun.list[c].message = 0
         /\ resendRun.list[c].message # 0 =>
              /\ resendRun.list[c].message \in 1 .. Len(message[c])
              /\ Report(c) = message[c][resendRun.list[c].message]
         /\ Verdict(c) \in {"FAIL", "COMPLETE", "IN_PROCESS"}
<1>1. c \in Contact
  BY ListedTyped
<1>2. Len(message[c]) \in Nat /\ message[c] \in Seq(MessageStatus)
      /\ resendRun.list[c].message \in 0 .. Len(message[c])
  BY <1>1, SeqDomain DEF Typed, MessagesTyped, NamesTyped
<1>3. resendRun.list[c].message # 0 => message[c][resendRun.list[c].message] \in MessageStatus
  BY <1>2
<1>4. QED
  BY <1>1, <1>2, <1>3 DEF Report, Verdict, MessageStatus

LEMMA SavedRow ==
  ASSUME NEW l \in Row, NEW n \in 0 .. MaxMessage
  PROVE  [l EXCEPT !.message = n, !.count_attempt = @ + 1]
           = [status |-> l.status, count_attempt |-> l.count_attempt + 1, message |-> n]
<1> DEFINE m == [l EXCEPT !.message = n]
           saved == [m EXCEPT !.count_attempt = l.count_attempt + 1]
<1>1. [l EXCEPT !.message = n, !.count_attempt = @ + 1]
        = [l EXCEPT !.message = n, !.count_attempt = l.count_attempt + 1]
  BY DEF Row
<1>2. [l EXCEPT !.message = n, !.count_attempt = l.count_attempt + 1] = saved
  BY DEF Row
<1>3. m = [status |-> l.status, count_attempt |-> l.count_attempt, message |-> n] /\ m \in Row
  BY DEF Row
<1> HIDE DEF m
<1>4. saved = [status |-> l.status, count_attempt |-> l.count_attempt + 1, message |-> n]
  BY <1>3 DEF Row
<1>5. QED
  BY <1>1, <1>2, <1>4, Zenon

LEMMA TypedResend == ASSUME Typed, ResendStep PROVE Typed'
<1>1. resendRun \in Resending /\ subscriber \in [Contact -> Row \cup {NoRow, DeletedRow}]
      /\ message \in [Contact -> Seq(MessageStatus)] /\ MaxMessage \in Nat
  BY BoundAssumption DEF Typed, MessagesTyped, RowsTyped
<1>2. CASE ResendRead
  <2> DEFINE list == [c \in Having("IN_PROCESS") |-> subscriber[c]]
  <2>1. Having("IN_PROCESS") \in SUBSET Contact
        /\ \A c \in Having("IN_PROCESS") : subscriber[c] \in Row
    BY <1>1, RowFacts DEF Having
  <2>2. list \in Listing
    BY <2>1 DEF Listing
  <2>3. resendRun' = [pc |-> "loop", list |-> list, c |-> "none"]
    BY <1>2 DEF ResendRead, NoResend
  <2>4. resendRun' \in Resending
    BY <2>2, <2>3 DEF Resending
  <2>5. RowsTyped' /\ MessagesTyped'
    BY <1>2, <2>3, <2>4 DEF ResendRead, rows, Typed, RowsTyped, MessagesTyped
  <2>6. ASSUME NEW c \in Contact PROVE NamesTyped(c)'
    <3>1. resendRun'.pc = "loop" /\ DOMAIN resendRun'.list = Having("IN_PROCESS")
          /\ (c \in Having("IN_PROCESS") => resendRun'.list[c] = subscriber[c])
      BY <2>3
    <3>2. QED
      BY <1>2, <3>1 DEF ResendRead, rows, Typed, NamesTyped
  <2>7. QED
    BY <2>5, <2>6 DEF Typed
<1>3. ASSUME NEW c \in Contact, ResendSettle(c) PROVE Typed'
  <2>1. c \in DOMAIN resendRun.list /\ resendRun.list[c] \in Row
    BY <1>3, ListedTyped DEF ResendSettle
  <2> DEFINE row == [resendRun.list[c] EXCEPT !.status = Verdict(c)]
  <2>2. row \in Row /\ row.message \in 0 .. Len(message[c])
    BY <2>1, ReportTyped DEF Row, Status, Typed, NamesTyped
  <2>3. \/ UNCHANGED subscriber
        \/ subscriber' = [subscriber EXCEPT ![c] = row]
    BY <1>3 DEF ResendSettle
  <2>4. resendRun' = Without(resendRun, c)
        /\ UNCHANGED <<campaign, contact, message, loose, outbox, looseSpooled, initTask,
                       pendingRun, importRun, deaths>>
    BY <1>3 DEF ResendSettle
  <2> HIDE DEF row
  <2>5. QED
    BY <2>1, <2>2, <2>3, <2>4, TypedSettle
<1>4. ASSUME NEW c \in Contact, ResendCreate(c) PROVE Typed'
  <2> DEFINE more == Append(message[c], "Unsent")
  <2>1. more \in Seq(MessageStatus) /\ Len(more) = Len(message[c]) + 1 /\ Len(message[c]) \in Nat
    BY <1>1, SeqDomain DEF MessageStatus
  <2>2. message' = [message EXCEPT ![c] = more] /\ Len(message[c]) < MaxMessage
        /\ resendRun' = [resendRun EXCEPT !.pc = "send", !.c = c] /\ c \in DOMAIN resendRun.list
        /\ UNCHANGED <<campaign, contact, subscriber, loose, outbox, looseSpooled, initTask,
                       pendingRun, importRun, deaths>>
    BY <1>4 DEF ResendCreate
  <2> HIDE DEF more
  <2>3. resendRun' \in Resending /\ resendRun'.list = resendRun.list /\ resendRun'.c = c
    BY <1>1, <2>2 DEF Resending
  <2>4. RowsTyped' /\ MessagesTyped'
    BY <1>1, <2>1, <2>2, <2>3 DEF Typed, RowsTyped, MessagesTyped
  <2>5. ASSUME NEW d \in Contact PROVE NamesTyped(d)'
    <3>1. CASE d = c
      BY <1>1, <2>1, <2>2, <2>3, <3>1 DEF Typed, NamesTyped
    <3>2. CASE d # c
      BY <1>1, <2>2, <2>3, <3>2 DEF Typed, NamesTyped
    <3>3. QED
      BY <3>1, <3>2
  <2>6. QED
    BY <2>4, <2>5 DEF Typed
<1>5. CASE ResendSend
  <2>1. PICK c \in DOMAIN resendRun.list : c = resendRun.c /\ c \in Contact
    BY <1>5, ListedTyped DEF ResendSend, Typed, MessagesTyped
  <2>2. resendRun' = [resendRun EXCEPT !.pc = "save"]
        /\ outbox' = outbox \cup {<<c, Len(message[c])>>}
        /\ UNCHANGED <<rows, looseSpooled, initTask, pendingRun, importRun, deaths>>
    BY <1>5, <2>1 DEF ResendSend
  <2>3. Len(message[c]) \in 1 .. MaxMessage
    BY <1>1, <1>5, <2>1, SeqDomain DEF ResendSend, Typed, NamesTyped
  <2>4. resendRun' \in Resending /\ resendRun'.list = resendRun.list /\ resendRun'.c = c
    BY <1>1, <2>1, <2>2 DEF Resending
  <2>5. RowsTyped' /\ MessagesTyped'
    BY <1>1, <2>1, <2>2, <2>3, <2>4 DEF Typed, RowsTyped, MessagesTyped, rows
  <2>6. ASSUME NEW d \in Contact PROVE NamesTyped(d)'
    BY <1>1, <2>1, <2>2, <2>3, <2>4 DEF Typed, NamesTyped, rows
  <2>7. QED
    BY <2>5, <2>6 DEF Typed
<1>6. CASE ResendSave
  <2>1. PICK c \in DOMAIN resendRun.list :
          c = resendRun.c /\ c \in Contact /\ resendRun.list[c] \in Row
    BY <1>6, ListedTyped DEF ResendSave, Typed, MessagesTyped
  <2> DEFINE row == [resendRun.list[c] EXCEPT !.message = Len(message[c]), !.count_attempt = @ + 1]
  <2>2. Len(message[c]) \in 0 .. MaxMessage
    BY <1>1, <2>1, SeqDomain DEF Typed, NamesTyped
  <2>7. row = [status |-> resendRun.list[c].status, message |-> Len(message[c]),
               count_attempt |-> resendRun.list[c].count_attempt + 1]
    BY <1>1, <2>1, <2>2, SavedRow
  <2>3. row \in Row /\ row.message \in 0 .. Len(message[c])
    BY <2>1, <2>2, <2>7 DEF Row
  <2>4. subscriber' = [subscriber EXCEPT ![c] = row]
    BY <1>6, <2>1 DEF ResendSave
  <2>5. resendRun' = Without(resendRun, c)
        /\ UNCHANGED <<campaign, contact, message, loose, outbox, looseSpooled, initTask,
                       pendingRun, importRun, deaths>>
    BY <1>6, <2>1 DEF ResendSave
  <2> HIDE DEF row
  <2>6. QED
    BY <2>1, <2>3, <2>4, <2>5, TypedSettle
<1>7. ASSUME NEW c \in Contact, ResendBreaks(c) PROVE Typed'
  <2>1. resendRun' = NoResend
        /\ UNCHANGED <<rows, outbox, looseSpooled, initTask, pendingRun, importRun, deaths>>
    BY <1>7 DEF ResendBreaks
  <2>2. resendRun' \in Resending /\ resendRun'.pc = "idle" /\ DOMAIN resendRun'.list = {}
    BY <2>1, RunFacts
  <2>3. RowsTyped' /\ MessagesTyped'
    BY <2>1, <2>2 DEF Typed, RowsTyped, MessagesTyped, rows
  <2>4. ASSUME NEW d \in Contact PROVE NamesTyped(d)'
    BY <2>1, <2>2 DEF Typed, NamesTyped, rows
  <2>5. QED
    BY <2>3, <2>4 DEF Typed
<1>8. QED
  BY <1>2, <1>3, <1>4, <1>5, <1>6, <1>7 DEF ResendStep

\* What a death leaves.
LEMMA DeathStep ==
  ASSUME Typed, Die
  PROVE  /\ UNCHANGED rows /\ deaths \in Nat /\ deaths' = deaths + 1 /\ deaths' \in 0 .. MaxDeaths
         /\ (pendingRun' = pendingRun \/ pendingRun' = NoRun)
         /\ (resendRun' = resendRun \/ resendRun' = NoResend)
         /\ (importRun' = importRun \/ importRun' = NoImport)
         /\ (looseSpooled' = looseSpooled \/ looseSpooled' = FALSE)
         /\ outbox' \subseteq outbox
         /\ initTask' = initTask \/ \E c \in Contact : initTask' = [initTask EXCEPT ![c] = "none"]
<1>1. deaths \in 0 .. MaxDeaths /\ MaxDeaths \in Nat /\ deaths < MaxDeaths /\ deaths' = deaths + 1
  BY BoundAssumption DEF Die, Typed, RowsTyped
<1>2. UNCHANGED rows
  BY DEF Die
<1>3. pendingRun' = pendingRun \/ pendingRun' = NoRun
  BY DEF Die
<1>7. resendRun' = resendRun \/ resendRun' = NoResend
  BY DEF Die
<1>8. importRun' = importRun \/ importRun' = NoImport
  BY DEF Die
<1>9. looseSpooled' = looseSpooled \/ looseSpooled' = FALSE
  BY DEF Die
<1>4. outbox' \subseteq outbox
  BY DEF Die
<1>5. initTask' = initTask \/ \E c \in Contact : initTask' = [initTask EXCEPT ![c] = "none"]
  BY DEF Die
<1>6. deaths \in Nat /\ deaths' \in 0 .. MaxDeaths
  BY <1>1
<1>10. QED
  BY <1>1, <1>2, <1>3, <1>4, <1>5, <1>6, <1>7, <1>8, <1>9

LEMMA TypedDie == ASSUME Typed, Die PROVE Typed'
<1>1. initTask' \in [Contact -> {"none", "queued", "create", "send"}]
      /\ \A c \in Contact : initTask'[c] \in {initTask[c], "none"}
  BY DeathStep DEF Typed, MessagesTyped
<1>2. \/ resendRun' = resendRun
      \/ resendRun' \in Resending /\ resendRun'.pc = "idle" /\ DOMAIN resendRun'.list = {}
  <2>1. NoResend \in Resending /\ NoResend.pc = "idle" /\ DOMAIN NoResend.list = {}
    BY RunFacts
  <2>2. QED
    BY <2>1, DeathStep
<1>3. \/ pendingRun' = pendingRun
      \/ pendingRun' \in Spooling /\ pendingRun'.pc = "idle"
  <2>1. NoRun \in Spooling /\ NoRun.pc = "idle"
    BY RunFacts
  <2>2. QED
    BY <2>1, DeathStep
<1>4. importRun' \in Importing /\ looseSpooled' \in BOOLEAN
  BY DeathStep, RunFacts DEF Typed, RowsTyped
<1>5. RowsTyped'
  BY <1>3, <1>4, DeathStep DEF Typed, RowsTyped, rows
<1>6. MessagesTyped'
  BY <1>1, <1>2, DeathStep DEF Typed, MessagesTyped, rows
<1>7. ASSUME NEW c \in Contact PROVE NamesTyped(c)'
  BY <1>1, <1>2, DeathStep DEF Typed, NamesTyped, rows
<1>8. QED
  BY <1>5, <1>6, <1>7 DEF Typed

LEMMA TypedStep == Typed /\ [Next]_vars => Typed'
<1> SUFFICES ASSUME Typed, [Next]_vars PROVE Typed'
  OBVIOUS
<1>1. CASE UNCHANGED vars
  BY <1>1 DEF Typed, RowsTyped, MessagesTyped, NamesTyped, vars, rows
<1>2. ASSUME NEW c \in Contact, SendStep(c) PROVE Typed'
  BY <1>2, TypedSend DEF SendStep
<1>3. QED
  BY <1>1, <1>2, TypedUser, TypedPending, TypedInit, TypedResend, TypedDie DEF Next

LEMMA AlwaysTyped == Spec => []Typed
<1>1. QED
  BY InitTyped, TypedStep, PTL DEF Spec

\* Every row, message and task is well-formed, and a row or a task that names a message
\* names one of its contact, whatever dies: the tables of mod_sms.
THEOREM SmsTypeCorrect == Spec => []TypeOK
<1>1. QED
  BY AlwaysTyped, TypedTypeOK, PTL

-----------------------------------------------------------------------------
(***************************************************************************)
(* The messages of a contact.                                              *)
(***************************************************************************)
LEMMA PartFinite ==
  ASSUME NEW n \in Nat, NEW S \in SUBSET (1 .. n)
  PROVE  IsFiniteSet(S) /\ Cardinality(S) \in Nat
<1>1. IsFiniteSet(1 .. n)
  BY FS_Interval
<1>2. QED
  BY <1>1, FS_Subset, FS_CardinalityType

LEMMA PartFewer ==
  ASSUME NEW n \in Nat, NEW S \in SUBSET (1 .. n), NEW T \in SUBSET S
  PROVE  Cardinality(T) <= Cardinality(S) /\ Cardinality(T) \in Nat
BY PartFinite, FS_Subset, FS_CardinalityType

LEMMA PartOneLess ==
  ASSUME NEW n \in Nat, NEW S \in SUBSET (1 .. n), NEW x, NEW y
  PROVE  /\ Cardinality(S) <= Cardinality(S \ {x}) + 1
         /\ Cardinality(S \ {x}) <= Cardinality(S \ {y}) + 1
         /\ Cardinality(S \ {x}) \in Nat /\ Cardinality(S) \in Nat
<1>1. IsFiniteSet(S) /\ Cardinality(S) \in Nat
  BY PartFinite
<1>2. Cardinality(S \ {x}) \in {Cardinality(S), Cardinality(S) - 1}
      /\ Cardinality(S \ {y}) \in {Cardinality(S), Cardinality(S) - 1}
  BY <1>1, FS_RemoveElement
<1>3. Cardinality(S \ {x}) \in Nat
  BY <1>1, FS_RemoveElement, FS_CardinalityType
<1>4. QED
  BY <1>1, <1>2, <1>3

LEMMA ContactTyped ==
  ASSUME Typed, NEW c \in Contact
  PROVE  /\ message[c] \in Seq(MessageStatus) /\ Len(message[c]) \in Nat
         /\ subscriber[c] \in Row \cup {NoRow, DeletedRow}
         /\ subscriber[c].message \in 0 .. Len(message[c]) /\ subscriber[c].count_attempt \in Nat
         /\ Good(c) \in SUBSET (1 .. Len(message[c])) /\ Cardinality(Good(c)) \in Nat
         /\ Cardinality(Good(c) \ {Named(c)}) \in Nat
         /\ deaths \in Nat /\ Limit \in Nat /\ Limit >= 1 /\ Limit >= MaxRetry /\ MaxRetry \in Nat
         /\ Listed(c) => /\ resendRun.list[c] \in Row
                         /\ resendRun.list[c].message \in 0 .. Len(message[c])
<1>1. message[c] \in Seq(MessageStatus) /\ Len(message[c]) \in Nat
  BY SeqDomain DEF Typed, MessagesTyped
<1>2. subscriber[c] \in Row \cup {NoRow, DeletedRow} /\ deaths \in Nat
  BY BoundAssumption DEF Typed, RowsTyped
<1>3. subscriber[c].count_attempt \in Nat
  BY <1>2, RowFacts DEF Row
<1>4. Good(c) \in SUBSET (1 .. Len(message[c]))
  BY DEF Good
<1>5. Cardinality(Good(c)) \in Nat /\ Cardinality(Good(c) \ {Named(c)}) \in Nat
  BY <1>1, <1>4, PartOneLess
<1>6. Limit \in Nat /\ Limit >= 1 /\ Limit >= MaxRetry /\ MaxRetry \in Nat
  BY BoundAssumption DEF Limit, Larger
<1>7. Listed(c) => /\ resendRun.list[c] \in Row
                   /\ resendRun.list[c].message \in 0 .. Len(message[c])
  BY ListedTyped DEF Listed, Typed, NamesTyped
<1>8. QED
  BY <1>1, <1>2, <1>3, <1>4, <1>5, <1>6, <1>7 DEF Typed, NamesTyped

LEMMA CountTyped ==
  Typed => /\ deaths \in Nat /\ Limit \in Nat /\ Limit >= 1 /\ Limit >= MaxRetry
           /\ MaxRetry \in Nat
BY BoundAssumption DEF Typed, RowsTyped, Limit, Larger

LEMMA LengthTyped == ASSUME Typed, NEW c \in Contact PROVE Len(message[c]) \in Nat
BY SeqDomain DEF Typed, MessagesTyped

\* A contact that no task has seen.
LEMMA Waiting ==
  ASSUME Typed', NEW c \in Contact, subscriber'[c] \in {NoRow, NewRow}, Unserved(c)',
         ~Listed(c)', ~Looping(c)', Marking(c)' => subscriber'[c] = NewRow,
         c \in contact' \/ subscriber'[c] = NoRow
  PROVE  ContactInv(c)'
<1>1. Len(message'[c]) = 0 /\ initTask'[c] = "none" /\ subscriber'[c].message = 0
      /\ subscriber'[c].status \in {"none", "PENDING"}
  BY RowFacts DEF Unserved
<1>2. \A k \in 1 .. MaxMessage : <<c, k>> \notin outbox'
  BY <1>1 DEF Typed, NamesTyped
<1>3. ~Resent(c)'
  BY DEF Resent, Listed, Typed, MessagesTyped
<1>4. Handed(c)'
  BY RowFacts DEF Handed, Deleted
<1>5. FirstUnsent(c)' /\ Outgoing(c)' /\ Held(c)'
  BY <1>1, <1>2, <1>3 DEF FirstUnsent, Outgoing, Held, Sending, Resent
<1>6. Good(c)' = {}
  BY <1>1 DEF Good
<1>7. Cardinality(Good(c)') = 0
  BY <1>6, FS_EmptySet, Zenon
<1>8. deaths' \in Nat /\ Limit \in Nat /\ Limit >= 1
  BY BoundAssumption DEF Typed, RowsTyped, Limit, Larger
<1>10. Counted(c)' /\ Spared(c)'
  BY <1>1 DEF Counted, Spared
<1>11. Bounded(c)'
  BY <1>1, <1>7, <1>8 DEF Bounded, Limit
<1>9. QED
  BY <1>4, <1>5, <1>10, <1>11 DEF ContactInv

\* The counts of a contact whose rows and messages a step leaves alone.
LEMMA CountFrame ==
  ASSUME Typed, NEW c \in Contact, subscriber'[c] = subscriber[c], message'[c] = message[c],
         Resent(c)' = Resent(c), deaths' = deaths, Counted(c), Spared(c), Bounded(c)
  PROVE  Counted(c)' /\ Spared(c)' /\ Bounded(c)'
<1>1. Good(c)' = Good(c) /\ Named(c)' = Named(c) /\ Deleted(c)' = Deleted(c)
  BY DEF Good, Named, Deleted
<1>2. Counted(c)'
  BY <1>1 DEF Counted, Limit
<1>3. Spared(c)'
  BY <1>1 DEF Spared
<1>4. Bounded(c)'
  BY <1>1 DEF Bounded, Limit
<1>5. QED
  BY <1>2, <1>3, <1>4

LEMMA ContactFrame ==
  ASSUME Typed, Typed', NEW c \in Contact, ContactInv(c),
         subscriber'[c] = subscriber[c], message'[c] = message[c], initTask'[c] = initTask[c],
         (c \in contact') = (c \in contact), deaths' = deaths,
         Marking(c)' => Marking(c), Looping(c)' => Looping(c),
         Resent(c)' = Resent(c), Sending(c)' => Sending(c),
         Listed(c)' => Listed(c) /\ resendRun'.list[c] = resendRun.list[c],
         \A k : <<c, k>> \in outbox' => <<c, k>> \in outbox
  PROVE  ContactInv(c)'
<1>1. Handed(c)'
  BY DEF ContactInv, Handed, Deleted, Unserved
<1>2. FirstUnsent(c)' /\ Outgoing(c)'
  BY DEF ContactInv, FirstUnsent, Outgoing
<1>3. Resent(c)' => Listed(c)'
  BY DEF Resent, Listed, Typed, MessagesTyped
<1>4. Held(c)'
  BY <1>3 DEF ContactInv, Held
<1>5. QED
  BY <1>1, <1>2, <1>4, CountFrame DEF ContactInv

LEMMA InitSms == Init => SmsInv
<1> SUFFICES ASSUME Init PROVE SmsInv
  OBVIOUS
<1>1. Typed
  BY InitTyped
<1>2. pendingRun.pc = "idle" /\ pendingRun.batch = <<>> /\ DOMAIN resendRun.list = {}
  BY RunFacts DEF Init
<1>3. Distinct
  BY <1>2 DEF Distinct
<1>4. ASSUME NEW c \in Contact PROVE ContactInv(c)
  <2>1. Unserved(c) /\ subscriber[c] = NoRow /\ ~Listed(c) /\ ~Looping(c) /\ ~Marking(c)
    BY <1>2 DEF Init, Unserved, Listed, Looping, Marking
  <2>2. Len(message[c]) = 0 /\ initTask[c] = "none" /\ subscriber[c].message = 0
        /\ subscriber[c].status \in {"none", "PENDING"}
    BY <1>1, <2>1, RowFacts DEF Unserved
  <2>3. \A k \in 1 .. MaxMessage : <<c, k>> \notin outbox
    BY <1>1, <2>1, <2>2 DEF Typed, NamesTyped
  <2>4. ~Resent(c)
    BY <1>1, <2>1 DEF Resent, Listed, Typed, MessagesTyped
  <2>5. Handed(c)
    BY <1>1, <2>1, RowFacts DEF Handed, Deleted
  <2>6. FirstUnsent(c) /\ Outgoing(c) /\ Held(c)
    BY <1>1, <2>1, <2>2, <2>3, <2>4 DEF FirstUnsent, Outgoing, Held, Sending, Resent
  <2>7. Good(c) = {}
    BY <1>1, <2>1, <2>2 DEF Good
  <2>8. Cardinality(Good(c)) = 0
    BY <1>1, <2>1, <2>7, FS_EmptySet, Zenon
  <2>9. deaths \in Nat /\ Limit \in Nat /\ Limit >= 1
    BY <1>1, <2>1, BoundAssumption DEF Typed, RowsTyped, Limit, Larger
  <2>10. Counted(c) /\ Spared(c)
    BY <1>1, <2>1, <2>2 DEF Counted, Spared
  <2>11. Bounded(c)
    BY <1>1, <2>1, <2>2, <2>8, <2>9 DEF Bounded, Limit
  <2>12. QED
    BY <2>5, <2>6, <2>10, <2>11 DEF ContactInv
<1>5. QED
  BY <1>3, <1>4 DEF SmsInv

-----------------------------------------------------------------------------
(***************************************************************************)
(* The user and the import.                                                *)
(***************************************************************************)
LEMMA SmsUser ==
  ASSUME Typed, Typed', SmsInv,
         \/ Start \/ Stop \/ SpoolContact \/ ImportRead \/ ImportSave \/ SpoolNoCampaign
         \/ SendLoose \/ UNCHANGED vars
  PROVE  SmsInv'
<1>1. UNCHANGED <<contact, subscriber, message, outbox, initTask, pendingRun, resendRun, deaths>>
  BY DEF Start, Stop, SpoolContact, ImportRead, ImportSave, SpoolNoCampaign, SendLoose, vars, rows
<1>2. ASSUME NEW c \in Contact PROVE ContactInv(c)'
  <2>1. Marking(c)' = Marking(c) /\ Looping(c)' = Looping(c) /\ Resent(c)' = Resent(c)
        /\ Sending(c)' = Sending(c) /\ Listed(c)' = Listed(c)
    BY <1>1 DEF Marking, Looping, InBatch, Resent, Sending, Listed
  <2>2. QED
    BY <1>1, <2>1, ContactFrame DEF SmsInv
<1>3. Distinct'
  BY <1>1 DEF SmsInv, Distinct
<1>4. QED
  BY <1>2, <1>3 DEF SmsInv

\* The runs hold what they held.
LEMMA RunsFrame ==
  ASSUME SmsInv, UNCHANGED <<pendingRun, resendRun>>
  PROVE  /\ Distinct'
         /\ \A c \in Contact : /\ Marking(c)' = Marking(c) /\ Looping(c)' = Looping(c)
                               /\ Resent(c)' = Resent(c) /\ Sending(c)' = Sending(c)
                               /\ Listed(c)' = Listed(c)
BY DEF SmsInv, Distinct, Marking, Looping, InBatch, Resent, Sending, Listed

LEMMA SmsContact ==
  ASSUME Typed, Typed', SmsInv, NEW c \in Contact, AddContact(c) \/ DeleteContact(c)
  PROVE  SmsInv'
<1>1. UNCHANGED <<message, outbox, initTask, pendingRun, resendRun, deaths>>
      /\ subscriber \in [Contact -> Row \cup {NoRow, DeletedRow}]
  BY DEF AddContact, DeleteContact, Typed, RowsTyped
<1>2. ASSUME NEW d \in Contact, d # c PROVE ContactInv(d)'
  <2>1. subscriber'[d] = subscriber[d] /\ (d \in contact') = (d \in contact)
    BY <1>1, <1>2 DEF AddContact, DeleteContact
  <2>2. QED
    BY <1>1, <2>1, ContactFrame, RunsFrame DEF SmsInv
<1>3. CASE AddContact(c)
  <2>1. subscriber[c] = NoRow /\ c \in contact' /\ subscriber'[c] \in {NoRow, NewRow}
    BY <1>1, <1>3 DEF AddContact, SmsInv, ContactInv, Handed, Deleted
  <2>2. Unserved(c) /\ ~Listed(c) /\ ~Looping(c) /\ ~Marking(c)
    BY <2>1, RowFacts DEF SmsInv, ContactInv, Handed
  <2>3. Unserved(c)' /\ ~Listed(c)' /\ ~Looping(c)' /\ ~Marking(c)'
    BY <1>1, <2>2, RunsFrame DEF Unserved
  <2>4. ContactInv(c)'
    BY <2>1, <2>3, Waiting
  <2>5. QED
    BY <1>1, <1>2, <2>4, RunsFrame DEF SmsInv
<1>4. CASE DeleteContact(c)
  <2>1. subscriber'[c] = DeletedRow /\ c \notin contact'
    BY <1>1, <1>4 DEF DeleteContact
  <2>2. ContactInv(c)
    BY DEF SmsInv
  <2>3. Handed(c)'
    BY <1>1, <2>1, <2>2, RowFacts, RunsFrame DEF ContactInv, Handed, Deleted, Unserved
  <2>4. FirstUnsent(c)' /\ Outgoing(c)'
    BY <1>1, <2>1, <2>2, RowFacts, RunsFrame DEF ContactInv, FirstUnsent, Outgoing
  <2>5. Held(c)'
    BY <1>1, <2>1, <2>2, RowFacts, RunsFrame DEF ContactInv, Held
  <2>6. Good(c)' = Good(c) /\ Deleted(c)'
    BY <1>1, <2>1 DEF Good, Deleted
  <2>7. Counted(c)' /\ Spared(c)' /\ Bounded(c)'
    BY <1>1, <2>2, <2>6 DEF ContactInv, Counted, Spared, Bounded, Limit
  <2>8. ContactInv(c)'
    BY <2>3, <2>4, <2>5, <2>7 DEF ContactInv
  <2>9. QED
    BY <1>1, <1>2, <2>8, RunsFrame DEF SmsInv
<1>5. QED
  BY <1>3, <1>4

LEMMA SmsImport == ASSUME Typed, Typed', SmsInv, ImportInsert PROVE SmsInv'
<1>1. UNCHANGED <<contact, message, outbox, initTask, pendingRun, resendRun, deaths>>
  BY DEF ImportInsert
<1>2. ASSUME NEW c \in Contact PROVE ContactInv(c)'
  <2>1. CASE c \in contact /\ subscriber[c] = NoRow
    <3>1. subscriber'[c] = NewRow
      BY <2>1 DEF ImportInsert
    <3>2. Unserved(c) /\ ~Listed(c) /\ ~Looping(c)
      BY <2>1 DEF SmsInv, ContactInv, Handed
    <3>3. Unserved(c)' /\ ~Listed(c)' /\ ~Looping(c)'
      BY <1>1, <3>2, RunsFrame DEF Unserved
    <3>4. QED
      BY <1>1, <2>1, <3>1, <3>3, Waiting
  <2>2. CASE ~(c \in contact /\ subscriber[c] = NoRow)
    <3>1. subscriber'[c] = subscriber[c]
      BY <2>2 DEF ImportInsert
    <3>2. QED
      BY <1>1, <3>1, ContactFrame, RunsFrame DEF SmsInv
  <2>3. QED
    BY <2>1, <2>2
<1>3. QED
  BY <1>1, <1>2, RunsFrame DEF SmsInv

-----------------------------------------------------------------------------
(***************************************************************************)
(* The pending run and init_smsrequest.                                    *)
(***************************************************************************)
LEMMA ResendFrame ==
  ASSUME NEW c, UNCHANGED resendRun
  PROVE  Resent(c)' = Resent(c) /\ Sending(c)' = Sending(c) /\ Listed(c)' = Listed(c)
BY DEF Resent, Sending, Listed

LEMMA PendingFrame ==
  ASSUME NEW c, UNCHANGED pendingRun
  PROVE  Marking(c)' = Marking(c) /\ Looping(c)' = Looping(c)
BY DEF Marking, Looping, InBatch

LEMMA SmsTake == ASSUME Typed, Typed', SmsInv, TakePending PROVE SmsInv'
<1>1. UNCHANGED <<contact, subscriber, message, outbox, initTask, resendRun, deaths>>
  BY DEF TakePending, rows
<1>2. PICK B \in SUBSET Contact :
        /\ \A c \in B : subscriber[c].status = "PENDING"
        /\ \E order \in SetToSeqs(B) : pendingRun' = [pc |-> "mark", batch |-> order]
  BY DEF TakePending, Having
<1>3. PICK order \in SetToSeqs(B) : pendingRun' = [pc |-> "mark", batch |-> order]
  BY <1>2
<1>4. Distinct'
  BY <1>3, OrderTyped DEF Distinct
<1>5. ASSUME NEW c \in Contact PROVE ContactInv(c)'
  <2>1. ~Looping(c)' /\ (Marking(c)' => c \in B)
    BY <1>3, OrderTyped DEF Looping, Marking, InBatch
  <2>2. CASE c \in B
    <3>1. subscriber[c] = NewRow /\ Unserved(c) /\ ~Listed(c) /\ c \in contact
      BY <1>2, <2>2, RowFacts DEF SmsInv, ContactInv, Handed
    <3>2. subscriber'[c] = NewRow /\ Unserved(c)' /\ ~Listed(c)' /\ c \in contact'
      BY <1>1, <3>1, ResendFrame DEF Unserved
    <3>3. QED
      BY <2>1, <3>2, Waiting
  <2>3. CASE c \notin B
    BY <1>1, <2>1, <2>3, ContactFrame, ResendFrame DEF SmsInv
  <2>4. QED
    BY <2>2, <2>3
<1>6. QED
  BY <1>4, <1>5 DEF SmsInv

LEMMA NothingNamed ==
  ASSUME Typed, NEW c \in Contact, message[c] = <<>>
  PROVE  subscriber[c].message = 0 /\ (Listed(c) => resendRun.list[c].message = 0)
<1>1. Len(message[c]) = 0
  OBVIOUS
<1>2. QED
  BY <1>1 DEF Typed, NamesTyped, Listed

\* A row that names no message, of a contact that has none, is not PENDING.
LEMMA Emptied ==
  ASSUME Typed, Typed', NEW c \in Contact, ContactInv(c), Unserved(c), ~Deleted(c),
         UNCHANGED <<message, outbox, contact, resendRun, deaths>>,
         subscriber'[c].message = 0,
         subscriber'[c].status \in {"IN_PROCESS", "FAIL", "NOT_AUTHORIZED"},
         c \in contact, initTask'[c] \in {"none", "queued"}, ~Marking(c)',
         Looping(c)' => initTask'[c] = "none"
  PROVE  ContactInv(c)'
<1>1. message'[c] = <<>> /\ Len(message'[c]) = 0
  BY DEF Unserved
<1>2. \A k \in 1 .. MaxMessage : <<c, k>> \notin outbox'
  BY <1>1 DEF Typed, NamesTyped
<1>3. ~Resent(c)' /\ Listed(c)' = Listed(c)
  BY <1>1 DEF Resent, Listed, Typed, NamesTyped
<1>4. subscriber'[c] \notin {NoRow, NewRow, DeletedRow}
  BY RowFacts
<1>5. Handed(c)'
  BY <1>1, <1>4, RowFacts DEF Handed, Deleted, Unserved
<1>6. FirstUnsent(c)' /\ Outgoing(c)'
  BY <1>1, <1>2, <1>3 DEF FirstUnsent, Outgoing, Sending, Resent
<1>7. Held(c)'
  <2>1. Listed(c) => resendRun.list[c].message = 0
    BY NothingNamed DEF Unserved
  <2>2. QED
    BY <1>1, <1>3, <2>1 DEF Held, ContactInv
<1>8. Good(c)' = Good(c)
  BY DEF Good
<1>9. Counted(c)' /\ Spared(c)'
  BY <1>1 DEF Counted, Spared
<1>10. Bounded(c)'
  BY <1>8 DEF ContactInv, Bounded, Limit
<1>11. QED
  BY <1>5, <1>6, <1>7, <1>9, <1>10 DEF ContactInv

LEMMA SmsMark == ASSUME Typed, Typed', SmsInv, MarkInProcess PROVE SmsInv'
<1> DEFINE batch == pendingRun.batch
           saved == {i \in DOMAIN batch : \A j \in 1 .. i : ~Deleted(batch[j])}
<1>1. UNCHANGED <<contact, message, outbox, initTask, resendRun, deaths>>
      /\ pendingRun.pc = "mark" /\ batch \in Seq(Contact) /\ pendingRun \in Spooling
  BY DEF MarkInProcess, Typed, RowsTyped, Spooling
<1>2. \/ pendingRun' = NoRun
      \/ saved = DOMAIN batch /\ pendingRun' = [pendingRun EXCEPT !.pc = "loop"]
  BY DEF MarkInProcess
<1>8. pendingRun' = [pendingRun EXCEPT !.pc = "loop"]
        => pendingRun'.pc = "loop" /\ pendingRun'.batch = batch
  BY <1>1 DEF Spooling
<1> HIDE DEF saved
<1>3. \/ pendingRun' = NoRun
      \/ pendingRun'.pc = "loop" /\ pendingRun'.batch = batch /\ saved = DOMAIN batch
  BY <1>2, <1>8
<1> USE DEF saved
<1>4. NoRun.pc = "idle" /\ DOMAIN NoRun.batch = {}
  BY RunFacts
<1>5. Distinct'
  BY <1>3, <1>4 DEF SmsInv, Distinct
<1>6. ASSUME NEW c \in Contact PROVE ContactInv(c)'
  <2>1. ~Marking(c)'
    BY <1>3, <1>4 DEF Marking
  <2>2. CASE \E i \in saved : batch[i] = c
    <3>1. Marking(c) /\ ~Deleted(c)
      BY <1>1, <2>2 DEF Marking, InBatch
    <3>2. subscriber[c] = NewRow /\ Unserved(c) /\ c \in contact
      BY <3>1, RowFacts DEF SmsInv, ContactInv, Handed, Deleted
    <3>3. subscriber'[c] = [NewRow EXCEPT !.status = "IN_PROCESS"]
      BY <2>2 DEF MarkInProcess
    <3>4. subscriber'[c].message = 0 /\ subscriber'[c].status = "IN_PROCESS"
      BY <3>3, RowFacts
    <3>5. QED
      BY <1>1, <2>1, <3>1, <3>2, <3>4, Emptied DEF SmsInv, Unserved
  <2>3. CASE ~\E i \in saved : batch[i] = c
    <3>1. subscriber'[c] = subscriber[c]
      BY <2>3 DEF MarkInProcess
    <3>2. ~Looping(c)'
      BY <1>3, <1>4, <2>3 DEF Looping, InBatch
    <3>3. QED
      BY <1>1, <2>1, <3>1, <3>2, ContactFrame, ResendFrame DEF SmsInv
  <2>4. QED
    BY <2>2, <2>3
<1>7. QED
  BY <1>5, <1>6 DEF SmsInv

\* The contact at the head of the batch is not in the rest of it.
LEMMA RestFrame ==
  ASSUME Typed, SmsInv, pendingRun.pc = "loop", pendingRun' \in {Rest, NoRun}
  PROVE  /\ Distinct'
         /\ \A c : c = Head(pendingRun.batch) => Looping(c) /\ ~Looping(c)'
         /\ \A c : ~Marking(c)' /\ (Looping(c)' => Looping(c))
<1>1. CASE pendingRun' = NoRun
  <2>1. pendingRun'.pc = "idle" /\ DOMAIN pendingRun'.batch = {}
    BY <1>1, RunFacts
  <2>2. \A c : c = Head(pendingRun.batch) => Looping(c)
    <3>1. 1 \in DOMAIN pendingRun.batch /\ Head(pendingRun.batch) = pendingRun.batch[1]
      BY RestRun DEF Typed, RowsTyped, Spooling
    <3>2. QED
      BY <3>1 DEF Looping, InBatch
  <2>3. QED
    BY <2>1, <2>2 DEF Distinct, Marking, Looping
<1>2. CASE pendingRun' = Rest
  <2> DEFINE b == pendingRun.batch
             t == Rest.batch
  <2>1. /\ pendingRun'.pc \in {"idle", "loop"} /\ pendingRun'.batch = t
        /\ \A i \in DOMAIN t : i + 1 \in DOMAIN b /\ t[i] = b[i + 1]
        /\ 1 \in DOMAIN b /\ Head(b) = b[1] /\ DOMAIN b \subseteq Nat /\ DOMAIN t \subseteq Nat \ {0}
    BY <1>2, RestRun DEF Typed, RowsTyped, Spooling
  <2>2. \A i, j \in DOMAIN b : b[i] = b[j] => i = j
    BY DEF SmsInv, Distinct
  <2> HIDE DEF b, t
  <2>3. \A i, j \in DOMAIN t : t[i] = t[j] => i = j
    BY <2>1, <2>2
  <2>4. \A i \in DOMAIN t : t[i] # Head(b)
    BY <2>1, <2>2
  <2>5. Distinct'
    BY <2>1, <2>3 DEF Distinct
  <2>6. \A c : c = Head(b) => Looping(c)
    BY <2>1 DEF b, Looping, InBatch
  <2>7. \A c : c = Head(b) => ~Looping(c)'
    BY <2>1, <2>4 DEF Looping, InBatch
  <2>8. \A c : ~Marking(c)' /\ (Looping(c)' => Looping(c))
    <3>1. \A c : InBatch(c)' => InBatch(c)
      BY <2>1 DEF InBatch, b
    <3>2. QED
      BY <2>1, <3>1 DEF Marking, Looping
  <2>9. QED
    BY <2>5, <2>6, <2>7, <2>8 DEF b
<1>3. QED
  BY <1>1, <1>2

LEMMA SmsLoop ==
  ASSUME Typed, Typed', SmsInv, SendInit \/ RefuseContact \/ BatchBreaks
  PROVE  SmsInv'
<1>1. PICK c \in Contact : c = Head(pendingRun.batch) /\ pendingRun.pc = "loop"
  BY RestRun DEF SendInit, RefuseContact, BatchBreaks
<1>2. pendingRun' \in {Rest, NoRun}
      /\ UNCHANGED <<message, outbox, contact, resendRun, deaths>>
  <2>1. CASE SendInit
    BY <2>1 DEF SendInit, rows
  <2>2. CASE RefuseContact
    BY <2>2 DEF RefuseContact
  <2>3. CASE BatchBreaks
    BY <2>3 DEF BatchBreaks, rows
  <2>4. QED
    BY <2>1, <2>2, <2>3
<1>3. Looping(c) /\ ~Looping(c)' /\ Distinct' /\ \A d : ~Marking(d)' /\ (Looping(d)' => Looping(d))
  BY <1>1, <1>2, RestFrame
<1>4. ContactInv(c) /\ Unserved(c) /\ subscriber[c] \notin {NoRow, NewRow}
  BY <1>3 DEF SmsInv, ContactInv, Handed
<1>5. ASSUME NEW d \in Contact, d # c PROVE ContactInv(d)'
  <2>1. subscriber'[d] = subscriber[d] /\ initTask'[d] = initTask[d]
    BY <1>1, <1>5 DEF SendInit, RefuseContact, BatchBreaks, rows, Typed, RowsTyped, MessagesTyped
  <2>2. QED
    BY <1>2, <1>3, <2>1, ContactFrame, ResendFrame DEF SmsInv
<1>6. ContactInv(c)'
  <2>1. CASE BatchBreaks
    <3>1. UNCHANGED <<subscriber, initTask>>
      BY <2>1 DEF BatchBreaks, rows
    <3>2. QED
      BY <1>2, <1>3, <1>4, <3>1, ContactFrame, ResendFrame
  <2>2. CASE SendInit
    <3>1. UNCHANGED subscriber /\ initTask'[c] = "queued" /\ ~Deleted(c)
      BY <1>1, <2>2 DEF SendInit, rows, Typed, MessagesTyped
    <3>2. c \in contact /\ subscriber[c].message = 0
      BY <1>4, <3>1, NothingNamed DEF ContactInv, Handed, Deleted, Unserved
    <3>3. subscriber[c].status \in {"IN_PROCESS", "FAIL", "NOT_AUTHORIZED"}
      <4>1. subscriber[c] \in Row /\ subscriber[c].status \notin {"PENDING", "COMPLETE"}
        BY <1>4, <3>1, <3>2, ContactTyped DEF ContactInv, Handed, Held, Deleted
      <4>2. QED
        BY <4>1 DEF Row, Status
    <3>4. QED
      BY <1>2, <1>3, <1>4, <3>1, <3>2, <3>3, Emptied
  <2>3. CASE RefuseContact
    <3>1. subscriber'[c] = [NewRow EXCEPT !.status = "NOT_AUTHORIZED"] /\ UNCHANGED initTask
          /\ ~Deleted(c)
      BY <1>1, <2>3 DEF RefuseContact, Typed, RowsTyped
    <3>2. subscriber'[c].message = 0 /\ subscriber'[c].status = "NOT_AUTHORIZED"
      BY <3>1, RowFacts
    <3>3. c \in contact
      BY <1>4, <3>1 DEF ContactInv, Handed, Deleted
    <3>4. QED
      BY <1>2, <1>3, <1>4, <3>1, <3>2, <3>3, Emptied DEF Unserved
  <2>4. QED
    BY <2>1, <2>2, <2>3
<1>7. QED
  BY <1>3, <1>5, <1>6 DEF SmsInv

\* A contact that init_smsrequest has is not in a batch, and its row left PENDING.
LEMMA InitTaken ==
  ASSUME Typed, NEW c \in Contact, ContactInv(c), initTask[c] # "none"
  PROVE  /\ subscriber[c] \notin {NoRow, NewRow} /\ ~Looping(c)
         /\ (~Deleted(c) => c \in contact /\ ~Marking(c)) /\ ~Resent(c)
<1>1. subscriber[c] \notin {NoRow, NewRow} /\ ~Looping(c)
  BY DEF ContactInv, Handed, Unserved
<1>2. ~Deleted(c) => c \in contact /\ ~Marking(c)
  BY <1>1 DEF ContactInv, Handed, Deleted
<1>3. ASSUME Resent(c) PROVE Len(message[c]) > 1
  <2>1. Resent(c) => Listed(c) /\ resendRun.list[c].message # 0
                       /\ resendRun.list[c].message < Len(message[c])
    BY DEF ContactInv, Held
  <2>2. Listed(c) => resendRun.list[c].message \in Nat
    BY ListedTyped DEF Listed, Row
  <2>3. QED
    BY <1>3, <2>1, <2>2, LengthTyped
<1>4. ~(Len(message[c]) > 1)
  <2>1. initTask[c] \in {"queued", "create", "send"}
    BY DEF Typed, MessagesTyped
  <2>2. CASE initTask[c] = "queued"
    <3>1. message[c] = <<>>
      BY <2>2 DEF ContactInv, FirstUnsent
    <3>2. Len(message[c]) = 0
      BY <3>1
    <3>3. QED
      BY <3>2, LengthTyped
  <2>3. CASE initTask[c] \in {"create", "send"}
    <3>1. Len(message[c]) = 1
      BY <2>3 DEF ContactInv, FirstUnsent
    <3>2. QED
      BY <3>1, LengthTyped
  <2>4. QED
    BY <2>1, <2>2, <2>3
<1>5. ~Resent(c)
  <2>1. ASSUME Resent(c) PROVE FALSE
    BY <1>3, <1>4, <2>1, Zenon
  <2>2. QED
    BY <2>1
<1>6. QED
  BY <1>1, <1>2, <1>5

\* init_smsrequest of one contact does not touch the others.
LEMMA InitOthers ==
  ASSUME Typed, Typed', SmsInv, NEW c \in Contact, NEW d \in Contact, InitStep(c), d # c
  PROVE  ContactInv(d)'
<1>1. UNCHANGED <<contact, pendingRun, resendRun, deaths>>
  BY DEF InitStep, InitCreate, InitSave, InitSend, rows
<1>2. subscriber'[d] = subscriber[d] /\ message'[d] = message[d] /\ initTask'[d] = initTask[d]
  BY DEF InitStep, InitCreate, InitSave, InitSend, rows, Typed, RowsTyped, MessagesTyped
<1>3. \A k : <<d, k>> \in outbox' => <<d, k>> \in outbox
  BY DEF InitStep, InitCreate, InitSave, InitSend, rows
<1>4. QED
  BY <1>1, <1>2, <1>3, ContactFrame, ResendFrame, PendingFrame DEF SmsInv

LEMMA SmsCreate ==
  ASSUME Typed, Typed', SmsInv, NEW c \in Contact, InitCreate(c)
  PROVE  ContactInv(c)'
<1>1. UNCHANGED <<subscriber, outbox, contact, pendingRun, resendRun, deaths>>
      /\ initTask[c] = "queued" /\ initTask'[c] = "create" /\ ContactInv(c)
  BY DEF InitCreate, Typed, MessagesTyped, SmsInv
<1>2. message[c] = <<>> /\ message'[c] = Append(message[c], "Unsent")
  BY <1>1 DEF InitCreate, Typed, MessagesTyped, ContactInv, FirstUnsent
<1>3. Len(message'[c]) = 1 /\ message'[c][1] = "Unsent"
  BY <1>2
<1>4. subscriber[c].message = 0 /\ (Listed(c) => resendRun.list[c].message = 0)
      /\ \A k \in 1 .. MaxMessage : <<c, k>> \notin outbox
  BY <1>2, NothingNamed DEF Typed, NamesTyped
<1>5. /\ Marking(c)' = Marking(c) /\ Looping(c)' = Looping(c) /\ Listed(c)' = Listed(c)
      /\ Resent(c)' = Resent(c) /\ Sending(c)' = Sending(c) /\ Deleted(c)' = Deleted(c)
  BY <1>1, ResendFrame, PendingFrame DEF Deleted
<1>6. subscriber[c] \notin {NoRow, NewRow} /\ ~Looping(c) /\ ~Resent(c)
  BY <1>1, InitTaken
<1>7. Handed(c)'
  BY <1>1, <1>5, <1>6 DEF ContactInv, Handed
<1>8. <<c, 1>> \notin outbox
  BY <1>4, BoundAssumption DEF Typed, MessagesTyped
<1>9. FirstUnsent(c)' /\ Outgoing(c)'
  BY <1>1, <1>3, <1>4, <1>5, <1>6, <1>8 DEF FirstUnsent, Outgoing, Sending, Resent
<1>10. Held(c)'
  BY <1>1, <1>3, <1>4, <1>5, <1>6 DEF ContactInv, Held
<1>11. Counted(c)' /\ Spared(c)'
  BY <1>1, <1>3, <1>4 DEF Counted, Spared
<1>12. Bounded(c)'
  <2>1. Good(c)' \in SUBSET (1 .. 1)
    BY <1>3 DEF Good
  <2>2. Cardinality(1 .. 1) = 1
    <3>1. 1 .. 1 = {1}
      OBVIOUS
    <3>2. QED
      BY <3>1, FS_Singleton, Zenon
  <2>3. Cardinality(Good(c)') <= 1 /\ Cardinality(Good(c)') \in Nat
    <3>1. 1 \in Nat /\ 1 .. 1 \in SUBSET (1 .. 1)
      OBVIOUS
    <3>2. QED
      BY <2>1, <2>2, <3>1, PartFewer
  <2>4. deaths \in Nat /\ Limit \in Nat /\ Limit >= 1 /\ deaths' = deaths
    BY <1>1, CountTyped
  <2>5. QED
    BY <1>3, <2>3, <2>4 DEF Bounded, Limit
<1>13. QED
  BY <1>7, <1>9, <1>10, <1>11, <1>12 DEF ContactInv

LEMMA SmsInitSave ==
  ASSUME Typed, Typed', SmsInv, NEW c \in Contact, InitSave(c)
  PROVE  ContactInv(c)'
<1>1. UNCHANGED <<message, outbox, contact, pendingRun, resendRun, deaths>>
      /\ initTask[c] = "create" /\ ContactInv(c)
  BY DEF InitSave, SmsInv
<1>2. Len(message[c]) = 1 /\ message[c][1] = "Unsent" /\ <<c, 1>> \notin outbox
      /\ subscriber[c].message = 0 /\ (Listed(c) => resendRun.list[c].message = 0)
  BY <1>1 DEF ContactInv, FirstUnsent
<1>3. subscriber[c] \notin {NoRow, NewRow} /\ ~Looping(c) /\ ~Resent(c)
      /\ (~Deleted(c) => c \in contact /\ ~Marking(c))
  BY <1>1, InitTaken
<1>4. /\ Marking(c)' = Marking(c) /\ Looping(c)' = Looping(c) /\ Listed(c)' = Listed(c)
      /\ Resent(c)' = Resent(c) /\ Sending(c)' = Sending(c)
  BY <1>1, ResendFrame, PendingFrame
<1>5. CASE Deleted(c)
  <2>1. subscriber'[c] = subscriber[c] /\ initTask'[c] = "none"
    BY <1>5 DEF InitSave, Typed, MessagesTyped
  <2>2. Handed(c)'
    BY <1>1, <1>3, <1>4, <2>1 DEF ContactInv, Handed, Deleted
  <2>3. FirstUnsent(c)' /\ Outgoing(c)' /\ Held(c)'
    BY <1>1, <1>2, <1>4, <2>1 DEF ContactInv, FirstUnsent, Outgoing, Held
  <2>4. QED
    BY <1>1, <1>4, <2>1, <2>2, <2>3, CountFrame DEF ContactInv
<1>6. CASE ~Deleted(c)
  <2>1. subscriber'[c] = [status |-> "IN_PROCESS", count_attempt |-> 1, message |-> 1]
        /\ initTask'[c] = "send"
    BY <1>2, <1>6 DEF InitSave, Typed, MessagesTyped, RowsTyped
  <2>2. subscriber'[c] \notin {NoRow, NewRow, DeletedRow}
    BY <2>1, RowFacts
  <2>3. Handed(c)'
    BY <1>1, <1>3, <1>4, <1>6, <2>1, <2>2 DEF ContactInv, Handed, Deleted
  <2>4. FirstUnsent(c)' /\ Outgoing(c)' /\ Held(c)'
    BY <1>1, <1>2, <1>3, <1>4, <2>1 DEF ContactInv, FirstUnsent, Outgoing, Held, Sending, Resent
  <2>5. Counted(c)'
    <3>1. deaths \in Nat /\ Limit \in Nat /\ Limit >= 1 /\ deaths' = deaths
      BY <1>1, CountTyped
    <3>2. ~Resent(c)' /\ Len(message'[c]) = 1 /\ subscriber'[c].message = 1
          /\ subscriber'[c].count_attempt = 1
      BY <1>1, <1>2, <1>3, <1>4, <2>1
    <3>3. QED
      BY <3>1, <3>2 DEF Counted, Limit
  <2>6. Spared(c)'
    <3>1. Named(c)' = 1 /\ Good(c)' \ {1} = {}
      BY <1>1, <1>2, <1>3, <1>4, <2>1 DEF Named, Good
    <3>2. Cardinality(Good(c)' \ {Named(c)'}) = 0
      BY <3>1, FS_EmptySet, Zenon
    <3>3. QED
      BY <1>1, <3>2, CountTyped DEF Spared
  <2>7. Bounded(c)'
    <3>1. Good(c)' = Good(c)
      BY <1>1 DEF Good
    <3>2. QED
      BY <1>1, <3>1 DEF ContactInv, Bounded, Limit
  <2>8. QED
    BY <2>3, <2>4, <2>5, <2>6, <2>7 DEF ContactInv
<1>7. QED
  BY <1>5, <1>6

LEMMA SmsInitSend ==
  ASSUME Typed, Typed', SmsInv, NEW c \in Contact, InitSend(c)
  PROVE  ContactInv(c)'
<1>1. UNCHANGED <<subscriber, message, contact, pendingRun, resendRun, deaths>>
      /\ initTask[c] = "send" /\ ContactInv(c) /\ initTask'[c] = "none"
      /\ outbox' = outbox \cup {<<c, Len(message[c])>>}
  BY DEF InitSend, SmsInv, rows, Typed, MessagesTyped
<1>2. Len(message[c]) = 1 /\ message[c][1] = "Unsent"
  BY <1>1 DEF ContactInv, FirstUnsent
<1>3. subscriber[c] \notin {NoRow, NewRow} /\ ~Looping(c) /\ ~Resent(c)
  BY <1>1, InitTaken
<1>4. /\ Marking(c)' = Marking(c) /\ Looping(c)' = Looping(c) /\ Listed(c)' = Listed(c)
      /\ Resent(c)' = Resent(c) /\ Sending(c)' = Sending(c)
  BY <1>1, ResendFrame, PendingFrame
<1>5. Handed(c)'
  BY <1>1, <1>3, <1>4 DEF ContactInv, Handed, Deleted
<1>6. FirstUnsent(c)' /\ Outgoing(c)' /\ Held(c)'
  BY <1>1, <1>2, <1>3, <1>4 DEF ContactInv, FirstUnsent, Outgoing, Held, Sending, Resent
<1>7. QED
  BY <1>1, <1>4, <1>5, <1>6, CountFrame DEF ContactInv

LEMMA SmsInit ==
  ASSUME Typed, Typed', SmsInv, NEW c \in Contact, InitStep(c)
  PROVE  SmsInv'
<1>1. \A d \in Contact : ContactInv(d)'
  BY InitOthers, SmsCreate, SmsInitSave, SmsInitSend DEF InitStep
<1>2. UNCHANGED <<pendingRun, resendRun>>
  BY DEF InitStep, InitCreate, InitSave, InitSend, rows
<1>3. QED
  BY <1>1, <1>2, RunsFrame DEF SmsInv

-----------------------------------------------------------------------------
(***************************************************************************)
(* SendMessage and the resend run.                                         *)
(***************************************************************************)
LEMMA SmsSendOthers ==
  ASSUME Typed, Typed', SmsInv, NEW c \in Contact, NEW d \in Contact, d # c, SendStep(c)
  PROVE  ContactInv(d)'
<1>1. PICK k \in 1 .. MaxMessage : SendMessage(c, k)
  BY DEF SendStep
<1>2. UNCHANGED <<subscriber, contact, initTask, pendingRun, resendRun, deaths>>
  BY <1>1 DEF SendMessage
<1>3. message'[d] = message[d]
  BY <1>1 DEF SendMessage, Typed, MessagesTyped
<1>4. \A j : <<d, j>> \in outbox' => <<d, j>> \in outbox
  BY <1>1 DEF SendMessage
<1>5. QED
  BY <1>2, <1>3, <1>4, ContactFrame, ResendFrame, PendingFrame DEF SmsInv

\* A contact with a message is past PENDING and in no batch.
LEMMA Spoken ==
  ASSUME Typed, NEW c \in Contact, ContactInv(c), message[c] # <<>>
  PROVE  /\ subscriber[c] \notin {NoRow, NewRow} /\ ~Looping(c) /\ initTask[c] # "queued"
         /\ (~Deleted(c) => c \in contact /\ ~Marking(c))
<1>1. subscriber[c] \notin {NoRow, NewRow} /\ ~Looping(c) /\ initTask[c] # "queued"
  BY DEF ContactInv, Handed, Unserved, FirstUnsent
<1>2. QED
  BY <1>1 DEF ContactInv, Handed, Deleted

LEMMA SmsSend ==
  ASSUME Typed, Typed', SmsInv, NEW c \in Contact, SendStep(c)
  PROVE  ContactInv(c)'
<1>1. PICK k \in 1 .. MaxMessage : SendMessage(c, k)
  BY DEF SendStep
<1>2. /\ UNCHANGED <<subscriber, contact, initTask, pendingRun, resendRun, deaths>>
      /\ <<c, k>> \in outbox /\ outbox' = outbox \ {<<c, k>>} /\ ContactInv(c)
  BY <1>1 DEF SendMessage, SmsInv
<1>3. PICK st \in MessageStatus : st # "Unsent" /\ message' = [message EXCEPT ![c][k] = st]
  BY <1>1 DEF SendMessage, Outcome, MessageStatus
<1>4. k \in 1 .. Len(message[c]) /\ message[c][k] = "Unsent" /\ message[c] # <<>>
  <2>1. Len(message[c]) \in Nat /\ k <= Len(message[c])
    BY <1>2, LengthTyped DEF Typed, NamesTyped
  <2>2. message[c][k] = "Unsent"
    BY <1>2 DEF ContactInv, Outgoing
  <2>3. QED
    BY <2>1, <2>2
<1>5. /\ Len(message'[c]) = Len(message[c]) /\ message'[c][k] = st
      /\ \A j \in 1 .. Len(message[c]) : j # k => message'[c][j] = message[c][j]
  BY <1>3, <1>4 DEF Typed, MessagesTyped
<1>6. initTask[c] = "none"
  <2>1. initTask[c] \in {"create", "send"} => Len(message[c]) = 1 /\ <<c, 1>> \notin outbox
    BY <1>2 DEF ContactInv, FirstUnsent
  <2>2. initTask[c] \notin {"create", "send"}
    BY <1>2, <1>4, <2>1
  <2>3. QED
    BY <1>2, <1>4, <2>2, Spoken DEF Typed, MessagesTyped
<1>7. /\ Marking(c)' = Marking(c) /\ Looping(c)' = Looping(c) /\ Listed(c)' = Listed(c)
      /\ Resent(c)' = Resent(c) /\ Sending(c)' = Sending(c) /\ Deleted(c)' = Deleted(c)
  BY <1>2, ResendFrame, PendingFrame DEF Deleted
<1>8. Handed(c)'
  BY <1>2, <1>4, <1>7, Spoken DEF ContactInv, Handed
<1>9. FirstUnsent(c)'
  BY <1>2, <1>6 DEF FirstUnsent
<1>10. Outgoing(c)'
  <2>1. \A j \in 1 .. MaxMessage : <<c, j>> \in outbox' => message'[c][j] = "Unsent"
    <3>1. ASSUME NEW j \in 1 .. MaxMessage, <<c, j>> \in outbox'
          PROVE  message'[c][j] = "Unsent"
      <4>1. <<c, j>> \in outbox /\ j # k
        BY <1>2, <3>1
      <4>2. j \in 1 .. Len(message[c]) /\ message[c][j] = "Unsent"
        BY <1>2, <4>1, LengthTyped DEF Typed, NamesTyped, ContactInv, Outgoing
      <4>3. QED
        BY <1>5, <4>1, <4>2
    <3>2. QED
      BY <3>1
  <2>2. Sending(c) => /\ Len(message[c]) # k /\ message[c][Len(message[c])] = "Unsent"
                      /\ <<c, Len(message[c])>> \notin outbox
    BY <1>2 DEF ContactInv, Outgoing
  <2>3. Len(message[c]) \in 1 .. Len(message[c])
    BY <1>4
  <2>4. QED
    BY <1>2, <1>5, <1>7, <2>1, <2>2, <2>3 DEF Outgoing
<1>11. Held(c)'
  BY <1>2, <1>5, <1>7 DEF ContactInv, Held
<1>12. Counted(c)'
  BY <1>2, <1>5, <1>7 DEF ContactInv, Counted, Limit
<1>13. Named(c)' = Named(c) /\ Good(c)' \in SUBSET Good(c)
  BY <1>2, <1>4, <1>5, <1>7 DEF Named, Good
<1>14. Spared(c)'
  <2>1. Cardinality(Good(c)' \ {Named(c)}) <= Cardinality(Good(c) \ {Named(c)})
        /\ Cardinality(Good(c)' \ {Named(c)}) \in Nat /\ Cardinality(Good(c) \ {Named(c)}) \in Nat
    <3>1. Good(c)' \ {Named(c)} \in SUBSET (Good(c) \ {Named(c)})
          /\ Good(c) \ {Named(c)} \in SUBSET (1 .. Len(message[c])) /\ Len(message[c]) \in Nat
      BY <1>13, LengthTyped DEF Good
    <3>2. QED
      BY <3>1, PartFewer, PartFinite
  <2>2. ~Deleted(c) /\ subscriber[c].message # 0
          => Cardinality(Good(c) \ {Named(c)}) <= deaths
    BY <1>2 DEF ContactInv, Spared
  <2>3. ~Deleted(c) /\ subscriber[c].message # 0
          => Cardinality(Good(c)' \ {Named(c)}) <= deaths
    BY <2>1, <2>2, CountTyped
  <2>4. QED
    BY <1>2, <1>7, <1>13, <2>3 DEF Spared
<1>15. Bounded(c)'
  <2>1. Cardinality(Good(c)') <= Cardinality(Good(c)) /\ Cardinality(Good(c)') \in Nat
        /\ Cardinality(Good(c)) \in Nat
    <3>1. Good(c) \in SUBSET (1 .. Len(message[c])) /\ Len(message[c]) \in Nat
      BY LengthTyped DEF Good
    <3>2. QED
      BY <1>13, <3>1, PartFewer, PartFinite
  <2>2. Len(message[c]) <= Limit + deaths /\ Cardinality(Good(c)) <= 1 + deaths
    BY <1>2 DEF ContactInv, Bounded
  <2>3. Cardinality(Good(c)') <= 1 + deaths
    BY <2>1, <2>2, CountTyped
  <2>4. QED
    BY <1>2, <1>5, <2>2, <2>3 DEF Bounded, Limit
<1>16. QED
  BY <1>8, <1>9, <1>10, <1>11, <1>12, <1>14, <1>15 DEF ContactInv

\* The row a run reads is up to date.
LEMMA SmsRead == ASSUME Typed, Typed', SmsInv, ResendRead PROVE SmsInv'
<1>1. /\ UNCHANGED <<contact, subscriber, message, outbox, initTask, pendingRun, deaths>>
      /\ resendRun.pc = "idle"
      /\ resendRun'.pc = "loop" /\ DOMAIN resendRun'.list = Having("IN_PROCESS")
      /\ \A c \in Having("IN_PROCESS") : resendRun'.list[c] = subscriber[c]
  BY DEF ResendRead, rows, NoResend
<1>2. ASSUME NEW c \in Contact PROVE ContactInv(c)'
  <2>1. ~Resent(c) /\ ~Resent(c)' /\ ~Sending(c)' /\ Marking(c)' = Marking(c)
        /\ Looping(c)' = Looping(c)
    BY <1>1, PendingFrame DEF Resent, Sending
  <2>2. Listed(c)' => subscriber[c].status = "IN_PROCESS" /\ resendRun'.list[c] = subscriber[c]
    BY <1>1 DEF Listed, Having
  <2>3. ContactInv(c)
    BY DEF SmsInv
  <2>4. Handed(c)'
    BY <1>1, <2>1, <2>2, <2>3, RowFacts DEF ContactInv, Handed, Deleted, Unserved
  <2>5. FirstUnsent(c)' /\ Outgoing(c)'
    BY <1>1, <2>1, <2>2, <2>3 DEF ContactInv, FirstUnsent, Outgoing
  <2>6. Listed(c)' => ~Deleted(c)
    BY <2>2, RowFacts DEF Deleted
  <2>7. Held(c)'
    BY <1>1, <2>1, <2>2, <2>3, <2>6 DEF ContactInv, Held, Counted
  <2>8. Resent(c)' = Resent(c)
    BY <1>1 DEF Resent
  <2>9. QED
    BY <1>1, <2>3, <2>4, <2>5, <2>7, <2>8, CountFrame DEF ContactInv
<1>3. Distinct'
  BY <1>1 DEF SmsInv, Distinct
<1>4. QED
  BY <1>2, <1>3 DEF SmsInv

\* The run that lost a contact from its list, or all of them, after a row it did not save.
LEMMA SmsDropped ==
  ASSUME Typed, Typed', SmsInv, NEW c \in Contact,
         UNCHANGED <<contact, subscriber, message, outbox, initTask, pendingRun, deaths>>,
         resendRun'.pc \in {"idle", "loop"}, DOMAIN resendRun'.list \subseteq DOMAIN resendRun.list,
         \A d \in DOMAIN resendRun'.list : resendRun'.list[d] = resendRun.list[d],
         Resent(c) => Deleted(c),
         \A d \in Contact : d # c => ~Resent(d)
  PROVE  SmsInv'
<1>1. ASSUME NEW d \in Contact PROVE ContactInv(d)'
  <2>1. /\ Marking(d)' = Marking(d) /\ Looping(d)' = Looping(d) /\ ~Resent(d)' /\ ~Sending(d)'
        /\ Listed(d)' => Listed(d) /\ resendRun'.list[d] = resendRun.list[d]
    BY PendingFrame DEF Resent, Sending, Listed
  <2>2. ContactInv(d)
    BY DEF SmsInv
  <2>3. CASE ~Resent(d)
    <3>1. Resent(d)' = Resent(d) /\ Sending(d)' = Sending(d)
      BY <2>1, <2>3 DEF Resent, Sending
    <3>2. QED
      BY <2>1, <2>2, <3>1, ContactFrame
  <2>4. CASE Resent(d)
    <3>1. Deleted(d) /\ Deleted(d)'
      BY <2>4 DEF Deleted
    <3>2. Handed(d)' /\ FirstUnsent(d)' /\ Outgoing(d)' /\ Held(d)'
      BY <2>1, <2>2 DEF ContactInv, Handed, FirstUnsent, Outgoing, Held, Deleted, Unserved
    <3>3. Good(d)' = Good(d)
      BY DEF Good
    <3>4. Counted(d)' /\ Spared(d)' /\ Bounded(d)'
      BY <2>2, <3>1, <3>3 DEF ContactInv, Counted, Spared, Bounded, Limit
    <3>5. QED
      BY <3>2, <3>4 DEF ContactInv
  <2>5. QED
    BY <2>3, <2>4
<1>2. Distinct'
  BY DEF SmsInv, Distinct
<1>3. QED
  BY <1>1, <1>2 DEF SmsInv

LEMMA SmsBreaks ==
  ASSUME Typed, Typed', SmsInv, NEW c \in Contact, ResendBreaks(c)
  PROVE  SmsInv'
<1>1. UNCHANGED <<contact, subscriber, message, outbox, initTask, pendingRun, deaths>>
      /\ resendRun' = NoResend /\ Deleted(c)
  BY DEF ResendBreaks, rows
<1>2. resendRun'.pc = "idle" /\ DOMAIN resendRun'.list = {}
  BY <1>1, RunFacts
<1>3. \A d \in Contact : d # c => ~Resent(d)
  BY DEF ResendBreaks, Resent
<1>4. QED
  BY <1>1, <1>2, <1>3, SmsDropped

LEMMA Holding ==
  ASSUME Typed, NEW c \in Contact, ContactInv(c), Listed(c), ~Deleted(c)
  PROVE  /\ resendRun.list[c] \in Row /\ resendRun.list[c].status = "IN_PROCESS"
         /\ subscriber[c] \notin {NoRow, NewRow} /\ c \in contact /\ ~Marking(c)
         /\ resendRun.list[c].message = 0 => Len(message[c]) <= 1
         /\ resendRun.list[c].message # 0 =>
              /\ subscriber[c] = resendRun.list[c] /\ message[c] # <<>> /\ ~Looping(c)
              /\ resendRun.list[c].message \in 1 .. Len(message[c])
              /\ initTask[c] \in {"none", "send"}
<1>1. resendRun.list[c] \in Row /\ resendRun.list[c].message \in 0 .. Len(message[c])
      /\ Len(message[c]) \in Nat
  BY ListedTyped, LengthTyped DEF Listed, Typed, NamesTyped
<1>2. subscriber[c] \notin {NoRow, NewRow}
  BY DEF ContactInv, Handed
<1>3. c \in contact /\ ~Marking(c)
  BY <1>2 DEF ContactInv, Handed, Deleted
<1>4. resendRun.list[c].status = "IN_PROCESS"
      /\ (resendRun.list[c].message = 0 => Len(message[c]) <= 1)
      /\ (resendRun.list[c].message # 0 => subscriber[c] = resendRun.list[c])
  BY DEF ContactInv, Held, Deleted
<1>5. ASSUME resendRun.list[c].message # 0
      PROVE  /\ message[c] # <<>> /\ ~Looping(c)
             /\ resendRun.list[c].message \in 1 .. Len(message[c])
             /\ initTask[c] \in {"none", "send"}
  <2>1. resendRun.list[c].message \in 1 .. Len(message[c])
    BY <1>1, <1>5
  <2>2. message[c] # <<>>
    BY <1>1, <2>1
  <2>3. initTask[c] # "create"
    BY <1>5 DEF ContactInv, FirstUnsent
  <2>4. QED
    BY <2>1, <2>2, <2>3, Spoken DEF Typed, MessagesTyped
<1>6. QED
  BY <1>1, <1>2, <1>3, <1>4, <1>5

LEMMA SmsSettle ==
  ASSUME Typed, Typed', SmsInv, NEW c \in Contact, ResendSettle(c)
  PROVE  SmsInv'
<1> DEFINE l == resendRun.list[c]
           v == Verdict(c)
           row == [l EXCEPT !.status = v]
<1>1. UNCHANGED <<contact, message, outbox, initTask, pendingRun, deaths>>
      /\ resendRun.pc = "loop" /\ Listed(c) /\ resendRun' = Without(resendRun, c)
  BY DEF ResendSettle, Listed
<1>2. /\ resendRun'.pc \in {"idle", "loop"} /\ DOMAIN resendRun'.list = DOMAIN resendRun.list \ {c}
      /\ \A d \in DOMAIN resendRun'.list : resendRun'.list[d] = resendRun.list[d]
  BY <1>1, WithoutRow DEF Typed, MessagesTyped
<1>3. \A d \in Contact : ~Resent(d) /\ ~Resent(d)' /\ ~Sending(d)'
  BY <1>1, <1>2 DEF Resent, Sending
<1>4. CASE UNCHANGED subscriber
  BY <1>1, <1>2, <1>3, <1>4, SmsDropped
<1>5. CASE ~UNCHANGED subscriber
  <2>1. ~Deleted(c) /\ v # "IN_PROCESS" /\ subscriber' = [subscriber EXCEPT ![c] = row]
    BY <1>5 DEF ResendSettle
  <2>2. ContactInv(c) /\ subscriber \in [Contact -> Row \cup {NoRow, DeletedRow}]
    BY DEF SmsInv, Typed, RowsTyped
  <2>3. l \in Row /\ v \in {"FAIL", "COMPLETE"} /\ (l.message = 0 => v = "FAIL")
    BY <1>1, <2>1, <2>2, Holding, ReportTyped DEF Listed, Verdict
  <2>4. row.status = v /\ row.message = l.message /\ row.count_attempt = l.count_attempt
    BY <2>3 DEF Row
  <2> HIDE DEF v, row
  <2>5. subscriber'[c] = row /\ row \notin {NoRow, NewRow, DeletedRow}
    BY <2>1, <2>2, <2>3, <2>4, RowFacts
  <2>6. /\ Marking(c)' = Marking(c) /\ Looping(c)' = Looping(c) /\ ~Listed(c)'
        /\ Deleted(c)' = FALSE
    BY <1>1, <1>2, <2>5, PendingFrame DEF Listed, Deleted
  <2>7. Handed(c)'
    BY <1>1, <2>1, <2>2, <2>3, <2>4, <2>5, <2>6, Holding
    DEF ContactInv, Handed, Unserved
  <2>8. FirstUnsent(c)' /\ Outgoing(c)'
    BY <1>1, <1>3, <2>2, <2>4, <2>5, <2>6 DEF ContactInv, FirstUnsent, Outgoing
  <2>9. Held(c)'
    BY <1>3, <2>3, <2>4, <2>5, <2>6 DEF Held
  <2>10. Counted(c)' /\ Spared(c)' /\ Bounded(c)'
    <3>1. CASE l.message = 0
      <4>1. Good(c)' = Good(c)
        BY <1>1 DEF Good
      <4>2. Len(message[c]) <= 1
        BY <1>1, <2>1, <2>2, <3>1, Holding
      <4>3. Bounded(c)'
        BY <1>1, <2>2, <4>1 DEF ContactInv, Bounded, Limit
      <4>4. QED
        BY <1>1, <2>4, <2>5, <3>1, <4>2, <4>3 DEF Counted, Spared
    <3>2. CASE l.message # 0
      <4>1. subscriber[c] = l
        BY <1>1, <2>1, <2>2, <3>2, Holding
      <4>2. Good(c)' = Good(c) /\ Named(c)' = Named(c)
        BY <1>1, <1>3, <2>4, <2>5, <4>1 DEF Good, Named
      <4>3. Counted(c)'
        BY <1>1, <1>3, <2>1, <2>2, <2>4, <2>5, <4>1 DEF ContactInv, Counted, Limit
      <4>4. Spared(c)'
        BY <1>1, <2>1, <2>2, <2>4, <2>5, <4>1, <4>2 DEF ContactInv, Spared
      <4>5. Bounded(c)'
        BY <1>1, <2>2, <4>2 DEF ContactInv, Bounded, Limit
      <4>6. QED
        BY <4>3, <4>4, <4>5
    <3>3. QED
      BY <3>1, <3>2
  <2>11. ContactInv(c)'
    BY <2>7, <2>8, <2>9, <2>10 DEF ContactInv
  <2>12. ASSUME NEW d \in Contact, d # c PROVE ContactInv(d)'
    <3>1. subscriber'[d] = subscriber[d]
      BY <2>1, <2>2, <2>12
    <3>2. /\ Marking(d)' = Marking(d) /\ Looping(d)' = Looping(d)
          /\ Listed(d)' => Listed(d) /\ resendRun'.list[d] = resendRun.list[d]
      BY <1>1, <1>2, PendingFrame DEF Listed
    <3>3. Resent(d)' = Resent(d) /\ Sending(d)' = Sending(d)
      BY <1>1, <1>2 DEF Resent, Sending
    <3>4. QED
      BY <1>1, <3>1, <3>2, <3>3, ContactFrame DEF SmsInv
  <2>13. Distinct'
    BY <1>1 DEF SmsInv, Distinct
  <2>14. QED
    BY <2>11, <2>12, <2>13 DEF SmsInv
<1>6. QED
  BY <1>4, <1>5

\* The other contacts of a run that sends one message again.
LEMMA ResendOthers ==
  ASSUME Typed, Typed', SmsInv, NEW c \in Contact,
         UNCHANGED <<contact, initTask, pendingRun, deaths>>,
         \A d \in Contact : d # c =>
           /\ subscriber'[d] = subscriber[d] /\ message'[d] = message[d]
           /\ \A k : <<d, k>> \in outbox' => <<d, k>> \in outbox
           /\ Listed(d)' => Listed(d) /\ resendRun'.list[d] = resendRun.list[d]
           /\ Resent(d)' = Resent(d) /\ Sending(d)' = Sending(d),
         ContactInv(c)'
  PROVE  SmsInv'
<1>1. ASSUME NEW d \in Contact, d # c PROVE ContactInv(d)'
  <2>1. Marking(d)' = Marking(d) /\ Looping(d)' = Looping(d)
    BY PendingFrame
  <2>2. QED
    BY <1>1, <2>1, ContactFrame DEF SmsInv
<1>2. Distinct'
  BY DEF SmsInv, Distinct
<1>3. QED
  BY <1>1, <1>2 DEF SmsInv

LEMMA SmsAgain ==
  ASSUME Typed, Typed', SmsInv, NEW c \in Contact, ResendCreate(c)
  PROVE  SmsInv'
<1> DEFINE l == resendRun.list[c]
           n == Len(message[c])
<1>1. UNCHANGED <<contact, subscriber, outbox, initTask, pendingRun, deaths>>
      /\ resendRun.pc = "loop" /\ Listed(c) /\ ~Deleted(c) /\ ContactInv(c)
      /\ resendRun' = [resendRun EXCEPT !.pc = "send", !.c = c]
      /\ message' = [message EXCEPT ![c] = Append(message[c], "Unsent")]
  BY DEF ResendCreate, Listed, SmsInv
<1>2. Report(c) = "Failed" /\ l.count_attempt < MaxRetry
  BY DEF ResendCreate, RetryDue
<1>3. resendRun'.pc = "send" /\ resendRun'.c = c /\ resendRun'.list = resendRun.list
  BY <1>1 DEF Typed, MessagesTyped, Resending
<1>4. n \in Nat /\ message \in [Contact -> Seq(MessageStatus)]
  BY LengthTyped DEF Typed, MessagesTyped
<1>5. /\ message' \in [Contact -> Seq(MessageStatus)] /\ Len(message'[c]) = n + 1
      /\ message'[c][n + 1] = "Unsent"
      /\ \A k \in 1 .. n : message'[c][k] = message[c][k]
      /\ \A d \in Contact : d # c => message'[d] = message[d]
  BY <1>1, <1>4 DEF MessageStatus
<1>6. l.message # 0 /\ message[c][l.message] = "Failed"
  BY <1>1, <1>2, ReportTyped DEF Listed
<1>7. /\ l \in Row /\ l.status = "IN_PROCESS" /\ subscriber[c] = l /\ ~Looping(c) /\ ~Marking(c)
      /\ subscriber[c] \notin {NoRow, NewRow} /\ c \in contact /\ l.message \in 1 .. n
      /\ initTask[c] \in {"none", "send"}
  BY <1>1, <1>6, Holding
<1>8. initTask[c] = "none"
  <2>1. initTask[c] = "send" => n = 1 /\ message[c][1] = "Unsent"
    BY <1>1 DEF ContactInv, FirstUnsent
  <2>2. initTask[c] = "send" => message[c][l.message] = "Unsent"
    <3>1. n = 1 => l.message = 1
      BY <1>7
    <3>2. QED
      BY <2>1, <3>1
  <2>3. "Failed" # "Unsent"
    OBVIOUS
  <2>4. QED
    BY <1>6, <1>7, <2>2, <2>3, Zenon
<1>9. /\ ~Marking(c)' /\ ~Looping(c)' /\ Listed(c)' /\ resendRun'.list[c] = l
      /\ Resent(c)' /\ ~Resent(c) /\ Deleted(c)' = FALSE
  BY <1>1, <1>3, <1>7, PendingFrame DEF Listed, Resent, Deleted
<1>10. Handed(c)'
  BY <1>1, <1>7, <1>9, RowFacts DEF Handed, Deleted
<1>11. FirstUnsent(c)'
  BY <1>1, <1>8 DEF FirstUnsent
<1>12. \A k \in 1 .. MaxMessage : <<c, k>> \in outbox => k \in 1 .. n
  BY <1>4 DEF Typed, NamesTyped
<1>13. Outgoing(c)'
  <2>1. \A k \in 1 .. MaxMessage : <<c, k>> \in outbox => message'[c][k] = "Unsent"
    BY <1>1, <1>5, <1>12 DEF ContactInv, Outgoing
  <2>2. n + 1 \in 1 .. MaxMessage
    BY <1>4, BoundAssumption DEF ResendCreate
  <2>3. <<c, n + 1>> \notin outbox
    BY <1>4, <1>12, <2>2
  <2>4. QED
    BY <1>1, <1>5, <2>1, <2>3 DEF Outgoing
<1>14. Held(c)'
  BY <1>1, <1>2, <1>5, <1>7, <1>9 DEF Held
<1>15. Good(c) \in SUBSET (1 .. n) /\ Good(c)' \in SUBSET (1 .. (n + 1))
       /\ Good(c)' \ {n + 1} = Good(c) /\ Good(c) \ {l.message} = Good(c)
  BY <1>4, <1>5, <1>6, <1>7 DEF Good
<1>16. Cardinality(Good(c)) <= deaths
  <2>1. Named(c) = l.message
    BY <1>7, <1>9 DEF Named
  <2>2. Cardinality(Good(c) \ {l.message}) <= deaths
    BY <1>1, <1>6, <1>7, <2>1 DEF ContactInv, Spared
  <2>3. QED
    BY <1>15, <2>2
<1>17. l.count_attempt \in Nat /\ deaths \in Nat /\ Limit \in Nat /\ MaxRetry \in Nat
       /\ Limit >= MaxRetry
  BY <1>7, CountTyped DEF Row
<1>18. l.count_attempt <= Limit /\ n <= l.count_attempt + deaths
  BY <1>1, <1>6, <1>7, <1>9, <1>17 DEF ContactInv, Counted
<1>19. Counted(c)'
  <2>1. n + 1 <= l.count_attempt + deaths + 1
    BY <1>4, <1>17, <1>18
  <2>2. QED
    BY <1>1, <1>5, <1>7, <1>9, <1>18, <2>1 DEF Counted, Limit
<1>20. Spared(c)'
  <2>1. Named(c)' = n + 1
    BY <1>5, <1>9 DEF Named
  <2>2. Cardinality(Good(c)' \ {Named(c)'}) <= deaths
    BY <1>15, <1>16, <2>1
  <2>3. QED
    BY <1>1, <2>2 DEF Spared
<1>21. Bounded(c)'
  <2>1. n + 1 <= Limit + deaths
    BY <1>2, <1>4, <1>17, <1>18
  <2>2. n + 1 \in Nat
    BY <1>4
  <2>3. Cardinality(Good(c)') <= Cardinality(Good(c)) + 1 /\ Cardinality(Good(c)') \in Nat
        /\ Cardinality(Good(c)) \in Nat
    BY <1>4, <1>15, <2>2, PartOneLess, PartFinite
  <2>4. Cardinality(Good(c)') <= 1 + deaths
    BY <1>16, <1>17, <2>3
  <2>5. QED
    BY <1>1, <1>5, <2>1, <2>4 DEF Bounded, Limit
<1>22. ContactInv(c)'
  BY <1>10, <1>11, <1>13, <1>14, <1>19, <1>20, <1>21 DEF ContactInv
<1>23. ASSUME NEW d \in Contact, d # c
       PROVE  /\ Listed(d)' => Listed(d) /\ resendRun'.list[d] = resendRun.list[d]
              /\ Resent(d)' = Resent(d) /\ Sending(d)' = Sending(d)
  BY <1>1, <1>3, <1>23 DEF Listed, Resent, Sending
<1>24. QED
  BY <1>1, <1>5, <1>22, <1>23, ResendOthers

LEMMA SmsAgainSend ==
  ASSUME Typed, Typed', SmsInv, ResendSend
  PROVE  SmsInv'
<1>1. PICK c \in Contact : c = resendRun.c /\ Listed(c)
  BY ListedTyped DEF ResendSend, Typed, MessagesTyped, Listed
<1>2. UNCHANGED <<contact, subscriber, message, initTask, pendingRun, deaths>>
      /\ resendRun.pc = "send" /\ ContactInv(c)
      /\ resendRun' = [resendRun EXCEPT !.pc = "save"]
      /\ outbox' = outbox \cup {<<c, Len(message[c])>>}
  BY <1>1 DEF ResendSend, SmsInv, rows
<1>3. resendRun'.pc = "save" /\ resendRun'.c = c /\ resendRun'.list = resendRun.list
  BY <1>1, <1>2 DEF Typed, MessagesTyped, Resending
<1>4. \A d \in Contact : /\ Marking(d)' = Marking(d) /\ Looping(d)' = Looping(d)
                         /\ Listed(d)' = Listed(d) /\ Resent(d)' = Resent(d) /\ ~Sending(d)'
  BY <1>2, <1>3, PendingFrame DEF Listed, Resent, Sending
<1>5. Sending(c) /\ Resent(c)
  BY <1>1, <1>2 DEF Sending, Resent
<1>6. resendRun.list[c].message \in Nat \ {0} /\ Len(message[c]) \in Nat
      /\ resendRun.list[c].message < Len(message[c])
  BY <1>1, <1>2, <1>5, ListedTyped, LengthTyped DEF ContactInv, Held, Listed, Row
<1>7. Len(message[c]) > 1 /\ message[c] # <<>>
  BY <1>6
<1>8. Handed(c)'
  BY <1>2, <1>4 DEF ContactInv, Handed, Deleted, Unserved
<1>9. FirstUnsent(c)'
  <2>1. ASSUME initTask[c] \in {"create", "send"} PROVE FALSE
    <3>1. Len(message[c]) = 1
      BY <1>2, <2>1 DEF ContactInv, FirstUnsent
    <3>2. resendRun.list[c].message < 1
      BY <1>6, <3>1
    <3>3. QED
      BY <1>6, <3>2
  <2>2. QED
    BY <1>2, <2>1 DEF ContactInv, FirstUnsent
<1>10. Outgoing(c)'
  BY <1>2, <1>4, <1>5 DEF ContactInv, Outgoing
<1>11. Held(c)'
  BY <1>2, <1>3, <1>4 DEF ContactInv, Held
<1>12. ContactInv(c)'
  BY <1>2, <1>4, <1>8, <1>9, <1>10, <1>11, CountFrame DEF ContactInv
<1>13. \A d \in Contact : d # c =>
         /\ \A k : <<d, k>> \in outbox' => <<d, k>> \in outbox
         /\ Listed(d)' => Listed(d) /\ resendRun'.list[d] = resendRun.list[d]
         /\ Resent(d)' = Resent(d) /\ Sending(d)' = Sending(d)
  BY <1>1, <1>2, <1>3, <1>4 DEF Sending
<1>14. QED
  BY <1>2, <1>12, <1>13, ResendOthers

LEMMA SmsAgainSave ==
  ASSUME Typed, Typed', SmsInv, ResendSave
  PROVE  SmsInv'
<1>1. PICK c \in Contact : c = resendRun.c /\ Listed(c)
  BY ListedTyped DEF ResendSave, Typed, MessagesTyped, Listed
<1> DEFINE l == resendRun.list[c]
           n == Len(message[c])
           row == [l EXCEPT !.message = n, !.count_attempt = @ + 1]
<1>2. UNCHANGED <<contact, message, outbox, initTask, pendingRun, deaths>>
      /\ resendRun.pc = "save" /\ ContactInv(c) /\ ~Deleted(c)
      /\ resendRun' = Without(resendRun, c)
      /\ subscriber' = [subscriber EXCEPT ![c] = row]
  BY <1>1 DEF ResendSave, SmsInv
<1>3. /\ resendRun'.pc \in {"idle", "loop"} /\ DOMAIN resendRun'.list = DOMAIN resendRun.list \ {c}
      /\ \A d \in DOMAIN resendRun'.list : resendRun'.list[d] = resendRun.list[d]
  BY <1>2, WithoutRow DEF Typed, MessagesTyped
<1>4. n \in 0 .. MaxMessage /\ n \in Nat
  BY LengthTyped DEF Typed, NamesTyped
<1>5. Resent(c) /\ l.message # 0 /\ l.message < n /\ l.count_attempt < MaxRetry
  BY <1>1, <1>2 DEF ContactInv, Held, Resent
<1>6. /\ l \in Row /\ l.status = "IN_PROCESS" /\ subscriber[c] = l /\ ~Looping(c) /\ ~Marking(c)
      /\ c \in contact /\ initTask[c] \in {"none", "send"} /\ message[c] # <<>>
  BY <1>1, <1>2, <1>5, Holding
<1>7. row = [status |-> "IN_PROCESS", count_attempt |-> l.count_attempt + 1, message |-> n]
  BY <1>4, <1>6, SavedRow
<1> HIDE DEF row
<1>8. subscriber'[c] = row /\ row \notin {NoRow, NewRow, DeletedRow}
      /\ row.status = "IN_PROCESS" /\ row.message = n /\ row.count_attempt = l.count_attempt + 1
  BY <1>2, <1>7, RowFacts DEF Typed, RowsTyped
<1>9. /\ ~Marking(c)' /\ ~Looping(c)' /\ ~Listed(c)' /\ ~Resent(c)' /\ ~Sending(c)'
      /\ Deleted(c)' = FALSE
  BY <1>2, <1>3, <1>6, <1>8, PendingFrame DEF Listed, Resent, Sending, Deleted
<1>10. l.message \in Nat /\ l.count_attempt \in Nat /\ deaths \in Nat /\ MaxRetry \in Nat
       /\ Limit \in Nat /\ Limit >= MaxRetry
  BY <1>6, CountTyped DEF Row
<1>11. initTask[c] = "none"
  <2>1. ASSUME initTask[c] = "send" PROVE FALSE
    <3>1. n = 1
      BY <1>2, <2>1 DEF ContactInv, FirstUnsent
    <3>2. l.message < 1
      BY <1>5, <3>1
    <3>3. QED
      BY <1>5, <1>10, <3>2
  <2>2. QED
    BY <1>6, <2>1
<1>12. Handed(c)'
  BY <1>2, <1>6, <1>8, <1>9 DEF Handed
<1>13. FirstUnsent(c)' /\ Outgoing(c)'
  BY <1>2, <1>9, <1>11 DEF ContactInv, FirstUnsent, Outgoing
<1>14. Held(c)'
  BY <1>8, <1>9 DEF Held
<1>15. n # 0
  BY <1>5, <1>10
<1>16. l.count_attempt <= Limit /\ n <= l.count_attempt + deaths + 1
  BY <1>2, <1>5, <1>6, <1>10 DEF ContactInv, Counted
<1>17. Counted(c)'
  <2>1. l.count_attempt + 1 <= Limit /\ n <= l.count_attempt + 1 + deaths
    BY <1>4, <1>5, <1>10, <1>16
  <2>2. /\ Len(message'[c]) = n /\ subscriber'[c].message = n /\ deaths' = deaths
        /\ subscriber'[c].count_attempt = l.count_attempt + 1
    BY <1>2, <1>8
  <2>3. n <= (l.count_attempt + 1) + deaths + (IF Resent(c)' THEN 1 ELSE 0)
    BY <1>4, <1>9, <1>10, <2>1
  <2>4. QED
    BY <1>15, <2>1, <2>2, <2>3 DEF Counted, Limit
<1>18. Good(c)' = Good(c) /\ Named(c)' = Named(c)
  BY <1>2, <1>5, <1>8, <1>9 DEF Good, Named
<1>19. Spared(c)'
  BY <1>2, <1>5, <1>6, <1>18 DEF ContactInv, Spared
<1>20. Bounded(c)'
  BY <1>2, <1>18 DEF ContactInv, Bounded, Limit
<1>21. ContactInv(c)'
  BY <1>12, <1>13, <1>14, <1>17, <1>19, <1>20 DEF ContactInv
<1>22. ASSUME NEW d \in Contact, d # c
       PROVE  /\ subscriber'[d] = subscriber[d]
              /\ Listed(d)' => Listed(d) /\ resendRun'.list[d] = resendRun.list[d]
              /\ Resent(d)' = Resent(d) /\ Sending(d)' = Sending(d)
  BY <1>1, <1>2, <1>3, <1>22 DEF Listed, Resent, Sending, Typed, RowsTyped
<1>23. QED
  BY <1>2, <1>21, <1>22, ResendOthers

LEMMA SmsResend == ASSUME Typed, Typed', SmsInv, ResendStep PROVE SmsInv'
BY SmsRead, SmsSettle, SmsAgain, SmsAgainSend, SmsAgainSave, SmsBreaks DEF ResendStep

-----------------------------------------------------------------------------
(***************************************************************************)
(* A death, and the whole step.                                            *)
(***************************************************************************)
\* What a run that died had sent and not counted is one message more for one death more.
LEMMA SmsDie == ASSUME Typed, Typed', SmsInv, Die PROVE SmsInv'
<1>1. UNCHANGED <<contact, subscriber, message>> /\ deaths \in Nat /\ deaths' = deaths + 1
      /\ outbox' \subseteq outbox
  BY DeathStep DEF rows
<1>2. \A c \in Contact : initTask'[c] \in {initTask[c], "none"}
  BY DeathStep DEF Typed, MessagesTyped
<1>3. \/ pendingRun' = pendingRun
      \/ pendingRun'.pc = "idle" /\ DOMAIN pendingRun'.batch = {}
  BY DeathStep, RunFacts
<1>4. \/ resendRun' = resendRun
      \/ resendRun'.pc = "idle" /\ DOMAIN resendRun'.list = {}
  BY DeathStep, RunFacts
<1>5. Distinct'
  BY <1>3 DEF SmsInv, Distinct
<1>6. ASSUME NEW c \in Contact PROVE ContactInv(c)'
  <2>1. ContactInv(c)
    BY DEF SmsInv
  <2>2. (Marking(c)' => Marking(c)) /\ (Looping(c)' => Looping(c))
    BY <1>3 DEF Marking, Looping, InBatch
  <2>3. /\ Listed(c)' => Listed(c) /\ resendRun'.list[c] = resendRun.list[c]
        /\ (Resent(c)' => Resent(c)) /\ (Sending(c)' => Sending(c))
        /\ (Resent(c)' => Listed(c)')
    <3>1. Resent(c)' => Listed(c)'
      BY DEF Resent, Listed, Typed, MessagesTyped
    <3>2. QED
      BY <1>4, <3>1 DEF Listed, Resent, Sending
  <2>4. Handed(c)'
    BY <1>1, <1>2, <2>1, <2>2, <2>3 DEF ContactInv, Handed, Deleted, Unserved
  <2>5. FirstUnsent(c)' /\ Outgoing(c)' /\ Held(c)'
    BY <1>1, <1>2, <2>1, <2>3 DEF ContactInv, FirstUnsent, Outgoing, Held
  <2>6. Deleted(c)' = Deleted(c) /\ Good(c)' = Good(c)
    BY <1>1 DEF Deleted, Good
  <2>7. Len(message[c]) \in Nat /\ Limit \in Nat /\ Good(c) \in SUBSET (1 .. Len(message[c]))
        /\ Cardinality(Good(c)) \in Nat
    BY LengthTyped, CountTyped, PartFinite DEF Good
  <2>8. subscriber[c].count_attempt \in Nat
    BY ContactTyped
  <2>9. Counted(c)'
    <3>1. CASE Deleted(c) \/ subscriber[c].message = 0
      BY <1>1, <2>1, <2>6, <3>1 DEF ContactInv, Counted
    <3>2. CASE ~Deleted(c) /\ subscriber[c].message # 0
      <4>1. subscriber[c].count_attempt <= Limit
            /\ Len(message[c]) <= subscriber[c].count_attempt + deaths
                                    + (IF Resent(c) THEN 1 ELSE 0)
        BY <2>1, <3>2 DEF ContactInv, Counted
      <4>2. Len(message[c]) <= subscriber[c].count_attempt + (deaths + 1)
        BY <1>1, <2>7, <2>8, <4>1
      <4>3. Len(message[c]) <= subscriber[c].count_attempt + (deaths + 1)
                                 + (IF Resent(c)' THEN 1 ELSE 0)
        BY <1>1, <2>7, <2>8, <4>2
      <4>4. QED
        BY <1>1, <3>2, <4>1, <4>3 DEF Counted, Limit
    <3>3. QED
      BY <3>1, <3>2
  <2>10. Spared(c)'
    <3>1. CASE Deleted(c) \/ subscriber[c].message = 0
      BY <1>1, <2>6, <3>1 DEF Spared
    <3>2. CASE ~Deleted(c) /\ subscriber[c].message # 0
      <4>1. Cardinality(Good(c) \ {Named(c)}) <= deaths
        BY <2>1, <3>2 DEF ContactInv, Spared
      <4>2. \A x : Cardinality(Good(c) \ {x}) <= Cardinality(Good(c) \ {Named(c)}) + 1
                     /\ Cardinality(Good(c) \ {x}) \in Nat
        BY <2>7, PartOneLess
      <4>3. Cardinality(Good(c) \ {Named(c)}) \in Nat
        BY <4>2
      <4>4. Cardinality(Good(c) \ {Named(c)'}) <= deaths + 1
        <5>1. Cardinality(Good(c) \ {Named(c)'}) <= Cardinality(Good(c) \ {Named(c)}) + 1
              /\ Cardinality(Good(c) \ {Named(c)'}) \in Nat
          BY <4>2
        <5>2. QED
          BY <1>1, <4>1, <4>3, <5>1
      <4>5. QED
        BY <1>1, <2>6, <4>4 DEF Spared
    <3>3. QED
      BY <3>1, <3>2
  <2>11. Bounded(c)'
    <3>1. Len(message[c]) <= Limit + deaths /\ Cardinality(Good(c)) <= 1 + deaths
      BY <2>1 DEF ContactInv, Bounded
    <3>2. Len(message[c]) <= Limit + (deaths + 1) /\ Cardinality(Good(c)) <= 1 + (deaths + 1)
      BY <1>1, <2>7, <3>1
    <3>3. QED
      BY <1>1, <2>6, <3>2 DEF Bounded, Limit
  <2>12. QED
    BY <2>4, <2>5, <2>9, <2>10, <2>11 DEF ContactInv
<1>7. QED
  BY <1>5, <1>6 DEF SmsInv

LEMMA SmsStep == ASSUME Typed, SmsInv, [Next]_vars PROVE SmsInv'
<1>1. Typed'
  BY TypedStep
<1>2. ASSUME NEW c \in Contact, SendStep(c) PROVE SmsInv'
  <2>1. UNCHANGED <<pendingRun, resendRun>>
    BY <1>2 DEF SendStep, SendMessage
  <2>2. QED
    BY <1>1, <1>2, <2>1, SmsSend, SmsSendOthers, RunsFrame DEF SmsInv
<1>3. QED
  BY <1>1, <1>2, SmsUser, SmsContact, SmsImport, SmsTake, SmsMark, SmsLoop, SmsInit, SmsResend,
     SmsDie DEF Next, ImportStep, PendingStep

LEMMA AlwaysSms == Spec => [](Typed /\ SmsInv)
<1>1. Typed /\ SmsInv /\ [Next]_vars => (Typed /\ SmsInv)'
  BY TypedStep, SmsStep
<1>2. QED
  BY InitTyped, InitSms, <1>1, PTL DEF Spec

LEMMA BoundedMessages == Typed /\ SmsInv => MessagesBounded
<1> SUFFICES ASSUME Typed, SmsInv, NEW c \in Contact
             PROVE  /\ Len(message[c]) <= Larger(1, MaxRetry) + deaths
                    /\ Cardinality({k \in DOMAIN message[c] : message[c][k] = "Sent"}) <= 1 + deaths
  BY DEF MessagesBounded
<1> DEFINE sent == {k \in DOMAIN message[c] : message[c][k] = "Sent"}
<1>1. Len(message[c]) <= Limit + deaths /\ Cardinality(Good(c)) <= 1 + deaths
  BY DEF SmsInv, ContactInv, Bounded
<1>2. DOMAIN message[c] = 1 .. Len(message[c]) /\ Len(message[c]) \in Nat
  BY SeqDomain DEF Typed, MessagesTyped
<1>3. sent \in SUBSET Good(c) /\ Good(c) \in SUBSET (1 .. Len(message[c]))
  BY <1>2 DEF Good
<1>4. Cardinality(sent) <= Cardinality(Good(c)) /\ Cardinality(sent) \in Nat
      /\ Cardinality(Good(c)) \in Nat
  BY <1>2, <1>3, PartFewer, PartFinite
<1>5. Cardinality(sent) <= 1 + deaths
  BY <1>1, <1>4, CountTyped
<1>6. QED
  BY <1>1, <1>5 DEF Limit

\* A contact gets no more messages than the larger of one and maxretry, and at most one that
\* was sent, with one more for each worker that died: however the row is shared among
\* check_sms_campaign_pendingcall, init_smsrequest and the resend task.
THEOREM MessagesStayBounded == Spec => []MessagesBounded
<1>1. QED
  BY AlwaysSms, BoundedMessages, PTL

-----------------------------------------------------------------------------
(***************************************************************************)
(* The outcome of a contact.                                               *)
(***************************************************************************)
\* No task holds the row of a contact that is complete to save it again.
LEMMA Finished ==
  ASSUME Typed, SmsInv, NEW c \in Contact, subscriber[c].status = "COMPLETE"
  PROVE  /\ subscriber[c] \notin {NoRow, NewRow, DeletedRow} /\ c \in contact
         /\ ~Marking(c) /\ ~Looping(c) /\ ~Listed(c) /\ initTask[c] # "create"
<1>1. ContactInv(c) /\ subscriber[c] \notin {NoRow, NewRow, DeletedRow}
  BY RowFacts DEF SmsInv
<1>2. subscriber[c].message # 0 /\ ~Listed(c)
  BY <1>1 DEF ContactInv, Held
<1>3. c \in contact /\ ~Marking(c) /\ (Looping(c) => message[c] = <<>>)
  BY <1>1 DEF ContactInv, Handed, Unserved
<1>4. ~Looping(c)
  BY <1>2, <1>3, NothingNamed
<1>5. initTask[c] # "create"
  BY <1>1, <1>2 DEF ContactInv, FirstUnsent
<1>6. QED
  BY <1>1, <1>2, <1>3, <1>4, <1>5

LEMMA FinalStep ==
  ASSUME Typed, SmsInv, Next, NEW c \in Contact, subscriber[c].status = "COMPLETE"
  PROVE  subscriber'[c] \in {subscriber[c], DeletedRow}
<1> DEFINE Goal == subscriber'[c] \in {subscriber[c], DeletedRow}
<1>1. /\ subscriber[c] \notin {NoRow, NewRow, DeletedRow} /\ c \in contact
      /\ ~Marking(c) /\ ~Looping(c) /\ ~Listed(c) /\ initTask[c] # "create"
  BY Finished
<1>2. subscriber \in [Contact -> Row \cup {NoRow, DeletedRow}]
  BY DEF Typed, RowsTyped
<1>3. CASE Start \/ Stop \/ SpoolContact \/ SpoolNoCampaign \/ SendLoose \/ Die
  BY <1>3 DEF Start, Stop, SpoolContact, SpoolNoCampaign, SendLoose, Die, rows
<1>4. CASE ImportStep
  BY <1>1, <1>4 DEF ImportStep, ImportRead, ImportInsert, ImportSave, rows
<1>5. ASSUME NEW d \in Contact, AddContact(d) \/ DeleteContact(d) PROVE Goal
  BY <1>1, <1>2, <1>5 DEF AddContact, DeleteContact
<1>6. ASSUME NEW d \in Contact, InitStep(d) \/ SendStep(d) PROVE Goal
  BY <1>1, <1>2, <1>6 DEF InitStep, InitCreate, InitSave, InitSend, SendStep, SendMessage, rows
<1>7. CASE PendingStep
  <2>1. CASE TakePending \/ SendInit \/ BatchBreaks
    BY <2>1 DEF TakePending, SendInit, BatchBreaks, rows
  <2>2. CASE MarkInProcess
    <3>1. ~\E i \in DOMAIN pendingRun.batch : pendingRun.batch[i] = c
      BY <1>1, <2>2 DEF MarkInProcess, Marking, InBatch
    <3>2. QED
      BY <2>2, <3>1 DEF MarkInProcess
  <2>3. CASE RefuseContact
    <3>1. \A d : d = Head(pendingRun.batch) => Looping(d)
      <4>1. pendingRun.pc = "loop"
        BY <2>3 DEF RefuseContact
      <4>2. 1 \in DOMAIN pendingRun.batch /\ Head(pendingRun.batch) = pendingRun.batch[1]
        BY <4>1, RestRun DEF Typed, RowsTyped, Spooling
      <4>3. QED
        BY <4>1, <4>2 DEF Looping, InBatch
    <3>2. QED
      BY <1>1, <1>2, <2>3, <3>1 DEF RefuseContact
  <2>4. QED
    BY <1>7, <2>1, <2>2, <2>3 DEF PendingStep
<1>8. CASE ResendStep
  <2>1. CASE ResendRead \/ ResendSend
    BY <2>1 DEF ResendRead, ResendSend, rows
  <2>2. CASE ResendSave
    <3>1. resendRun.c # c
      BY <1>1, <2>2 DEF ResendSave, Listed, Typed, MessagesTyped
    <3>2. QED
      BY <1>2, <2>2, <3>1 DEF ResendSave
  <2>3. ASSUME NEW d \in Contact, ResendSettle(d) \/ ResendCreate(d) \/ ResendBreaks(d)
        PROVE  Goal
    <3>1. CASE ResendSettle(d)
      <4>1. d # c
        BY <1>1, <3>1 DEF ResendSettle, Listed
      <4>2. QED
        BY <1>2, <3>1, <4>1 DEF ResendSettle
    <3>2. CASE ResendCreate(d) \/ ResendBreaks(d)
      BY <3>2 DEF ResendCreate, ResendBreaks, rows
    <3>3. QED
      BY <2>3, <3>1, <3>2
  <2>4. QED
    BY <1>8, <2>1, <2>2, <2>3 DEF ResendStep
<1>9. QED
  BY <1>3, <1>4, <1>5, <1>6, <1>7, <1>8 DEF Next

\* A contact whose message the gateway accepted keeps the status COMPLETE until it is deleted,
\* although the import, check_sms_campaign_pendingcall, init_smsrequest and the resend task
\* all save rows they read before.
THEOREM CompleteStaysFinal == Spec => CompleteIsFinal
<1>1. ASSUME Typed, SmsInv, [Next]_vars
      PROVE  [\A c \in Contact : subscriber[c].status = "COMPLETE"
                => subscriber'[c] \in {subscriber[c], DeletedRow}]_vars
  BY <1>1, FinalStep
<1>2. QED
  BY <1>1, AlwaysSms, PTL DEF Spec, CompleteIsFinal
=============================================================================
