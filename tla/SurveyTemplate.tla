--------------------------- MODULE SurveyTemplate ---------------------------
(***************************************************************************)
(* Survey templates and their copies: the editor (survey/views.py), the    *)
(* copy made when a campaign starts or a survey is sealed                  *)
(* (copy_survey_template), the duplicate of a campaign and its survey      *)
(* (create_duplicate_survey), export and import.                           *)
(*                                                                         *)
(* Every copy is made section by section, then branching by branching,     *)
(* without a transaction, while users edit the template and while the view *)
(* and the task that both may start the campaign save the row they read.   *)
(* A copied section is named here by the section it was copied from: the   *)
(* code finds it so too (Section.section_template, old_new_section_dict,   *)
(* new_old_section).                                                       *)
(***************************************************************************)
EXTENDS Integers, FiniteSets

Sets == INSTANCE FiniteSetsExt

CONSTANTS
  MaxSection,   \* bound: sections the editor creates
  MaxGraph,     \* bound: surveys, templates and files that exist
  MaxRequest,   \* bound: requests of users and runs of collect_subscriber
  MaxFaults,    \* bound: processes that die
  Process,      \* web processes and Celery workers
  Env           \* what users and processes may do, see EnvBehaviour

EnvBehaviour == {
  "edit",        \* sections and branchings of a template are edited
  "delete",      \* sections and templates are deleted
  "seal",        \* a template is sealed without a campaign
  "duplicate",   \* a campaign is duplicated
  "file",        \* a template is exported and imported
  "form",        \* the form of the campaign is opened, and submitted later
  "collect",     \* collect_subscriber runs while the campaign starts
  "crash" }      \* a process dies

ASSUME BoundAssumption ==
  /\ MaxSection \in Nat /\ MaxSection >= 2      \* the initial template has two,
  /\ MaxGraph \in Nat /\ MaxGraph >= 3          \* with a file and a survey of it
  /\ MaxRequest \in Nat /\ MaxFaults \in Nat
ASSUME EnvAssumption == Env \subseteq EnvBehaviour

VARIABLES
  graph,        \* surveys, templates and exported files: sections and branchings
  campaign,     \* rows of dialer_campaign: a campaign and its duplicate
  task,         \* what each process does, with the rows it has read
  signal,       \* post_save_add_script is connected in the web process
  spoiled,      \* campaigns that lost their survey, see Spoil
  done,         \* copies that ran to their end
  lastSection,  \* the last id of a section template
  requests, faults   \* what counts against the bounds

vars == <<graph, campaign, task, signal, spoiled, done, lastSection, requests, faults>>

Section == 1 .. MaxSection
Graph == 1 .. MaxGraph
Campaign == 1 .. 2
Original == 1
Duplicate == 2
Hangup == 0                       \* a branching whose goto is empty

\* The type of a section, told apart by the branching it is born with: play stands for
\* messages, recordings, transfers, conferences and SMS, menu for the types that ask
\* for a key, end for hangup and DNC.
Kind == {"play", "menu", "end"}
Keys == {"0", "timeout"}
DefaultKeys == [play |-> {"0"}, menu |-> {"timeout"}, end |-> {}]
FormKeys == [play |-> {"0"}, menu |-> Keys, end |-> {}]

SectionRow == [order : Nat, kind : Kind]
Branch == [section : Section, keys : Keys, goto : Section \union {Hangup}]
SortOfGraph == {"none", "template", "deleted", "survey", "file"}
\* owner is the campaign of a survey, 0 for a sealed one and for all that is no survey.
Empty(sort, owner) ==
  [sort |-> sort, owner |-> owner, section |-> [s \in {} |-> 0], branch |-> {}]

CampaignRow == [status : {"none", "PAUSE", "START"}, started : BOOLEAN,
                content : Graph, duplicated : BOOLEAN]
NoCampaign == [status |-> "none", started |-> FALSE, content |-> 1, duplicated |-> FALSE]

(***************************************************************************)
(* One shape for every task.  who says which handler runs; src is read and *)
(* dst written; list holds the section rows the handler read and todo      *)
(* those it has yet to treat; row is its copy of campaign id.  clean holds *)
(* until somebody changes src (nothing in the code depends on it).         *)
(***************************************************************************)
Pc == {"idle", "add_script", "reorder", "save_started", "copy_create", "copy_attach",
       "copy_list", "copy_section", "copy_branch", "save_object_id", "form", "collect_save"}
Who == {"none", "editor", "view", "task", "seal", "duplicate", "export", "import",
        "change", "collect"}
Listed == [id : Section, order : Nat, kind : Kind]
Task == [pc : Pc, who : Who, src : Graph, dst : Graph, section : Section \union {0},
         list : SUBSET Listed, todo : SUBSET Listed, id : Campaign, row : CampaignRow,
         clean : BOOLEAN]
Idle == [pc |-> "idle", who |-> "none", src |-> 1, dst |-> 1, section |-> 0,
         list |-> {}, todo |-> {}, id |-> Original, row |-> NoCampaign, clean |-> TRUE]

-----------------------------------------------------------------------------
(***************************************************************************)
(* Helpers.                                                                *)
(***************************************************************************)
IsTemplate(g) == graph[g].sort = "template"
IsSurvey(g) == graph[g].sort = "survey"
SectionsOf(g) == DOMAIN graph[g].section
Rows(g) == {[id |-> s, order |-> graph[g].section[s].order, kind |-> graph[g].section[s].kind]
              : s \in SectionsOf(g)}

\* A new object gets the next id.
IsNextGraph(g) == graph[g].sort = "none" /\ \A h \in 1 .. g - 1 : graph[h].sort # "none"

Put(rows, s, row) == [t \in DOMAIN rows \union {s} |-> IF t = s THEN row ELSE rows[t]]
Without(rows, s) == [t \in DOMAIN rows \ {s} |-> rows[t]]

\* Sortable.save of adminsortable: a new row goes behind all others.
NextOrder(rows) == Sets!Max({0} \union {rows[s].order : s \in DOMAIN rows}) + 1
Appended(rows, s, kind) == Put(rows, s, [order |-> NextOrder(rows), kind |-> kind])

\* Mutant: the branchings that lead to the section stay.
Deleted_NoCascade(G, s) ==
  [G EXCEPT !.section = Without(@, s), !.branch = {b \in @ : b.section # s}]

\* Django deletes a section with the branchings from it and, by the cascade, to it.
Deleted(G, s) ==
  [G EXCEPT !.section = Without(@, s),
            !.branch = {b \in @ : b.section # s /\ b.goto # s}]

UniqueKeys(g, b) == \A c \in graph[g].branch : c.section = b.section => c.keys # b.keys

Goto(p, t) == task' = [task EXCEPT ![p] = t]
End(p) == Goto(p, Idle)

\* The tasks after a change of graph g by process p, which goes on with t.
Changes(g, p, t) ==
  task' = [q \in Process |->
             LET u == IF q = p THEN t ELSE task[q]
             IN IF u.src = g /\ u.pc \in {"copy_section", "copy_branch"}
                THEN [u EXCEPT !.clean = FALSE] ELSE u]

Request(n) == requests + n <= MaxRequest /\ requests' = requests + n

\* The campaign is left without a whole survey of its own: its copy broke off, or a
\* row saved late points to the template again.
Spoil(t) == IF t.who \in {"view", "task", "duplicate"} THEN spoiled \union {t.id} ELSE spoiled

-----------------------------------------------------------------------------
\* A template of two sections, as the editor leaves it, and a file.  Either the campaign
\* was started and plays a copy, and the file is an export of the template; or it names
\* the template, and the file was exported while its second section was being added.
Example ==
  [sort |-> "template", owner |-> 0,
   section |-> [s \in 1 .. 2 |-> [order |-> s, kind |-> IF s = 1 THEN "menu" ELSE "play"]],
   branch |-> {[section |-> 1, keys |-> "timeout", goto |-> 2],
               [section |-> 1, keys |-> "0", goto |-> Hangup],
               [section |-> 2, keys |-> "0", goto |-> 1]}]
Exported(S) ==
  [Example EXCEPT !.sort = "file", !.section = [s \in S |-> @[s]],
                  !.branch = {b \in @ : b.section \in S}]

Init ==
  /\ \E begun \in BOOLEAN :
       /\ graph = [g \in Graph |->
            CASE g = 1 -> Example
              [] g = 2 -> Exported(IF begun THEN {1, 2} ELSE {1})
              [] g = 3 /\ begun -> [Example EXCEPT !.sort = "survey", !.owner = Original]
              [] OTHER -> Empty("none", 0)]
       /\ campaign = [c \in Campaign |->
            CASE c = Duplicate -> NoCampaign
              [] begun -> [status |-> "START", started |-> TRUE, content |-> 3,
                           duplicated |-> FALSE]
              [] OTHER -> [status |-> "PAUSE", started |-> FALSE, content |-> 1,
                           duplicated |-> FALSE]]
       /\ done = IF begun THEN {2, 3} ELSE {2}
  /\ task = [p \in Process |-> Idle]
  /\ signal = TRUE
  /\ spoiled = {}
  /\ lastSection = 2
  /\ requests = 0 /\ faults = 0

-----------------------------------------------------------------------------
(***************************************************************************)
(* The editor: one request of the web server each, but for the row it      *)
(* inserts first and completes in post_save_add_script, and the rows it    *)
(* renumbers one by one before it deletes a section.                       *)
(***************************************************************************)
\* Nobody edits a survey while he uploads it.
Editable(g) == IsTemplate(g) /\ ~\E q \in Process : task[q].who = "import" /\ task[q].dst = g

ToEdit(p, g) == "edit" \in Env /\ task[p] = Idle /\ Editable(g) /\ Request(1)

\* survey_add: the next object is an empty template.
SurveyAdd(p, g) ==
  /\ "edit" \in Env /\ task[p] = Idle /\ IsNextGraph(g)
  /\ Request(1)
  /\ graph' = [graph EXCEPT ![g] = Empty("template", 0)]
  /\ UNCHANGED <<campaign, task, signal, spoiled, done, lastSection, faults>>

SectionAdd(p, g, kind) ==
  /\ ToEdit(p, g)
  /\ lastSection < MaxSection
  /\ lastSection' = lastSection + 1
  /\ LET s == lastSection + 1
         G == [graph[g] EXCEPT !.section = Appended(@, s, kind)]
         row == [id |-> s, order |-> G.section[s].order, kind |-> kind] IN
       /\ graph' = [graph EXCEPT ![g] = G]
       /\ Changes(g, p, IF signal
                        THEN [Idle EXCEPT !.pc = "add_script", !.who = "editor", !.src = g,
                                          !.section = s, !.todo = {row}]
                        ELSE Idle)
  /\ UNCHANGED <<campaign, signal, spoiled, done, faults>>

\* post_save_add_script: saves the row a second time, then adds its first branching.
\* It fails if the template is gone, or the key is taken already.
AddScript(p) ==
  LET t == task[p]  g == t.src IN
  /\ t.pc = "add_script"
  /\ IF ~IsTemplate(g) THEN End(p) /\ UNCHANGED graph
     ELSE \E row \in t.todo :
       LET new == {[section |-> row.id, keys |-> k, goto |-> Hangup] : k \in DefaultKeys[row.kind]}
       IN /\ graph' = [graph EXCEPT
               ![g].section = Put(@, row.id, [order |-> row.order, kind |-> row.kind]),
               ![g].branch = @ \union {b \in new : UniqueKeys(g, b)}]
          /\ Changes(g, p, Idle)
  /\ UNCHANGED <<campaign, signal, spoiled, done, lastSection, requests, faults>>

\* section_change, section_script_change; the type stands for all that a section says.
SectionChange(p, g, s, kind) ==
  /\ ToEdit(p, g)
  /\ s \in SectionsOf(g)
  /\ kind # graph[g].section[s].kind
  /\ graph' = [graph EXCEPT ![g].section[s].kind = kind]
  /\ Changes(g, p, Idle)
  /\ UNCHANGED <<campaign, signal, spoiled, done, lastSection, faults>>

\* A branching of the form: goto is another section of the survey, or nothing.
FormBranches(g, s) ==
  {[section |-> s, keys |-> k, goto |-> t] :
     k \in FormKeys[graph[g].section[s].kind], t \in (SectionsOf(g) \ {s}) \union {Hangup}}

BranchAdd(p, g, s) ==
  /\ ToEdit(p, g)
  /\ s \in SectionsOf(g)
  /\ \E b \in FormBranches(g, s) :
       /\ UniqueKeys(g, b)
       /\ graph' = [graph EXCEPT ![g].branch = @ \union {b}]
  /\ Changes(g, p, Idle)
  /\ UNCHANGED <<campaign, signal, spoiled, done, lastSection, faults>>

BranchChange(p, g, old) ==
  /\ ToEdit(p, g)
  /\ old \in graph[g].branch
  /\ \E b \in FormBranches(g, old.section) \ {old} :
       /\ b.keys # old.keys => UniqueKeys(g, b)
       /\ graph' = [graph EXCEPT ![g].branch = (@ \ {old}) \union {b}]
  /\ Changes(g, p, Idle)
  /\ UNCHANGED <<campaign, signal, spoiled, done, lastSection, faults>>

BranchDelete(p, g, old) ==
  /\ ToEdit(p, g)
  /\ old \in graph[g].branch
  /\ graph' = [graph EXCEPT ![g].branch = @ \ {old}]
  /\ Changes(g, p, Idle)
  /\ UNCHANGED <<campaign, signal, spoiled, done, lastSection, faults>>

ToDelete(p, g) == "delete" \in Env /\ task[p] = Idle /\ Editable(g) /\ Request(1)

\* section_delete reads the sections behind this one ...
SectionDelete(p, g, s) ==
  /\ ToDelete(p, g)
  /\ s \in SectionsOf(g)
  /\ Goto(p, [Idle EXCEPT !.pc = "reorder", !.who = "editor", !.src = g, !.section = s,
                !.todo = {r \in Rows(g) : r.order > graph[g].section[s].order}])
  /\ UNCHANGED <<graph, campaign, signal, spoiled, done, lastSection, faults>>

\* ... saves each of these rows whole, also one that was changed or deleted meanwhile ...
Reorder(p) ==
  LET t == task[p] IN
  /\ t.pc = "reorder"
  /\ \E r \in t.todo :
       IF ~IsTemplate(t.src) THEN End(p) /\ UNCHANGED graph
       ELSE /\ graph' = [graph EXCEPT ![t.src].section =
                           Put(@, r.id, [order |-> r.order - 1, kind |-> r.kind])]
            /\ Changes(t.src, p, [t EXCEPT !.todo = @ \ {r}])
  /\ UNCHANGED <<campaign, signal, spoiled, done, lastSection, requests, faults>>

\* ... and deletes the branchings and the section.
ReorderEnds(p) ==
  LET t == task[p] IN
  /\ t.pc = "reorder" /\ t.todo = {}
  /\ graph' = [graph EXCEPT ![t.src] = Deleted(@, t.section)]
  /\ Changes(t.src, p, Idle)
  /\ UNCHANGED <<campaign, signal, spoiled, done, lastSection, requests, faults>>

\* A deleted template leaves the campaigns that name it alone.
SurveyDel(p, g) ==
  /\ ToDelete(p, g)
  /\ graph' = [graph EXCEPT ![g] = Empty("deleted", 0)]
  /\ Changes(g, p, Idle)
  /\ UNCHANGED <<campaign, signal, spoiled, done, lastSection, faults>>

-----------------------------------------------------------------------------
(***************************************************************************)
(* Copying: of a template to a survey (copy_survey_template, called by the *)
(* view and the task that start a campaign and by seal_survey), of a       *)
(* survey to a survey (create_duplicate_survey), of a template to a file   *)
(* (export_survey) and of a file to a template (import_survey).            *)
(***************************************************************************)
SortOfCopy(who) ==
  CASE who = "export" -> "file" [] who = "import" -> "template" [] OTHER -> "survey"

\* Mutant: the id of the content for the id of the campaign.
OwnerOfCopy_Content(t) == IF t.who \in {"view", "task", "duplicate"} THEN t.row.content ELSE 0

OwnerOfCopy(t) == IF t.who \in {"view", "task", "duplicate"} THEN t.id ELSE 0

Exists(g) == graph[g].sort \notin {"none", "deleted"}

\* Starting a campaign whose template was deleted fails here, after it was marked.
CopyCreate(p) ==
  LET t == task[p] IN
  /\ t.pc = "copy_create"
  /\ IF ~Exists(t.src)
     THEN /\ End(p)
          /\ spoiled' = Spoil(t)
          /\ UNCHANGED <<graph, signal>>
     ELSE /\ \E g \in Graph :
               /\ IsNextGraph(g)
               /\ graph' = [graph EXCEPT ![g] = Empty(SortOfCopy(t.who), OwnerOfCopy(t))]
               /\ Goto(p, [t EXCEPT !.dst = g,
                    !.pc = IF t.who \in {"view", "task"} THEN "copy_attach" ELSE "copy_list"])
          /\ signal' = (signal /\ t.who # "import")
          /\ UNCHANGED spoiled
  /\ UNCHANGED <<campaign, done, lastSection, requests, faults>>

\* The campaign points to the survey from now on, empty as it is.
CopyAttach(p) ==
  LET t == task[p] IN
  /\ t.pc = "copy_attach"
  /\ campaign' = [campaign EXCEPT ![t.id].content = t.dst]
  /\ Goto(p, [t EXCEPT !.pc = "copy_list"])
  /\ UNCHANGED <<graph, signal, spoiled, done, lastSection, requests, faults>>

\* The sections are listed once, for both loops.
CopyList(p) ==
  LET t == task[p] IN
  /\ t.pc = "copy_list"
  /\ Goto(p, [t EXCEPT !.pc = "copy_section", !.list = Rows(t.src), !.todo = Rows(t.src),
                       !.clean = TRUE])
  /\ UNCHANGED <<graph, campaign, signal, spoiled, done, lastSection, requests, faults>>

CopySection(p) ==
  LET t == task[p] IN
  /\ t.pc = "copy_section"
  /\ \E r \in t.todo :
       /\ \A q \in t.todo : r.order <= q.order
       /\ graph' = [graph EXCEPT ![t.dst].section = Appended(@, r.id, r.kind)]
       /\ Changes(t.dst, p, [t EXCEPT !.todo = @ \ {r}])
  /\ UNCHANGED <<campaign, signal, spoiled, done, lastSection, requests, faults>>

SectionsCopied(p) ==
  /\ task[p].pc = "copy_section" /\ task[p].todo = {}
  /\ Goto(p, [task[p] EXCEPT !.pc = "copy_branch", !.todo = task[p].list])
  /\ UNCHANGED <<graph, campaign, signal, spoiled, done, lastSection, requests, faults>>

BranchesOf(g, s) == {b \in graph[g].branch : b.section = s}
Copied(t) == {r.id : r \in t.list} \union {Hangup}

\* Mutant: branchings without a goto are left out.
CopyBranch_SkipsHangup(p) ==
  LET t == task[p] IN
  /\ t.pc = "copy_branch"
  /\ \E r \in t.todo :
       /\ t.who = "export" \/ \A b \in BranchesOf(t.src, r.id) : b.goto \in Copied(t)
       /\ graph' = [graph EXCEPT ![t.dst].branch =
                       @ \union {b \in BranchesOf(t.src, r.id) : b.goto # Hangup}]
       /\ Changes(t.dst, p, [t EXCEPT !.todo = @ \ {r}])
  /\ UNCHANGED <<campaign, signal, spoiled, done, lastSection, requests, faults>>

\* The branchings are read when their section is treated; export writes any goto.
CopyBranch(p) ==
  LET t == task[p] IN
  /\ t.pc = "copy_branch"
  /\ \E r \in t.todo :
       /\ t.who = "export" \/ \A b \in BranchesOf(t.src, r.id) : b.goto \in Copied(t)
       /\ graph' = [graph EXCEPT ![t.dst].branch = @ \union BranchesOf(t.src, r.id)]
       /\ Changes(t.dst, p, [t EXCEPT !.todo = @ \ {r}])
  /\ UNCHANGED <<campaign, signal, spoiled, done, lastSection, requests, faults>>

\* A goto that was not copied ends the request or the task with an exception, behind any
\* of the branchings of that section; after an import the signal stays disconnected.
CopyBreaksOff(p) ==
  LET t == task[p] IN
  /\ t.pc = "copy_branch" /\ t.who # "export"
  /\ \E r \in t.todo :
       LET B == BranchesOf(t.src, r.id) IN
       /\ \E b \in B : b.goto \notin Copied(t)
       /\ \E C \in SUBSET {b \in B : b.goto \in Copied(t)} :
            graph' = [graph EXCEPT ![t.dst].branch = @ \union C]
  /\ Changes(t.dst, p, Idle)
  /\ spoiled' = Spoil(t)
  /\ UNCHANGED <<campaign, signal, done, lastSection, requests, faults>>

\* A copy of a template that was deleted on the way, and the duplicate of a survey that
\* was not copied to its end, end no worse than others, but hold less than they should.
Torn(t) ==
  \/ ~Exists(t.src)
  \/ t.who = "duplicate" /\ (~t.clean \/ t.src \notin done)

CopyEnds(p) ==
  LET t == task[p] IN
  /\ t.pc = "copy_branch" /\ t.todo = {}
  /\ IF Torn(t) THEN spoiled' = Spoil(t) /\ UNCHANGED done
                ELSE done' = done \union {t.dst} /\ UNCHANGED spoiled
  /\ signal' = (signal \/ t.who = "import")
  /\ IF t.who = "duplicate" THEN Goto(p, [t EXCEPT !.pc = "save_object_id"]) ELSE End(p)
  /\ UNCHANGED <<graph, campaign, lastSection, requests, faults>>

StartCopy(p, who, g) ==
  /\ task[p] = Idle
  /\ Request(1)
  /\ Goto(p, [Idle EXCEPT !.pc = "copy_create", !.who = who, !.src = g])
  /\ UNCHANGED <<graph, campaign, signal, spoiled, done, lastSection, faults>>

SealSurvey(p, g) == "seal" \in Env /\ IsTemplate(g) /\ StartCopy(p, "seal", g)
ExportSurvey(p, g) == "file" \in Env /\ Editable(g) /\ StartCopy(p, "export", g)
ImportSurvey(p, g) ==
  "file" \in Env /\ graph[g].sort = "file" /\ g \in done /\ StartCopy(p, "import", g)

-----------------------------------------------------------------------------
(***************************************************************************)
(* The row of the campaign.                                                *)
(***************************************************************************)
\* update_campaign_status_cust: the status is saved first, and that is all that
\* update_campaign_status_admin does ...
UpdateStatus(p, c, status) ==
  /\ task[p] = Idle /\ campaign[c].status # "none"
  /\ Request(1)
  /\ LET row == [campaign[c] EXCEPT !.status = status] IN
       /\ campaign' = [campaign EXCEPT ![c] = row]
       /\ \/ /\ status = "START" /\ ~row.started
             /\ Goto(p, [Idle EXCEPT !.pc = "save_started", !.who = "view",
                                     !.id = c, !.row = row])
          \/ UNCHANGED task
  /\ UNCHANGED <<graph, signal, spoiled, done, lastSection, faults>>

\* ... pending_call_processing, sent for every campaign that runs, may see the same row;
\* only_one keeps a second one away ...
PendingCallProcessing(p, c) ==
  /\ task[p] = Idle
  /\ \A q \in Process : task[q].who = "task" => task[q].id # c
  /\ campaign[c].status = "START" /\ ~campaign[c].started
  /\ Goto(p, [Idle EXCEPT !.pc = "save_started", !.who = "task", !.id = c, !.row = campaign[c]])
  /\ UNCHANGED <<graph, campaign, signal, spoiled, done, lastSection, requests, faults>>

\* Mutant: looks at the flag again before it copies, to copy only once.
SaveStarted_ChecksFlag(p) ==
  LET t == task[p]
      row == [t.row EXCEPT !.started = TRUE] IN
  /\ t.pc = "save_started"
  /\ campaign' = [campaign EXCEPT ![t.id] = row]
  /\ IF graph[row.content].sort = "survey" \/ campaign[t.id].started THEN End(p)
     ELSE Goto(p, [t EXCEPT !.pc = "copy_create", !.src = row.content])
  /\ UNCHANGED <<graph, signal, spoiled, done, lastSection, requests, faults>>

\* ... and both save their row with has_been_started set, and copy if it names a template.
SaveStarted(p) ==
  LET t == task[p]
      row == [t.row EXCEPT !.started = TRUE] IN
  /\ t.pc = "save_started"
  /\ campaign' = [campaign EXCEPT ![t.id] = row]
  /\ IF graph[row.content].sort = "survey" THEN End(p)
     ELSE Goto(p, [t EXCEPT !.pc = "copy_create", !.src = row.content])
  /\ UNCHANGED <<graph, signal, spoiled, done, lastSection, requests, faults>>

\* A late save takes the survey from a campaign that will not be copied again.
Loses(c, row) == row.started /\ ~IsSurvey(row.content) /\ IsSurvey(campaign[c].content)
SaveLate(c, row) ==
  /\ campaign' = [campaign EXCEPT ![c] = row]
  /\ spoiled' = IF Loses(c, row) THEN spoiled \union {c} ELSE spoiled

\* collect_subscriber is sent for every campaign that runs, and saves the row it read.
CollectSubscriber(p, c) ==
  /\ "collect" \in Env /\ task[p] = Idle
  /\ \A q \in Process : task[q].who # "collect"
  /\ campaign[c].status = "START"
  /\ Request(1)
  /\ Goto(p, [Idle EXCEPT !.pc = "collect_save", !.who = "collect", !.id = c, !.row = campaign[c]])
  /\ UNCHANGED <<graph, campaign, signal, spoiled, done, lastSection, faults>>

CollectSave(p) ==
  /\ task[p].pc = "collect_save"
  /\ SaveLate(task[p].id, task[p].row)
  /\ End(p)
  /\ UNCHANGED <<graph, signal, done, lastSection, requests, faults>>

\* campaign_change: the form shows the row ...
OpenForm(p, c) ==
  /\ "form" \in Env /\ task[p] = Idle /\ campaign[c].status # "none"
  /\ Request(1)
  /\ Goto(p, [Idle EXCEPT !.pc = "form", !.who = "change", !.id = c, !.row = campaign[c]])
  /\ UNCHANGED <<graph, campaign, signal, spoiled, done, lastSection, faults>>

\* ... and what it shows or the user chooses is saved to the row as it is when the form
\* comes back.  The form of a campaign that runs or was started is locked and carries
\* what the row named (selected_content_object); otherwise the user chooses a template,
\* or the survey of a duplicated campaign.  Anything else is refused.
Locked(row) == row.status = "START" \/ row.started
Choices(c) ==
  {g \in Graph : IF campaign[c].duplicated THEN IsSurvey(g) /\ graph[g].owner = c
                                           ELSE IsTemplate(g)}
Posted(t) ==
  IF ~Locked(t.row) THEN Choices(t.id)
  ELSE IF Locked(campaign[t.id]) THEN {t.row.content} ELSE {}

CampaignChange(p) ==
  LET t == task[p] IN
  /\ t.pc = "form"
  /\ \/ \E g \in Posted(t) : SaveLate(t.id, [campaign[t.id] EXCEPT !.content = g])
     \/ UNCHANGED <<campaign, spoiled>>
  /\ End(p)
  /\ UNCHANGED <<graph, signal, done, lastSection, requests, faults>>

\* campaign_duplicate: the new campaign names the survey of the old one at first.
CampaignDuplicate(p) ==
  /\ "duplicate" \in Env /\ task[p] = Idle
  /\ campaign[Duplicate].status = "none"
  /\ Request(1)
  /\ LET row == [campaign[Original] EXCEPT !.status = "PAUSE", !.started = FALSE,
                                           !.duplicated = TRUE] IN
       /\ campaign' = [campaign EXCEPT ![Duplicate] = row]
       /\ IF graph[row.content].sort = "survey"
          THEN Goto(p, [Idle EXCEPT !.pc = "copy_create", !.who = "duplicate",
                                    !.src = row.content, !.id = Duplicate, !.row = row])
          ELSE UNCHANGED task
  /\ UNCHANGED <<graph, signal, spoiled, done, lastSection, faults>>

SaveObjectId(p) ==
  LET t == task[p] IN
  /\ t.pc = "save_object_id"
  /\ campaign' = [campaign EXCEPT ![t.id] = [t.row EXCEPT !.content = t.dst]]
  /\ End(p)
  /\ UNCHANGED <<graph, signal, spoiled, done, lastSection, requests, faults>>

\* A process dies; a web process comes back with the signal connected.
Crash(p) ==
  LET t == task[p] IN
  /\ "crash" \in Env /\ t # Idle /\ faults < MaxFaults
  /\ faults' = faults + 1
  /\ End(p)
  /\ spoiled' = IF t.pc = "save_started" THEN spoiled ELSE Spoil(t)
  /\ signal' = (signal \/ t.who = "import")
  /\ UNCHANGED <<graph, campaign, done, lastSection, requests>>

-----------------------------------------------------------------------------
CopyStep(p) ==
  \/ CopyCreate(p) \/ CopyAttach(p) \/ CopyList(p) \/ CopySection(p) \/ SectionsCopied(p)
  \/ CopyBranch(p) \/ CopyBreaksOff(p) \/ CopyEnds(p)

TaskStep(p) ==
  \/ CopyStep(p)
  \/ AddScript(p) \/ Reorder(p) \/ ReorderEnds(p)
  \/ SaveStarted(p) \/ CollectSave(p) \/ CampaignChange(p) \/ SaveObjectId(p)

Edit(p, g) ==
  \/ \E kind \in Kind : SectionAdd(p, g, kind)
  \/ \E s \in Section, kind \in Kind : SectionChange(p, g, s, kind)
  \/ \E s \in Section : BranchAdd(p, g, s) \/ SectionDelete(p, g, s)
  \/ \E b \in graph[g].branch : BranchChange(p, g, b) \/ BranchDelete(p, g, b)
  \/ SurveyAdd(p, g) \/ SurveyDel(p, g)

UserRequest(p) ==
  /\ task[p] = Idle /\ requests < MaxRequest
  /\ \/ \E g \in Graph :
          Edit(p, g) \/ SealSurvey(p, g) \/ ExportSurvey(p, g) \/ ImportSurvey(p, g)
     \/ \E c \in Campaign :
          OpenForm(p, c) \/ \E status \in {"PAUSE", "START"} : UpdateStatus(p, c, status)
     \/ CampaignDuplicate(p)

Next ==
  \E p \in Process :
    \/ TaskStep(p) \/ UserRequest(p) \/ Crash(p)
    \/ \E c \in Campaign : PendingCallProcessing(p, c) \/ CollectSubscriber(p, c)

Spec == Init /\ [][Next]_vars

(***************************************************************************)
(* Fairness.  A request or task that runs goes on, a form comes back or is *)
(* left (an action of its own that does nothing), and beat keeps sending   *)
(* pending_call_processing.  No request, collection or death is assumed.   *)
(***************************************************************************)
FairSpec ==
  /\ Spec
  /\ \A p \in Process : WF_vars(TaskStep(p))
  /\ \A c \in Campaign : WF_vars(\E p \in Process : PendingCallProcessing(p, c))

-----------------------------------------------------------------------------
(***************************************************************************)
(* Properties.                                                             *)
(***************************************************************************)
TypeOK ==
  /\ \A g \in Graph :
       /\ DOMAIN graph[g] = {"sort", "owner", "section", "branch"}
       /\ graph[g].sort \in SortOfGraph /\ graph[g].owner \in Campaign \union {0}
       /\ SectionsOf(g) \subseteq 1 .. lastSection
       /\ \A s \in SectionsOf(g) : graph[g].section[s] \in SectionRow
       /\ graph[g].branch \subseteq Branch
  /\ campaign \in [Campaign -> CampaignRow]
  /\ task \in [Process -> Task]
  /\ signal \in BOOLEAN
  /\ spoiled \subseteq Campaign /\ done \subseteq Graph
  /\ lastSection \in 0 .. MaxSection
  /\ requests \in 0 .. MaxRequest /\ faults \in 0 .. MaxFaults

\* However edits, copies, duplicates and imports overlap or break off, no branching
\* leaves its survey: goto is a section of the same survey, and of each section and keys
\* there is one branching.
BranchesClosed ==
  \A g \in Graph : graph[g].sort \in {"template", "survey"} =>
    /\ \A b \in graph[g].branch :
         b.section \in SectionsOf(g) /\ b.goto \in SectionsOf(g) \union {Hangup}
    /\ \A b, c \in graph[g].branch : b.section = c.section /\ b.keys = c.keys => b = c

SameSurvey(G, H) ==
  /\ DOMAIN G.section = DOMAIN H.section /\ G.branch = H.branch
  /\ \A s \in DOMAIN G.section : G.section[s].kind = H.section[s].kind
  /\ \A s, t \in DOMAIN G.section :
       G.section[s].order < G.section[t].order => H.section[s].order <= H.section[t].order

\* A copy that ends, with nobody changing its source on the way, is the source: the same
\* sections in the same order, the same branchings.
CopyFaithful ==
  [][\A p \in Process :
       task[p].dst \in done' \ done /\ task[p].clean
         => SameSurvey(graph'[task[p].dst], graph[task[p].src])]_vars

Whole(c) == IsSurvey(campaign[c].content) /\ campaign[c].content \in done

\* A campaign left running comes to play a survey copied to its end, and keeps it,
\* whichever of the view and the task starts it and whatever rows they save over each
\* other; the exceptions are the campaigns that are spoiled.
RunningPlaysSurvey ==
  \A c \in Campaign :
    <>[](campaign[c].status = "START") => <>[](Whole(c) \/ c \in spoiled)
=============================================================================
