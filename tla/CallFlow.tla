------------------------------ MODULE CallFlow ------------------------------
(***************************************************************************)
(* The Lua script that FreeSWITCH runs for an answered call: newfies.lua   *)
(* loops over next_node of fsm_callflow.lua, which plays the current       *)
(* section, collects its answer and follows the branching of the survey.   *)
(*                                                                         *)
(* Answers are kept in memory and written by commit_result_mem: at the end *)
(* of the call, and before a transfer.  The caller may hang up at any time;*)
(* the session method that is running then returns, and on its return      *)
(* FreeSWITCH runs the hangup hook, which ends the call inside the script. *)
(***************************************************************************)
EXTENDS Integers, FiniteSets

CONSTANTS
  Survey,     \* the surveys considered, see Surveys
  MaxSection, \* the sections of a survey are 1 .. MaxSection
  MaxNode,    \* the nodes newfies.lua visits at most, 1001 in the code
  MaxRetry,   \* bound: the retries of a section
  Env

EnvBehaviour == {
  "hangup",     \* the caller hangs up
  "crash",      \* FreeSWITCH dies
  "no_data" }   \* init finds no database, survey or section

Section == 1 .. MaxSection

\* SECTION_TYPE.  "TRANSFER" has a phone number.  "OTHER" ends the call without a word:
\* a transfer without a number or an unknown type.
DigitType == {"CHOICE", "RATING", "CAPTURE"}
PlainType == {"PLAY", "RECORD", "TRANSFER", "CONFERENCE", "SMS"}
Type == DigitType \cup PlainType \cup {"HANGUP", "DNC", "OTHER"}

\* The branching of a section maps keys to sections; Nowhere is an empty goto_id.
Nowhere == 0
Key == {"0", "1", "any", "invalid", "timeout"}
Branching == UNION {[D -> Section \cup {Nowhere}] : D \in SUBSET Key}
SectionRow == [type : Type, branch : Branching, retries : 0 .. MaxRetry, completed : BOOLEAN]
Surveys == [Section -> SectionRow]

ASSUME SizeAssumption ==
  /\ MaxSection \in Nat \ {0} /\ MaxNode \in Nat \ {0} /\ MaxRetry \in Nat
ASSUME SurveyAssumption ==
  \A s \in Survey :
    /\ DOMAIN s = Section
    /\ \A n \in Section :
         /\ s[n].type \in Type
         /\ DOMAIN s[n].branch \subseteq Key
         /\ \A k \in DOMAIN s[n].branch : s[n].branch[k] \in Section \cup {Nowhere}
         /\ s[n].retries \in 0 .. MaxRetry
         /\ s[n].completed \in BOOLEAN
ASSUME EnvAssumption == Env \subseteq EnvBehaviour

\* What the caller enters: nothing, the lower bound of a rating, a valid answer, and
\* one beyond rating_laps or max_number.
Digits == {"", "0", "1", "9"}
Answer == Digits \cup {"done"}      \* "done": what a section without digits stores
NoAnswer == "none"

VARIABLES
  survey,
  up,          \* session:ready()
  pc,          \* where the script is
  resume,      \* where it goes on after commit_result_mem
  node,        \* current_node_id
  last,        \* last_node
  loop,        \* nodes visited
  prompt,      \* attempts of getdigitnode
  digits,
  recording,   \* record_filename is set
  action,      \* actionresult is set
  ended,
  results,     \* self.results, the answers in memory
  table,       \* survey_result, the rows of this call
  aggregate,   \* survey_resultaggregate, the answers counted per section
  completed,   \* dialer_campaign.completed, as far as this call increments it
  dnc,         \* rows added to dnc_contact
  given,       \* ghost: the last answer of the caller to each section
  revisited    \* ghost: a section was answered again after it was written

script == <<pc, resume, node, last, loop, prompt, digits, recording, action, ended, results>>
database == <<table, aggregate, completed, dnc>>
ghosts == <<given, revisited>>
vars == <<survey, up, script, database, ghosts>>

Stopped == {"over", "aborted", "crashed"}

TypeOK ==
  /\ up \in BOOLEAN
  /\ pc \in {"start", "loop", "prompt", "play", "record", "bridge", "result", "branch",
             "end", "aggregate", "insert"} \cup Stopped
  /\ resume \in {"none", "loop", "record", "result", "branch", "end", "prompt", "bridge", "over"}
  /\ node \in Section /\ last \in Section
  /\ loop \in 0 .. MaxNode
  /\ prompt \in 0 .. MaxRetry + 1
  /\ digits \in Digits
  /\ recording \in BOOLEAN /\ action \in BOOLEAN /\ ended \in BOOLEAN
  /\ revisited \in BOOLEAN
  /\ results \in [Section -> Answer \cup {NoAnswer}]
  /\ table \in [Section -> Answer \cup {NoAnswer}]
  /\ given \in [Section -> Answer \cup {NoAnswer}]
  /\ aggregate \in [Section -> Nat]
  /\ completed \in 0 .. MaxNode
  /\ dnc \in 0 .. MaxNode

Nothing == [n \in Section |-> NoAnswer]

Init ==
  /\ survey \in Survey
  /\ up = TRUE
  /\ pc = "start" /\ resume = "none"
  /\ node = 1 /\ last = 1
  /\ loop = 0 /\ prompt = 0 /\ digits = ""
  /\ recording = FALSE /\ action = FALSE /\ ended = FALSE
  /\ results = Nothing /\ table = Nothing /\ given = Nothing
  /\ aggregate = [n \in Section |-> 0]
  /\ completed = 0 /\ dnc = 0
  /\ revisited = FALSE

Row == survey[node]
Goto(key) == key \in DOMAIN Row.branch /\ Row.branch[key] # Nowhere
HasBranch(key) == key \in DOMAIN Row.branch

\* save_result_mem.
Save(n, a) == results' = [results EXCEPT ![n] = a]
Give(n, a) ==
  /\ given' = IF up THEN [given EXCEPT ![n] = a] ELSE given
  /\ revisited' = (revisited \/ table[n] # NoAnswer)

-----------------------------------------------------------------------------
(***************************************************************************)
(* end_call and commit_result_mem.                                         *)
(***************************************************************************)
\* Mutant: what is being recorded is not saved.
EndCall_NoRecording(next) ==
  IF ended
  THEN pc' = next /\ UNCHANGED <<resume, ended, action, results>>
  ELSE /\ ended' = TRUE
       /\ action' = FALSE
       /\ IF action THEN Save(last, "done") ELSE UNCHANGED results
       /\ pc' = "aggregate" /\ resume' = next

\* The last recording or action is saved with the rest; once only.  record_filename is
\* not reset.
EndCall(next) ==
  IF ended
  THEN pc' = next /\ UNCHANGED <<resume, ended, action, results>>
  ELSE /\ ended' = TRUE
       /\ action' = FALSE
       /\ IF recording \/ action THEN Save(last, "done") ELSE UNCHANGED results
       /\ pc' = "aggregate" /\ resume' = next

\* A session method returns: the hangup hook comes first when the caller has hung up.
Return(next) ==
  IF up THEN pc' = next /\ UNCHANGED <<resume, ended, action, results>> ELSE EndCall(next)

InMemory == {n \in Section : results[n] # NoAnswer}

Aggregate ==
  /\ pc = "aggregate"
  /\ aggregate' = [n \in Section |-> aggregate[n] + Cardinality({n} \cap InMemory)]
  /\ pc' = "insert"
  /\ UNCHANGED <<survey, up, resume, node, last, loop, prompt, digits, recording, action,
                 ended, results, table, completed, dnc, ghosts>>

\* Mutant: the memory is not cleared.
Insert_KeepsMemory ==
  /\ pc = "insert"
  /\ table' = IF \E n \in InMemory : table[n] # NoAnswer THEN table
              ELSE [n \in Section |-> IF n \in InMemory THEN results[n] ELSE table[n]]
  /\ pc' = resume
  /\ resume' = "none"
  /\ up' = (up /\ ~ended)
  /\ UNCHANGED <<survey, node, last, loop, prompt, digits, recording, action, ended, results,
                 aggregate, completed, dnc, ghosts>>

\* One INSERT for all: refused as a whole when one section has a row already.  At the end
\* of the call hangupcall follows.
Insert ==
  /\ pc = "insert"
  /\ table' = IF \E n \in InMemory : table[n] # NoAnswer THEN table
              ELSE [n \in Section |-> IF n \in InMemory THEN results[n] ELSE table[n]]
  /\ results' = Nothing
  /\ pc' = resume
  /\ resume' = "none"
  /\ up' = (up /\ ~ended)
  /\ UNCHANGED <<survey, node, last, loop, prompt, digits, recording, action, ended,
                 aggregate, completed, dnc, ghosts>>

-----------------------------------------------------------------------------
(***************************************************************************)
(* newfies.lua: init, then the loop.  start_call visits the first node     *)
(* before the loop tests anything.                                         *)
(***************************************************************************)
StartCall ==
  /\ pc = "start"
  /\ \/ pc' = "loop" /\ UNCHANGED up
     \/ "no_data" \in Env /\ pc' = "end" /\ up' = FALSE
  /\ UNCHANGED <<survey, resume, node, last, loop, prompt, digits, recording, action, ended,
                 results, database, ghosts>>

Running == loop = 0 \/ (up /\ ~ended /\ loop < MaxNode)

LeaveLoop ==
  /\ pc = "loop"
  /\ ~Running
  /\ pc' = "end"
  /\ UNCHANGED <<survey, up, resume, node, last, loop, prompt, digits, recording, action,
                 ended, results, database, ghosts>>

End ==
  /\ pc = "end"
  /\ EndCall("over")
  /\ UNCHANGED <<survey, up, node, last, loop, prompt, digits, recording, database, ghosts>>

\* What every visit of a node does first: marked_completed is never set, so that
\* marked_node_completed counts each visit.
Visit(types) ==
  /\ pc = "loop"
  /\ Running
  /\ Row.type \in types
  /\ last' = node
  /\ loop' = loop + 1
  /\ completed' = completed + (IF Row.completed THEN 1 ELSE 0)
  /\ UNCHANGED <<survey, up, node, table, aggregate>>

-----------------------------------------------------------------------------
(***************************************************************************)
(* next_node: the sections without digits.                                 *)
(***************************************************************************)
VisitMessage ==
  /\ Visit({"PLAY", "RECORD", "CONFERENCE", "HANGUP"})
  /\ pc' = "play"
  /\ UNCHANGED <<resume, prompt, digits, recording, action, ended, results, dnc, ghosts>>

VisitSms ==
  /\ Visit({"SMS"})
  /\ Save(node, "done") /\ Give(node, "done")
  /\ pc' = "play"
  /\ UNCHANGED <<resume, prompt, digits, recording, action, ended, dnc>>

VisitDnc ==
  /\ Visit({"DNC"})
  /\ dnc' = dnc + 1
  /\ Save(node, "done") /\ Give(node, "done")
  /\ pc' = "play"
  /\ UNCHANGED <<resume, prompt, digits, recording, action, ended>>

\* The message, the conference or the end of the recording's announcement.
Play ==
  /\ pc = "play"
  /\ CASE Row.type = "RECORD" ->
            Return("record") /\ UNCHANGED <<digits, ghosts>>
       [] Row.type = "CONFERENCE" ->
            Return("result") /\ Give(node, "done") /\ UNCHANGED digits
       [] Row.type \in {"HANGUP", "DNC"} ->
            EndCall("loop") /\ UNCHANGED <<digits, ghosts>>
       [] OTHER ->
            Return("branch") /\ UNCHANGED <<digits, ghosts>>
  /\ UNCHANGED <<survey, up, node, last, loop, prompt, recording, database>>

\* recordFile starts; the caller has spoken when it returns, hung up or not.
StartRecord ==
  /\ pc = "record" /\ ~recording
  /\ recording' = TRUE
  /\ Give(node, "done")
  /\ UNCHANGED <<survey, up, pc, resume, node, last, loop, prompt, digits, action, ended,
                 results, database>>

RecordFile ==
  /\ pc = "record" /\ recording
  /\ Return("result")
  /\ UNCHANGED <<survey, up, node, last, loop, prompt, digits, recording, database, ghosts>>

\* A transfer writes the answers first.
VisitTransfer ==
  /\ Visit({"TRANSFER"})
  /\ pc' = "aggregate" /\ resume' = "bridge"
  /\ UNCHANGED <<prompt, digits, recording, action, ended, results, dnc, ghosts>>

StartBridge ==
  /\ pc = "bridge" /\ ~action
  /\ action' = TRUE
  /\ Give(node, "done")
  /\ UNCHANGED <<survey, up, pc, resume, node, last, loop, prompt, digits, recording, ended,
                 results, database>>

Bridge ==
  /\ pc = "bridge" /\ action
  /\ Return("result")
  /\ UNCHANGED <<survey, up, node, last, loop, prompt, digits, recording, database, ghosts>>

VisitOther ==
  /\ Visit({"OTHER"})
  /\ EndCall("loop")
  /\ UNCHANGED <<prompt, digits, recording, dnc, ghosts>>

-----------------------------------------------------------------------------
(***************************************************************************)
(* getdigitnode.                                                           *)
(***************************************************************************)
VisitDigits ==
  /\ Visit(DigitType)
  /\ prompt' = 0
  /\ pc' = "prompt"
  /\ UNCHANGED <<resume, digits, recording, action, ended, results, dnc, ghosts>>

\* Mutant: the last retry is counted twice.
Attempts_OffByOne == IF Row.retries <= 0 THEN 1 ELSE Row.retries + 2
Attempts == IF Row.retries <= 0 THEN 1 ELSE Row.retries + 1

\* playAndGetDigits filters the keys of a choice.
Entered == IF ~up THEN {""} ELSE IF Row.type = "CHOICE" THEN {"", "1"} ELSE Digits

\* What ends the prompting: the lower bound of a rating passes here.
Accepted(d) ==
  CASE Row.type = "CHOICE" -> TRUE
    [] Row.type = "RATING" -> d \in {"0", "1"}
    [] OTHER -> d \in {"0", "1"}

\* Mutant: an attempt is not counted.
Prompt_NoCount ==
  /\ pc = "prompt"
  /\ UNCHANGED prompt
  /\ \E d \in Entered :
       /\ digits' = d
       /\ IF Accepted(d) \/ prompt + 1 >= Attempts
          THEN Return("result") /\ Give(node, d)
          ELSE Return("prompt") /\ UNCHANGED ghosts
  /\ UNCHANGED <<survey, up, node, last, loop, recording, database>>

Prompt ==
  /\ pc = "prompt"
  /\ prompt' = prompt + 1
  /\ \E d \in Entered :
       /\ digits' = d
       /\ IF Accepted(d) \/ prompt + 1 >= Attempts
          THEN Return("result") /\ Give(node, d)
          ELSE Return("prompt") /\ UNCHANGED ghosts
  /\ UNCHANGED <<survey, up, node, last, loop, recording, database>>

-----------------------------------------------------------------------------
(***************************************************************************)
(* The result is saved in memory, then the branching is followed.          *)
(***************************************************************************)
Result ==
  /\ pc = "result"
  /\ recording' = FALSE /\ action' = FALSE
  /\ Save(node, IF Row.type \in DigitType THEN digits ELSE "done")
  /\ pc' = "branch"
  /\ UNCHANGED <<survey, up, resume, node, last, loop, prompt, digits, ended, database, ghosts>>

Invalid ==
  CASE Row.type = "RATING" -> digits # "1"
    [] Row.type = "CHOICE" -> digits = ""
    [] OTHER -> digits = "9"

\* The key whose branch is taken, in the order the code tries them.
BranchKey ==
  CASE Row.type \in PlainType -> IF Goto("0") THEN "0" ELSE "timeout"
    [] Row.type = "CHOICE" /\ digits = "" /\ HasBranch("timeout") -> "timeout"
    [] Row.type \in DigitType /\ Invalid /\ HasBranch("invalid") -> "invalid"
    [] digits # "" /\ HasBranch(digits) -> digits
    [] digits # "" /\ HasBranch("any") -> "any"
    [] digits # "" -> "stay"
    [] OTHER -> "timeout"

\* Digits that no branch takes: the section is played again, unless a valid rating.
Stays == BranchKey = "stay" /\ ~(Row.type = "RATING" /\ ~Invalid)

FollowBranch ==
  /\ pc = "branch"
  /\ Goto(BranchKey) \/ Stays
  /\ Row.type \in PlainType \cup DigitType
  /\ node' = IF Stays THEN node ELSE Row.branch[BranchKey]
  /\ pc' = "loop"
  /\ UNCHANGED <<survey, up, resume, last, loop, prompt, digits, recording, action, ended,
                 results, database, ghosts>>

NoBranch ==
  /\ pc = "branch"
  /\ ~Goto(BranchKey) /\ ~Stays
  /\ Row.type \in PlainType \/ DOMAIN Row.branch # {}
  /\ EndCall("loop")
  /\ UNCHANGED <<survey, up, node, last, loop, prompt, digits, recording, database, ghosts>>

\* A section with digits and no branching at all: the script indexes nil and is aborted.
Abort ==
  /\ pc = "branch"
  /\ Row.type \in DigitType /\ DOMAIN Row.branch = {}
  /\ pc' = "aborted"
  /\ UNCHANGED <<survey, up, resume, node, last, loop, prompt, digits, recording, action,
                 ended, results, database, ghosts>>

-----------------------------------------------------------------------------
HangUp ==
  /\ "hangup" \in Env
  /\ up
  /\ pc \notin Stopped
  /\ up' = FALSE
  /\ UNCHANGED <<survey, script, database, ghosts>>

Crash ==
  /\ "crash" \in Env
  /\ pc \notin Stopped
  /\ pc' = "crashed"
  /\ up' = FALSE
  /\ UNCHANGED <<survey, resume, node, last, loop, prompt, digits, recording, action, ended,
                 results, database, ghosts>>

VisitNode ==
  VisitMessage \/ VisitSms \/ VisitDnc \/ VisitTransfer \/ VisitOther \/ VisitDigits

Script ==
  \/ StartCall \/ LeaveLoop \/ End \/ VisitNode
  \/ Play \/ StartRecord \/ RecordFile \/ StartBridge \/ Bridge \/ Prompt
  \/ Result \/ FollowBranch \/ NoBranch \/ Abort
  \/ Aggregate \/ Insert

Next == Script \/ HangUp \/ Crash

Spec == Init /\ [][Next]_vars

\* The methods of a session return: FreeSWITCH bounds prompts and recordings, and parties
\* hang up.
FairSpec == Spec /\ WF_vars(Script)

-----------------------------------------------------------------------------
(***************************************************************************)
(* Properties.                                                             *)
(***************************************************************************)
\* "Save all the result to the Database": when the script ends in its own way, hung up on
\* or not, the last answer to every section is in the table, unless a section was
\* answered again after a transfer had written it.
AnswersSaved == pc = "over" /\ ~revisited => \A n \in Section : given[n] # NoAnswer => table[n] = given[n]

\* The aggregates count each row of the table once, and nothing else, between two
\* commits; unless a section was answered again after a transfer had written it.
AggregateMatches ==
  pc \notin {"aggregate", "insert", "crashed"} /\ ~revisited =>
    \A n \in Section : aggregate[n] = IF table[n] = NoAnswer THEN 0 ELSE 1

\* Whoever reached a DNC section is on the list, even if he hangs up during its message.
DncKept == dnc = 0 => \A n \in Section : survey[n].type = "DNC" => given[n] = NoAnswer

\* Every call ends, whatever loops the survey has.
CallEnds == <>(pc \in Stopped)

=============================================================================
