-------------------------- MODULE CallFlow_proofs --------------------------
(***************************************************************************)
(* Proofs about the module CallFlow, for every set of surveys, every       *)
(* number of sections, visits and retries and every Env.                   *)
(***************************************************************************)
EXTENDS CallFlow, FiniteSetTheorems, TLAPS

Committing == pc \in {"aggregate", "insert"}

\* Where the script is, or will be after the commit.
Heading(x) == pc = x \/ (Committing /\ resume = x)

(***************************************************************************)
(* The inductive invariant, in four parts.                                 *)
(***************************************************************************)
\* What the place in the script says of the section and the counters.
Placed ==
  /\ survey \in Survey
  /\ \A x \in {"prompt", "play", "record", "bridge", "result", "branch"} :
       Heading(x) => last = node /\ loop > 0
  /\ Heading("prompt") => Row.type \in DigitType /\ prompt < Attempts
  /\ Heading("record") => Row.type = "RECORD"
  /\ Heading("bridge") => Row.type = "TRANSFER"
  /\ completed <= loop /\ dnc <= loop

\* A commit belongs to a transfer or to the end of the call, which comes once.
CommitOnce ==
  /\ Committing => resume # "none" /\ (ended \/ resume = "bridge")
  /\ pc = "start" => ~ended
  /\ Heading("loop") /\ ended => loop > 0
  /\ pc = "over" => ended

\* Before the end, record_filename and actionresult are set only while their section is.
Flags ==
  ~ended => /\ recording => pc \in {"record", "result", "crashed"}
            /\ action => pc \in {"bridge", "result", "crashed"}

\* The section is being answered, and was not answered before.
Answering == pc = "result" \/ (pc = "record" /\ recording) \/ (pc = "bridge" /\ action)

\* The value Result saves.
Value == IF Row.type \in DigitType THEN digits ELSE "done"

\* Results in memory that a commit can still store.
Storable == ~ended \/ Committing

\* What a commit may store has no row yet.
Fresh ==
  ~revisited =>
    /\ Storable => \A n \in Section : results[n] # NoAnswer => table[n] = NoAnswer
    /\ Answering /\ ~ended => table[node] = NoAnswer

Counted ==
  ~revisited /\ pc # "crashed" => \A n \in Section :
    aggregate[n] = (IF table[n] = NoAnswer THEN 0 ELSE 1)
                   + (IF pc = "insert" /\ results[n] # NoAnswer THEN 1 ELSE 0)

\* An answer is in the table, in memory, or about to be saved there.
GivenKept ==
  ~revisited /\ pc # "crashed" => \A n \in Section : given[n] # NoAnswer =>
    \/ table[n] = given[n]
    \/ Storable /\ results[n] = given[n]
    \/ Answering /\ ~ended /\ n = node /\ given[n] = Value

GivenValue ==
  /\ \A n \in Section : given[n] # NoAnswer /\ survey[n].type \notin DigitType => given[n] = "done"
  /\ pc = "result" /\ ~ended => given[node] = Value
  /\ Answering /\ up /\ ~ended => given[node] = Value

\* A call that has ended is hung up once its answers are committed.
EndedDown == ended /\ ~Committing => ~up

Control == TypeOK /\ Placed /\ CommitOnce /\ Flags
Answers == Fresh /\ Counted /\ GivenKept /\ GivenValue /\ EndedDown

(***************************************************************************)
(* The surveys, and what a step does in terms of where the script is.      *)
(***************************************************************************)
LEMMA RowTyped ==
  ASSUME survey \in Survey, node \in Section
  PROVE  /\ Row.type \in Type
         /\ Row.retries \in 0 .. MaxRetry
         /\ \A k : Goto(k) => Row.branch[k] \in Section
BY SurveyAssumption DEF Row, Goto

LEMMA InitControl == Init => Control
<1> SUFFICES ASSUME Init PROVE Control
  OBVIOUS
<1>1. TypeOK
  <2>1. /\ up \in BOOLEAN /\ recording \in BOOLEAN /\ action \in BOOLEAN
        /\ ended \in BOOLEAN /\ revisited \in BOOLEAN
    BY DEF Init
  <2>2. /\ pc = "start" /\ resume = "none" /\ digits \in Digits
        /\ node = 1 /\ last = 1 /\ loop = 0 /\ prompt = 0 /\ completed = 0 /\ dnc = 0
    BY DEF Init, Digits
  <2>3. /\ Nothing \in [Section -> Answer \cup {NoAnswer}]
        /\ results = Nothing /\ table = Nothing /\ given = Nothing
        /\ aggregate \in [Section -> Nat]
    BY DEF Init, Nothing
  <2>4. QED
    BY <2>1, <2>2, <2>3, SizeAssumption DEF TypeOK, Section
<1>2. survey \in Survey /\ completed <= loop /\ dnc <= loop /\ pc = "start"
  <2>1. completed = 0 /\ dnc = 0 /\ loop = 0 /\ survey \in Survey /\ pc = "start"
    BY DEF Init
  <2>2. QED
    BY <2>1
<1>3. ~ended /\ ~recording /\ ~action
  BY DEF Init
<1>4. Placed
  BY <1>2 DEF Placed, Heading, Committing
<1>5. CommitOnce /\ Flags
  BY <1>2, <1>3 DEF CommitOnce, Flags, Heading, Committing
<1>6. QED
  BY <1>1, <1>4, <1>5 DEF Control

\* The session ends, FreeSWITCH dies, or newfies.lua leaves its loop.
LEMMA QuietKeepsControl ==
  ASSUME Control, StartCall \/ LeaveLoop \/ Abort \/ HangUp \/ Crash \/ UNCHANGED vars
  PROVE  Control'
<1> USE DEF Control
<1>1. /\ UNCHANGED <<survey, resume, node, last, loop, prompt, digits, recording, action, ended,
                     results, database, ghosts>>
      /\ up' \in BOOLEAN
      /\ \/ pc' = pc
         \/ pc' \in {"end", "aborted", "crashed"}
         \/ pc = "start" /\ pc' = "loop"
  BY DEF StartCall, LeaveLoop, Abort, HangUp, Crash, vars, script, database, ghosts, TypeOK
<1>2. TypeOK'
  BY <1>1 DEF TypeOK, database, ghosts, Stopped
<1>3. Placed'
  BY <1>1 DEF Placed, Heading, Committing, Row, Attempts, database
<1>4. pc \in {"record", "result", "bridge", "crashed"} => pc' = pc \/ pc' = "crashed"
  BY DEF StartCall, LeaveLoop, Abort, HangUp, Crash, vars, script
<1>5. CommitOnce'
  BY <1>1 DEF CommitOnce, Heading, Committing
<1>6. Flags'
  BY <1>1, <1>4 DEF Flags
<1>7. QED
  BY <1>2, <1>3, <1>5, <1>6

\* A session method returns or the call ends: the script goes on to x, or commits first.
LEMMA ReturnControl ==
  ASSUME Control, NEW x \in {"loop", "prompt", "record", "result", "branch", "over"},
         EndCall(x) \/ Return(x)
  PROVE  /\ \/ pc' = x /\ UNCHANGED <<resume, ended, action, results>>
            \/ pc' = "aggregate" /\ resume' = x /\ ~ended /\ ended' /\ ~action'
         /\ ended' \in BOOLEAN /\ action' \in BOOLEAN
         /\ results' \in [Section -> Answer \cup {NoAnswer}]
         /\ pc' \in {x, "aggregate"} /\ resume' \in {resume, x}
<1>1. EndCall(x) \/ (pc' = x /\ UNCHANGED <<resume, ended, action, results>>)
  BY DEF Return
<1>2. ended \in BOOLEAN /\ action \in BOOLEAN
  BY DEF Control, TypeOK
<1>3. results' \in [Section -> Answer \cup {NoAnswer}]
  <2>1. results' = results \/ results' = [results EXCEPT ![last] = "done"]
    BY <1>1 DEF EndCall, Save
  <2>2. QED
    BY <2>1 DEF Control, TypeOK, Answer
<1>4. \/ pc' = x /\ UNCHANGED <<resume, ended, action, results>>
      \/ pc' = "aggregate" /\ resume' = x /\ ~ended /\ ended' /\ ~action'
  BY <1>1 DEF EndCall
<1>5. ended' \in BOOLEAN /\ action' \in BOOLEAN
  BY <1>1, <1>2 DEF EndCall
<1>6. QED
  BY <1>3, <1>4, <1>5

\* What an action has to show of the section it leaves in order to go on that way.
LEMMA GoOnKeepsControl ==
  ASSUME Control, NEW x \in {"loop", "prompt", "record", "result", "branch", "over"},
         EndCall(x) \/ Return(x),
         x = "over" => EndCall(x),
         UNCHANGED <<survey, up, node, recording, table, aggregate, dnc>>,
         last' \in Section, loop' \in 0 .. MaxNode, loop' >= loop,
         completed' \in 0 .. MaxNode, completed' <= loop',
         prompt' \in 0 .. MaxRetry + 1, digits' \in Digits,
         given' \in [Section -> Answer \cup {NoAnswer}], revisited' \in BOOLEAN,
         x # "over" => loop' > 0,
         x \notin {"over", "loop"} => last' = node,
         x = "prompt" => Row.type \in DigitType /\ prompt' < Attempts,
         x = "record" => Row.type = "RECORD",
         ~ended => /\ recording => x \in {"record", "result"}
                   /\ action => x \in {"bridge", "result"}
  PROVE  Control'
<1>1. /\ \/ pc' = x /\ UNCHANGED <<resume, ended, action, results>>
         \/ pc' = "aggregate" /\ resume' = x /\ ~ended /\ ended' /\ ~action'
      /\ ended' \in BOOLEAN /\ action' \in BOOLEAN
      /\ results' \in [Section -> Answer \cup {NoAnswer}]
      /\ pc' \in {x, "aggregate"} /\ resume' \in {resume, x}
  BY ReturnControl
<1>2. TypeOK'
  BY <1>1 DEF Control, TypeOK, Stopped
<1>3. \A y \in {"loop", "prompt", "play", "record", "bridge", "result", "branch"} :
        Heading(y)' => y = x
  BY <1>1 DEF Heading, Committing
<1>4. Placed'
  <2>1. dnc' <= loop' /\ completed' <= loop' /\ (survey \in Survey)'
    BY DEF Control, Placed, TypeOK
  <2>2. (Heading("prompt") => Row.type \in DigitType /\ prompt < Attempts)'
    BY <1>3 DEF Row, Attempts
  <2>3. (Heading("record") => Row.type = "RECORD")' /\ ~Heading("bridge")'
    BY <1>3 DEF Row
  <2>4. (\A y \in {"prompt", "play", "record", "bridge", "result", "branch"} :
           Heading(y) => last = node /\ loop > 0)'
    BY <1>3
  <2>5. QED
    BY <2>1, <2>2, <2>3, <2>4 DEF Placed
<1>5. CommitOnce'
  <2>1. (Committing => resume # "none" /\ (ended \/ resume = "bridge"))' /\ pc' # "start"
    BY <1>1 DEF Committing
  <2>2. (Heading("loop") => loop > 0)'
    BY <1>3
  <2>3. (pc = "over" => ended)'
    BY <1>1 DEF EndCall
  <2>4. QED
    BY <2>1, <2>2, <2>3 DEF CommitOnce
<1>6. Flags'
  BY <1>1 DEF Flags
<1>7. QED
  BY <1>2, <1>4, <1>5, <1>6 DEF Control

\* A section is visited before the end of the call, with nothing being recorded.
LEMMA VisitEffect ==
  ASSUME Control, NEW types, Visit(types)
  PROVE  /\ pc = "loop" /\ Row.type \in types
         /\ ~ended /\ ~recording /\ ~action
         /\ UNCHANGED <<survey, up, node, table, aggregate>>
         /\ last' = node /\ last' \in Section
         /\ loop' > 0 /\ loop' >= loop /\ loop' \in 0 .. MaxNode
         /\ completed' \in 0 .. MaxNode /\ completed' <= loop'
         /\ dnc + 1 \in 0 .. MaxNode /\ dnc + 1 <= loop'
<1>1. pc = "loop" /\ Row.type \in types /\ last' = node /\ loop' = loop + 1
      /\ UNCHANGED <<survey, up, node, table, aggregate>>
  BY DEF Visit
<1>2. loop = 0 \/ (~ended /\ loop < MaxNode)
  BY DEF Visit, Running
<1>3. ended => loop > 0
  BY <1>1 DEF Control, CommitOnce, Heading
<1>4. loop \in 0 .. MaxNode /\ completed <= loop /\ dnc <= loop
      /\ completed \in 0 .. MaxNode /\ dnc \in 0 .. MaxNode
  BY DEF Control, TypeOK, Placed
<1>5. loop + 1 <= MaxNode
  BY <1>2, <1>4, SizeAssumption
<1>6. completed' = completed \/ completed' = completed + 1
  BY <1>4 DEF Visit
<1>7. ~ended
  BY <1>2, <1>3, <1>4
<1>8. ~recording /\ ~action
  BY <1>1, <1>7 DEF Control, Flags
<1>9. last' \in Section
  BY <1>1 DEF Control, TypeOK
<1>10. /\ loop' > 0 /\ loop' >= loop /\ loop' \in 0 .. MaxNode
       /\ completed' \in 0 .. MaxNode /\ completed' <= loop'
       /\ dnc + 1 \in 0 .. MaxNode /\ dnc + 1 <= loop'
  BY <1>1, <1>4, <1>5, <1>6, SizeAssumption
<1>11. QED
  BY <1>1, <1>7, <1>8, <1>9, <1>10

\* The visits that go on to play, to prompt or, by way of a commit, to a transfer.
LEMMA VisitKeepsControl ==
  ASSUME Control, VisitMessage \/ VisitSms \/ VisitDnc \/ VisitTransfer \/ VisitDigits
  PROVE  Control'
<1>1. PICK types : Visit(types)
  BY DEF VisitMessage, VisitSms, VisitDnc, VisitTransfer, VisitDigits
<1>2. /\ pc = "loop" /\ ~ended /\ ~recording /\ ~action
      /\ UNCHANGED <<survey, up, node, table, aggregate>>
      /\ last' = node /\ last' \in Section
      /\ loop' > 0 /\ loop' >= loop /\ loop' \in 0 .. MaxNode
      /\ completed' \in 0 .. MaxNode /\ completed' <= loop'
      /\ dnc + 1 \in 0 .. MaxNode /\ dnc + 1 <= loop'
  BY <1>1, VisitEffect
<1>3. /\ UNCHANGED <<recording, action, ended, digits>>
      /\ dnc' = dnc \/ dnc' = dnc + 1
      /\ \/ pc' = "play" /\ UNCHANGED <<prompt, resume>>
         \/ pc' = "prompt" /\ prompt' = 0 /\ UNCHANGED resume
         \/ pc' = "aggregate" /\ resume' = "bridge" /\ UNCHANGED prompt
  BY DEF VisitMessage, VisitSms, VisitDnc, VisitTransfer, VisitDigits
<1>4. /\ results' \in [Section -> Answer \cup {NoAnswer}]
      /\ given' \in [Section -> Answer \cup {NoAnswer}]
      /\ revisited' \in BOOLEAN
  <2>1. \/ UNCHANGED <<results, given, revisited>>
        \/ Save(node, "done") /\ Give(node, "done")
    BY DEF VisitMessage, VisitSms, VisitDnc, VisitTransfer, VisitDigits, ghosts
  <2>2. QED
    BY <2>1 DEF Save, Give, Control, TypeOK, Answer
<1>5. TypeOK'
  <2>1. dnc' \in 0 .. MaxNode
    BY <1>2, <1>3 DEF Control, TypeOK
  <2>2. prompt' \in 0 .. MaxRetry + 1
    BY <1>3, SizeAssumption DEF Control, TypeOK
  <2>3. pc' \in {"play", "prompt", "aggregate"} /\ resume' \in {resume, "bridge"}
    BY <1>3
  <2>4. UNCHANGED <<recording, action, ended, digits, node, up, table, aggregate>>
    BY <1>2, <1>3
  <2>5. QED
    BY <1>2, <1>4, <2>1, <2>2, <2>3, <2>4 DEF Control, TypeOK
<1>6. VisitDigits => Row.type \in DigitType /\ prompt' < Attempts
  <2>1. node \in Section /\ survey \in Survey
    BY DEF Control, Placed, TypeOK
  <2>2. Row.retries \in 0 .. MaxRetry
    BY <2>1, RowTyped
  <2>3. Attempts > 0
    BY <2>2, SizeAssumption DEF Attempts
  <2>4. VisitDigits => Row.type \in DigitType /\ prompt' = 0
    BY DEF VisitDigits, Visit
  <2>5. QED
    BY <2>3, <2>4
<1>7. VisitTransfer => Row.type = "TRANSFER"
  BY DEF VisitTransfer, Visit
<1>8. pc' = "prompt" => VisitDigits
  BY DEF VisitMessage, VisitSms, VisitDnc, VisitTransfer, VisitDigits
<1>9. pc' = "aggregate" => VisitTransfer
  BY DEF VisitMessage, VisitSms, VisitDnc, VisitTransfer, VisitDigits
<1>10. Placed'
  <2>1. dnc' <= loop' /\ completed' <= loop' /\ (survey \in Survey)'
    BY <1>2, <1>3 DEF Control, Placed, TypeOK
  <2>2. (Heading("prompt") => Row.type \in DigitType /\ prompt < Attempts)'
    BY <1>2, <1>3, <1>6, <1>8 DEF Heading, Committing, Row, Attempts
  <2>3. (Heading("record") => Row.type = "RECORD")'
    BY <1>3 DEF Heading, Committing
  <2>4. (Heading("bridge") => Row.type = "TRANSFER")'
    BY <1>2, <1>3, <1>7, <1>9 DEF Heading, Committing, Row
  <2>5. QED
    BY <1>2, <2>1, <2>2, <2>3, <2>4 DEF Placed
<1>11. CommitOnce' /\ Flags'
  BY <1>2, <1>3 DEF CommitOnce, Flags, Heading, Committing
<1>12. QED
  BY <1>5, <1>10, <1>11 DEF Control

\* A section that begins to be answered.
LEMMA GiveTyped ==
  ASSUME Control, NEW a \in Answer, Give(node, a)
  PROVE  given' \in [Section -> Answer \cup {NoAnswer}] /\ revisited' \in BOOLEAN
BY DEF Give, Control, TypeOK

\* While a section is played the call has visited it; before the end nothing is recorded.
LEMMA PlaceEffect ==
  ASSUME Control, pc \in {"prompt", "play", "record", "bridge", "result", "branch"}
  PROVE  /\ last = node /\ loop > 0
         /\ ~ended => /\ recording => pc \in {"record", "result"}
                      /\ action => pc \in {"bridge", "result"}
         /\ last \in Section /\ loop \in 0 .. MaxNode
         /\ completed \in 0 .. MaxNode /\ completed <= loop
         /\ prompt \in 0 .. MaxRetry + 1 /\ digits \in Digits
         /\ given \in [Section -> Answer \cup {NoAnswer}] /\ revisited \in BOOLEAN
<1>1. last = node /\ loop > 0
  BY DEF Control, Placed, Heading
<1>2. completed <= loop
  BY DEF Control, Placed
<1>3. ~ended => /\ recording => pc \in {"record", "result"}
                /\ action => pc \in {"bridge", "result"}
  BY DEF Control, Flags
<1>4. QED
  BY <1>1, <1>2, <1>3 DEF Control, TypeOK

LEMMA EndKeepsControl ==
  ASSUME Control, End \/ NoBranch \/ RecordFile \/ Bridge
  PROVE  Control'
<1>1. CASE End
  <2>1. EndCall("over") /\ pc = "end"
        /\ UNCHANGED <<survey, up, node, recording, table, aggregate, dnc>>
        /\ UNCHANGED <<last, loop, completed, prompt, digits, given, revisited>>
    BY <1>1 DEF End, database, ghosts
  <2>2. /\ last \in Section /\ loop \in 0 .. MaxNode /\ completed \in 0 .. MaxNode
        /\ completed <= loop /\ prompt \in 0 .. MaxRetry + 1 /\ digits \in Digits
        /\ given \in [Section -> Answer \cup {NoAnswer}] /\ revisited \in BOOLEAN
    BY DEF Control, TypeOK, Placed
  <2>3. ~ended => ~recording /\ ~action
    BY <2>1 DEF Control, Flags
  <2>4. QED
    BY <2>1, <2>2, <2>3, GoOnKeepsControl
<1>2. CASE NoBranch \/ RecordFile \/ Bridge
  <2>1. /\ UNCHANGED <<survey, up, node, recording, table, aggregate, dnc>>
        /\ UNCHANGED <<last, loop, completed, prompt, digits, given, revisited>>
    BY <1>2 DEF NoBranch, RecordFile, Bridge, database, ghosts
  <2>2. \/ pc = "branch" /\ EndCall("loop")
        \/ pc \in {"record", "bridge"} /\ Return("result")
    BY <1>2 DEF NoBranch, RecordFile, Bridge
  <2>3. QED
    BY <2>1, <2>2, PlaceEffect, GoOnKeepsControl
<1>3. QED
  BY <1>1, <1>2

LEMMA OtherKeepsControl ==
  ASSUME Control, VisitOther
  PROVE  Control'
<1>1. Visit({"OTHER"}) /\ EndCall("loop")
      /\ UNCHANGED <<recording, dnc>> /\ UNCHANGED <<prompt, digits, given, revisited>>
  BY DEF VisitOther, ghosts
<1>2. /\ prompt \in 0 .. MaxRetry + 1 /\ digits \in Digits
      /\ given \in [Section -> Answer \cup {NoAnswer}] /\ revisited \in BOOLEAN
  BY DEF Control, TypeOK
<1>3. /\ ~ended /\ ~recording /\ ~action
      /\ UNCHANGED <<survey, up, node, table, aggregate>>
      /\ last' = node /\ last' \in Section
      /\ loop' > 0 /\ loop' >= loop /\ loop' \in 0 .. MaxNode
      /\ completed' \in 0 .. MaxNode /\ completed' <= loop'
  BY <1>1, VisitEffect
<1>4. QED
  BY <1>1, <1>2, <1>3, GoOnKeepsControl

LEMMA PlayKeepsControl ==
  ASSUME Control, Play
  PROVE  Control'
<1>1. /\ pc = "play"
      /\ UNCHANGED <<survey, up, node, recording, table, aggregate, dnc>>
      /\ UNCHANGED <<last, loop, completed, prompt, digits>>
  BY DEF Play, database
<1>2. \/ Row.type = "RECORD" /\ Return("record") /\ UNCHANGED <<given, revisited>>
      \/ Return("result") /\ Give(node, "done")
      \/ EndCall("loop") /\ UNCHANGED <<given, revisited>>
      \/ Return("branch") /\ UNCHANGED <<given, revisited>>
  BY DEF Play, ghosts
<1>3. given' \in [Section -> Answer \cup {NoAnswer}] /\ revisited' \in BOOLEAN
  BY <1>1, <1>2, PlaceEffect, GiveTyped DEF Answer
<1>4. QED
  BY <1>1, <1>2, <1>3, PlaceEffect, GoOnKeepsControl

LEMMA PromptKeepsControl ==
  ASSUME Control, Prompt
  PROVE  Control'
<1>1. /\ pc = "prompt" /\ prompt' = prompt + 1
      /\ UNCHANGED <<survey, up, node, recording, table, aggregate, dnc>>
      /\ UNCHANGED <<last, loop, completed>>
  BY DEF Prompt, database
<1>2. PICK d \in Entered : /\ digits' = d
                           /\ \/ Return("result") /\ Give(node, d)
                              \/ /\ Return("prompt") /\ UNCHANGED ghosts
                                 /\ ~(prompt + 1 >= Attempts)
  BY DEF Prompt
<1>3. d \in Digits
  BY DEF Entered, Digits
<1>4. Row.type \in DigitType /\ prompt < Attempts
  BY <1>1 DEF Control, Placed, Heading
<1>5. Attempts \in 1 .. MaxRetry + 1
  <2>1. node \in Section /\ survey \in Survey
    BY DEF Control, Placed, TypeOK
  <2>2. Row.retries \in 0 .. MaxRetry
    BY <2>1, RowTyped
  <2>3. QED
    BY <2>2, SizeAssumption DEF Attempts
<1>6. prompt' \in 0 .. MaxRetry + 1
  <2>1. prompt \in 0 .. MaxRetry + 1 /\ prompt' = prompt + 1 /\ prompt < Attempts
    BY <1>1, <1>4, PlaceEffect
  <2>2. QED
    BY <2>1, <1>5, SizeAssumption
<1>7. given' \in [Section -> Answer \cup {NoAnswer}] /\ revisited' \in BOOLEAN
  BY <1>1, <1>2, <1>3, PlaceEffect, GiveTyped DEF Answer, ghosts
<1>8. Return("prompt") /\ ~(prompt + 1 >= Attempts) => prompt' < Attempts
  BY <1>1, <1>5, PlaceEffect
<1>9. CASE Return("result")
  BY <1>1, <1>2, <1>3, <1>6, <1>7, <1>9, PlaceEffect, GoOnKeepsControl
<1>10. CASE Return("prompt") /\ ~(prompt + 1 >= Attempts)
  BY <1>1, <1>2, <1>3, <1>4, <1>6, <1>7, <1>8, <1>10, PlaceEffect, GoOnKeepsControl
<1>11. QED
  BY <1>2, <1>9, <1>10

LEMMA StartKeepsControl ==
  ASSUME Control, StartRecord \/ StartBridge
  PROVE  Control'
<1>1. /\ UNCHANGED <<survey, up, pc, resume, node, last, loop, prompt, digits, ended, results, database>>
      /\ \/ pc = "record" /\ recording' = TRUE /\ UNCHANGED action
         \/ pc = "bridge" /\ action' = TRUE /\ UNCHANGED recording
      /\ Give(node, "done")
  BY DEF StartRecord, StartBridge
<1>2. given' \in [Section -> Answer \cup {NoAnswer}] /\ revisited' \in BOOLEAN
  BY <1>1, GiveTyped DEF Answer
<1>3. recording' \in BOOLEAN /\ action' \in BOOLEAN
  BY <1>1 DEF Control, TypeOK
<1>4. TypeOK'
  BY <1>1, <1>2, <1>3 DEF Control, TypeOK, database
<1>5. Placed' /\ CommitOnce'
  BY <1>1 DEF Control, Placed, CommitOnce, Heading, Committing, Row, Attempts, database
<1>6. Flags'
  BY <1>1 DEF Control, Flags
<1>7. QED
  BY <1>4, <1>5, <1>6 DEF Control

LEMMA ResultKeepsControl ==
  ASSUME Control, Result
  PROVE  Control'
<1>1. /\ UNCHANGED <<survey, up, resume, node, last, loop, prompt, digits, ended, database, ghosts>>
      /\ pc = "result" /\ pc' = "branch"
      /\ recording' = FALSE /\ action' = FALSE
      /\ Save(node, Value)
  BY DEF Result, Value
<1>2. results' \in [Section -> Answer \cup {NoAnswer}]
  BY <1>1 DEF Save, Value, Control, TypeOK, Answer
<1>3. TypeOK'
  BY <1>1, <1>2 DEF Control, TypeOK, database, ghosts
<1>4. Placed'
  BY <1>1 DEF Control, Placed, Heading, Committing, Row, Attempts, database
<1>5. CommitOnce' /\ Flags'
  BY <1>1 DEF Control, CommitOnce, Flags, Heading, Committing
<1>6. QED
  BY <1>3, <1>4, <1>5 DEF Control

LEMMA FollowKeepsControl ==
  ASSUME Control, FollowBranch
  PROVE  Control'
<1>1. /\ UNCHANGED <<survey, up, resume, last, loop, prompt, digits, recording, action, ended,
                     results, database, ghosts>>
      /\ pc = "branch" /\ pc' = "loop"
  BY DEF FollowBranch
<1>2. node' \in Section
  <2>1. node' = node \/ (Goto(BranchKey) /\ node' = Row.branch[BranchKey])
    BY DEF FollowBranch
  <2>2. node \in Section /\ survey \in Survey
    BY DEF Control, Placed, TypeOK
  <2>3. QED
    BY <2>1, <2>2, RowTyped
<1>3. TypeOK'
  BY <1>1, <1>2 DEF Control, TypeOK, database, ghosts
<1>4. loop > 0
  BY <1>1, PlaceEffect
<1>5. Placed'
  BY <1>1, <1>4 DEF Control, Placed, Heading, Committing, database
<1>6. CommitOnce' /\ Flags'
  BY <1>1, <1>4 DEF Control, CommitOnce, Flags, Heading, Committing
<1>7. QED
  BY <1>3, <1>5, <1>6 DEF Control

LEMMA CommitKeepsControl ==
  ASSUME Control, Aggregate \/ Insert
  PROVE  Control'
<1>1. /\ UNCHANGED <<survey, node, last, loop, prompt, digits, recording, action, ended,
                     completed, dnc, ghosts>>
      /\ Committing
      /\ \/ pc' = "insert" /\ UNCHANGED <<resume, up>>
         \/ pc' = resume /\ up' = (up /\ ~ended)
  BY DEF Aggregate, Insert, Committing
<1>2. /\ results' \in [Section -> Answer \cup {NoAnswer}]
      /\ table' \in [Section -> Answer \cup {NoAnswer}]
      /\ aggregate' \in [Section -> Nat]
  <2>1. CASE Aggregate
    <3>1. \A n \in Section : Cardinality({n} \cap InMemory) \in Nat
      <4>1. ASSUME NEW n \in Section PROVE Cardinality({n} \cap InMemory) \in Nat
        <5>1. {n} \cap InMemory = {} \/ {n} \cap InMemory = {n}
          OBVIOUS
        <5>2. QED
          BY <5>1, FS_EmptySet, FS_Singleton
      <4>2. QED
        BY <4>1
    <3>2. QED
      BY <2>1, <3>1 DEF Aggregate, Control, TypeOK
  <2>2. CASE Insert
    BY <2>2 DEF Insert, Nothing, Control, TypeOK
  <2>3. QED
    BY <2>1, <2>2
<1>3. resume \in {"loop", "record", "result", "branch", "end", "prompt", "bridge", "over"}
      /\ (ended \/ resume = "bridge")
  BY <1>1 DEF Control, CommitOnce, TypeOK
<1>4. TypeOK'
  <2>1. up' \in BOOLEAN
    BY <1>1 DEF Control, TypeOK
  <2>2. resume' \in {"none", resume}
    BY DEF Aggregate, Insert
  <2>3. pc' = "insert" \/ pc' = resume
    BY <1>1
  <2>4. UNCHANGED <<node, last, loop, prompt, digits, recording, action, ended, completed, dnc, given, revisited>>
    BY <1>1 DEF ghosts
  <2>5. QED
    BY <1>2, <1>3, <2>1, <2>2, <2>3, <2>4 DEF Control, TypeOK, Stopped
<1>5. \A x \in {"loop", "prompt", "play", "record", "bridge", "result", "branch", "over"} :
        Heading(x)' => Heading(x)
  BY <1>1, <1>3 DEF Heading, Committing, Insert
<1>6. Placed'
  BY <1>1, <1>5 DEF Control, Placed, Row, Attempts
<1>7. CommitOnce'
  BY <1>1, <1>3, <1>5 DEF Control, CommitOnce, Committing
<1>8. Flags'
  BY <1>1 DEF Control, Flags, Committing
<1>9. QED
  BY <1>4, <1>6, <1>7, <1>8 DEF Control

LEMMA NextKeepsControl == Control /\ [Next]_vars => Control'
BY QuietKeepsControl, VisitKeepsControl, EndKeepsControl, OtherKeepsControl, PlayKeepsControl,
   PromptKeepsControl, StartKeepsControl, ResultKeepsControl, FollowKeepsControl,
   CommitKeepsControl DEF Next, Script, VisitNode

THEOREM ControlInvariant == Spec => []Control
BY InitControl, NextKeepsControl, PTL DEF Spec

\* The script's state, its counters and its rows keep their types, for every set of surveys.
THEOREM CallFlowTypeCorrect == Spec => []TypeOK
<1>1. Control => TypeOK
  BY DEF Control
<1>2. QED
  BY <1>1, ControlInvariant, PTL

(***************************************************************************)
(* The answers.                                                            *)
(***************************************************************************)
LEMMA InitAnswers == Init => Answers
<1> SUFFICES ASSUME Init PROVE Answers
  OBVIOUS
<1>1. /\ \A n \in Section : /\ results[n] = NoAnswer /\ table[n] = NoAnswer
                            /\ given[n] = NoAnswer /\ aggregate[n] = 0
      /\ pc = "start"
  BY DEF Init, Nothing
<1>2. ~ended
  BY DEF Init
<1>3. ~Answering /\ ~Committing
  BY <1>1 DEF Answering, Committing
<1>4. Fresh /\ Counted
  BY <1>1, <1>3 DEF Fresh, Counted
<1>5. GivenKept /\ GivenValue /\ EndedDown
  BY <1>1, <1>2, <1>3 DEF GivenKept, GivenValue, EndedDown
<1>6. QED
  BY <1>4, <1>5 DEF Answers

LEMMA QuietKeepsAnswers ==
  ASSUME Control, Answers, StartCall \/ LeaveLoop \/ Abort \/ HangUp \/ Crash \/ UNCHANGED vars
  PROVE  Answers'
<1>1. /\ UNCHANGED <<survey, node, digits, recording, action, ended, results, table, aggregate,
                     given, revisited>>
      /\ up' => up
  BY DEF StartCall, LeaveLoop, Abort, HangUp, Crash, vars, script, database, ghosts
<1>2. /\ Answering' => Answering /\ pc' = pc
      /\ Committing' => Committing
      /\ pc' = "insert" => pc = "insert"
      /\ pc' # "crashed" => pc # "crashed"
      /\ pc' # "crashed" => (Committing => Committing')
      /\ pc = "insert" /\ pc' # "crashed" => pc' = "insert"
      /\ Answering /\ pc' # "crashed" => Answering'
  BY <1>1 DEF StartCall, LeaveLoop, Abort, HangUp, Crash, vars, script, Answering, Committing, Stopped
<1>3. Fresh'
  BY <1>1, <1>2 DEF Answers, Fresh, Storable
<1>4. Counted'
  BY <1>1, <1>2 DEF Answers, Counted
<1>5. Value' = Value
  BY <1>1 DEF Value, Row
<1>6. GivenKept'
  BY <1>1, <1>2, <1>5 DEF Answers, GivenKept, Storable
<1>7. GivenValue'
  <2>1. \A n \in Section : given'[n] # NoAnswer /\ survey'[n].type \notin DigitType => given'[n] = "done"
    BY <1>1 DEF Answers, GivenValue
  <2>2. pc' = "result" /\ ~ended' => pc = "result" /\ ~ended
    BY <1>1, <1>2 DEF Answering
  <2>3. Answering' /\ up' /\ ~ended' => Answering /\ up /\ ~ended
    BY <1>1, <1>2
  <2>4. /\ pc = "result" /\ ~ended => given[node] = Value
        /\ Answering /\ up /\ ~ended => given[node] = Value
    BY DEF Answers, GivenValue
  <2>5. given' = given /\ node' = node
    BY <1>1
  <2>6. QED
    BY <1>5, <2>1, <2>2, <2>3, <2>4, <2>5 DEF GivenValue
<1>8. EndedDown'
  <2>1. (pc' = "crashed" /\ pc # "crashed") => ~up'
    BY DEF StartCall, LeaveLoop, Abort, HangUp, Crash, vars, script, Stopped
  <2>2. (ended /\ ~Committing => ~up)
    BY DEF Answers, EndedDown
  <2>3. Committing /\ ~Committing' => pc' = "crashed" /\ pc # "crashed"
    BY <1>2 DEF StartCall, LeaveLoop, Abort, HangUp, Crash, vars, script, Committing
  <2>4. ended' = ended
    BY <1>1
  <2>5. QED
    BY <1>1, <2>1, <2>2, <2>3, <2>4 DEF EndedDown
<1>9. QED
  BY <1>3, <1>4, <1>6, <1>7, <1>8 DEF Answers

\* The visits that do not end the call.
LEMMA VisitKeepsAnswers ==
  ASSUME Control, Answers, VisitMessage \/ VisitSms \/ VisitDnc \/ VisitTransfer \/ VisitDigits
  PROVE  Answers'
<1>1. PICK types : Visit(types)
  BY DEF VisitMessage, VisitSms, VisitDnc, VisitTransfer, VisitDigits
<1>2. /\ pc = "loop" /\ ~ended /\ ~recording /\ ~action
      /\ UNCHANGED <<survey, up, node, table, aggregate>>
  BY <1>1, VisitEffect
<1>3. /\ UNCHANGED <<recording, action, ended>>
      /\ pc' \in {"play", "prompt", "aggregate"}
      /\ \/ UNCHANGED <<results, given, revisited>>
         \/ Row.type \notin DigitType /\ Save(node, "done") /\ Give(node, "done")
  BY DEF VisitMessage, VisitSms, VisitDnc, VisitTransfer, VisitDigits, ghosts, Visit, DigitType
<1>4. ~Answering /\ ~Answering' /\ ~Committing /\ Storable /\ Storable' /\ ~ended'
  BY <1>2, <1>3 DEF Answering, Committing, Storable
<1>5. /\ results \in [Section -> Answer \cup {NoAnswer}]
      /\ given \in [Section -> Answer \cup {NoAnswer}]
      /\ node \in Section
  BY DEF Control, TypeOK
<1>6. /\ ~revisited' => ~revisited
      /\ \A n \in Section :
           \/ results'[n] = results[n] /\ given'[n] = given[n]
           \/ /\ n = node /\ Row.type \notin DigitType /\ results'[n] = "done"
              /\ given'[n] \in {given[n], "done"}
              /\ ~revisited' => table[n] = NoAnswer
  <2>1. CASE UNCHANGED <<results, given, revisited>>
    BY <2>1
  <2>2. CASE Row.type \notin DigitType /\ Save(node, "done") /\ Give(node, "done")
    <3>1. ~revisited' => ~revisited /\ table[node] = NoAnswer
      BY <2>2 DEF Give
    <3>2. given' = given \/ given' = [given EXCEPT ![node] = "done"]
      BY <2>2 DEF Give
    <3>3. results' = [results EXCEPT ![node] = "done"]
      BY <2>2 DEF Save
    <3>4. ASSUME NEW n \in Section, n # node
          PROVE  results'[n] = results[n] /\ given'[n] = given[n]
      BY <1>5, <3>2, <3>3, <3>4
    <3>5. results'[node] = "done" /\ given'[node] \in {given[node], "done"}
      BY <1>5, <3>2, <3>3
    <3>6. QED
      BY <2>2, <3>1, <3>4, <3>5
  <2>3. QED
    BY <1>3, <2>1, <2>2
<1>7. \A n \in Section : given[n] # NoAnswer /\ survey[n].type \notin DigitType => given[n] = "done"
  BY DEF Answers, GivenValue
<1>8. Fresh'
  BY <1>2, <1>4, <1>6 DEF Answers, Fresh
<1>9. Counted'
  BY <1>2, <1>3, <1>6 DEF Answers, Counted
<1>10. GivenKept'
  <2>1. ~revisited => \A n \in Section : given[n] # NoAnswer => table[n] = given[n] \/ results[n] = given[n]
    BY <1>2, <1>4 DEF Answers, GivenKept
  <2>2. SUFFICES ASSUME ~revisited', NEW n \in Section, given'[n] # NoAnswer
                 PROVE  table[n] = given'[n] \/ results'[n] = given'[n]
    BY <1>2, <1>4 DEF GivenKept
  <2>3. CASE results'[n] = results[n] /\ given'[n] = given[n]
    BY <1>6, <2>1, <2>2, <2>3
  <2>4. CASE /\ n = node /\ Row.type \notin DigitType /\ results'[n] = "done"
             /\ given'[n] \in {given[n], "done"}
    BY <1>7, <2>2, <2>4 DEF Row
  <2>5. QED
    BY <1>6, <2>3, <2>4
<1>11. GivenValue'
  <2>1. \A n \in Section : given'[n] # NoAnswer /\ survey[n].type \notin DigitType => given'[n] = "done"
    BY <1>6, <1>7
  <2>2. pc' # "result"
    BY <1>3
  <2>3. QED
    BY <1>2, <1>4, <2>1, <2>2 DEF GivenValue
<1>12. EndedDown'
  BY <1>4 DEF EndedDown
<1>13. QED
  BY <1>8, <1>9, <1>10, <1>11, <1>12 DEF Answers

\* A session method returns or the call ends: the memory it leaves.
LEMMA ReturnEffect ==
  ASSUME Control, NEW x, EndCall(x) \/ Return(x)
  PROVE  \/ pc' = x /\ UNCHANGED <<ended, action, results>> /\ (ended \/ up)
         \/ /\ pc' = "aggregate" /\ ~ended /\ ended'
            /\ IF recording \/ action THEN Save(last, "done") ELSE UNCHANGED results
BY DEF EndCall, Return

\* The script goes on to x, or commits first; nothing is answered in this step.
LEMMA GoOnKeepsAnswers ==
  ASSUME Control, Answers, ~Committing, pc \notin {"crashed", "result"},
         NEW x \in {"loop", "prompt", "record", "result", "branch", "over"},
         EndCall(x) \/ Return(x),
         UNCHANGED <<survey, up, node, recording, table, aggregate, given, revisited>>,
         x = "result" <=> Answering,
         Answering => digits' = digits,
         ~ended /\ (recording \/ action) => last = node /\ Answering /\ Row.type \notin DigitType,
         x = "record" /\ ~ended => ~recording
  PROVE  Answers'
<1>1. \/ pc' = x /\ UNCHANGED <<ended, action, results>> /\ (ended \/ up)
      \/ /\ pc' = "aggregate" /\ ~ended /\ ended'
         /\ IF recording \/ action THEN Save(last, "done") ELSE UNCHANGED results
  BY ReturnEffect
<1>2. /\ results \in [Section -> Answer \cup {NoAnswer}]
      /\ node \in Section
  BY DEF Control, TypeOK
<1>3. /\ ~revisited => /\ ~ended => \A n \in Section : results[n] # NoAnswer => table[n] = NoAnswer
                       /\ Answering /\ ~ended => table[node] = NoAnswer
      /\ ~revisited => \A n \in Section : given[n] # NoAnswer =>
            \/ table[n] = given[n]
            \/ ~ended /\ results[n] = given[n]
            \/ Answering /\ ~ended /\ n = node /\ given[n] = Value
      /\ \A n \in Section : given[n] # NoAnswer /\ survey[n].type \notin DigitType => given[n] = "done"
      /\ Answering /\ up /\ ~ended => given[node] = Value
      /\ ended => ~up
  BY DEF Answers, Fresh, GivenKept, GivenValue, Storable, EndedDown
<1>4. Counted'
  <2>1. pc # "insert" /\ pc' # "insert"
    BY <1>1 DEF Committing
  <2>2. QED
    BY <2>1 DEF Answers, Counted
<1>5. CASE pc' = x /\ UNCHANGED <<ended, action, results>> /\ (ended \/ up)
  <2>1. ~Committing' /\ (Storable' <=> ~ended)
    BY <1>5 DEF Committing, Storable
  <2>2. ~ended => (Answering' <=> Answering)
    BY <1>5 DEF Answering
  <2>3. Answering => Value' = Value
    BY DEF Value, Row
  <2>4. Fresh'
    BY <1>3, <1>5, <2>1, <2>2 DEF Fresh
  <2>5. GivenKept'
    BY <1>3, <1>5, <2>1, <2>2, <2>3 DEF GivenKept
  <2>6. GivenValue'
    <3>1. Answering' /\ ~ended' => given'[node'] = Value'
      BY <1>3, <1>5, <2>2, <2>3
    <3>2. pc' = "result" => Answering'
      BY DEF Answering
    <3>3. QED
      BY <1>3, <3>1, <3>2 DEF GivenValue
  <2>7. EndedDown'
    BY <1>3, <1>5 DEF EndedDown
  <2>8. QED
    BY <1>4, <2>4, <2>5, <2>6, <2>7 DEF Answers
<1>6. CASE /\ pc' = "aggregate" /\ ~ended /\ ended'
           /\ IF recording \/ action THEN Save(last, "done") ELSE UNCHANGED results
  <2>1. Committing' /\ Storable' /\ ~Answering' /\ pc' # "result"
    BY <1>6 DEF Committing, Storable, Answering
  <2>2. Answering => recording \/ action
    BY DEF Answering
  <2>3. \A n \in Section :
           \/ results'[n] = results[n] /\ ~(Answering /\ n = node)
           \/ /\ n = node /\ results'[n] = "done" /\ Answering /\ Row.type \notin DigitType
    BY <1>2, <1>6, <2>2 DEF Save
  <2>4. Fresh'
    BY <1>3, <1>6, <2>1, <2>3 DEF Fresh
  <2>5. GivenKept'
    BY <1>3, <1>6, <2>1, <2>3 DEF GivenKept, Row
  <2>6. GivenValue'
    BY <1>3, <2>1 DEF GivenValue
  <2>7. EndedDown'
    BY <2>1 DEF EndedDown
  <2>8. QED
    BY <1>4, <2>4, <2>5, <2>6, <2>7 DEF Answers
<1>7. QED
  BY <1>1, <1>5, <1>6

\* The section is answered by a, and the script goes on to save it, or commits first.
LEMMA GiveKeepsAnswers ==
  ASSUME Control, Answers, pc \in {"play", "prompt"}, NEW a \in Answer,
         Return("result"), Give(node, a), Value' = a,
         Row.type \notin DigitType => a = "done",
         UNCHANGED <<survey, up, node, recording, table, aggregate>>
  PROVE  Answers'
<1>1. ~Committing /\ ~Answering /\ pc # "crashed"
  BY DEF Committing, Answering
<1>2. \/ pc' = "result" /\ UNCHANGED <<ended, results>> /\ (ended \/ up)
      \/ pc' = "aggregate" /\ ~ended /\ ended' /\ UNCHANGED results /\ ~up
  <2>1. ~ended => ~recording /\ ~action
    BY DEF Control, Flags
  <2>2. QED
    BY <2>1 DEF Return, EndCall
<1>3. /\ ~revisited => /\ ~ended => \A n \in Section : results[n] # NoAnswer => table[n] = NoAnswer
      /\ ~revisited => \A n \in Section : given[n] # NoAnswer =>
            \/ table[n] = given[n]
            \/ ~ended /\ results[n] = given[n]
      /\ \A n \in Section : given[n] # NoAnswer /\ survey[n].type \notin DigitType => given[n] = "done"
      /\ ended => ~up
  BY <1>1 DEF Answers, Fresh, GivenKept, GivenValue, Storable, EndedDown
<1>4. given \in [Section -> Answer \cup {NoAnswer}] /\ node \in Section
  BY DEF Control, TypeOK
<1>5. /\ ~revisited' => ~revisited /\ table[node] = NoAnswer
      /\ \A n \in Section : given'[n] = IF up /\ n = node THEN a ELSE given[n]
  BY <1>4 DEF Give
<1>6. Storable' <=> (~ended \/ pc' = "aggregate")
  BY <1>2 DEF Storable, Committing
<1>7. Answering' => pc' = "result" /\ (~ended' => up /\ ~ended)
  BY <1>2 DEF Answering
<1>8. Fresh'
  BY <1>2, <1>3, <1>5, <1>6 DEF Fresh
<1>9. Counted'
  <2>1. pc # "insert" /\ pc' # "insert"
    BY <1>2
  <2>2. QED
    BY <1>1, <1>5, <2>1 DEF Answers, Counted
<1>10. GivenKept'
  <2>1. SUFFICES ASSUME ~revisited', NEW n \in Section, given'[n] # NoAnswer
                 PROVE  \/ table[n] = given'[n]
                        \/ Storable' /\ results'[n] = given'[n]
                        \/ Answering' /\ ~ended' /\ n = node /\ given'[n] = Value'
    BY DEF GivenKept
  <2>2. CASE up /\ n = node
    <3>1. pc' = "result" /\ ~ended'
      BY <1>2, <1>3, <2>2
    <3>2. QED
      BY <1>5, <2>2, <3>1 DEF Answering
  <2>3. CASE ~(up /\ n = node)
    BY <1>2, <1>3, <1>5, <1>6, <2>1, <2>3
  <2>4. QED
    BY <2>2, <2>3
<1>11. GivenValue'
  <2>1. \A n \in Section : given'[n] # NoAnswer /\ survey[n].type \notin DigitType => given'[n] = "done"
    BY <1>3, <1>5 DEF Row
  <2>2. pc' = "result" => Answering'
    BY DEF Answering
  <2>3. Answering' /\ ~ended' => given'[node'] = Value'
    BY <1>4, <1>5, <1>7
  <2>4. QED
    BY <2>1, <2>2, <2>3 DEF GivenValue
<1>12. EndedDown'
  BY <1>2, <1>3 DEF EndedDown, Committing
<1>13. QED
  BY <1>8, <1>9, <1>10, <1>11, <1>12 DEF Answers

LEMMA EndKeepsAnswers ==
  ASSUME Control, Answers, End \/ NoBranch \/ RecordFile \/ Bridge \/ VisitOther
  PROVE  Answers'
<1>1. CASE End \/ NoBranch \/ VisitOther
  <2>1. /\ UNCHANGED <<survey, up, node, recording, table, aggregate, given, revisited, digits>>
        /\ EndCall("over") \/ EndCall("loop")
        /\ pc \in {"end", "branch", "loop"}
    BY <1>1 DEF End, NoBranch, VisitOther, Visit, database, ghosts
  <2>2. ~Answering /\ ~Committing /\ pc \notin {"crashed", "result"}
    BY <2>1 DEF Answering, Committing
  <2>3. ~ended => ~recording /\ ~action
    BY <2>1 DEF Control, Flags
  <2>4. CASE EndCall("over")
    BY <2>1, <2>2, <2>3, <2>4, GoOnKeepsAnswers
  <2>5. CASE EndCall("loop")
    BY <2>1, <2>2, <2>3, <2>5, GoOnKeepsAnswers
  <2>6. QED
    BY <2>1, <2>4, <2>5
<1>2. CASE RecordFile \/ Bridge
  <2>1. /\ UNCHANGED <<survey, up, node, recording, table, aggregate, given, revisited, digits>>
        /\ Return("result")
        /\ (pc = "record" /\ recording) \/ (pc = "bridge" /\ action)
    BY <1>2 DEF RecordFile, Bridge, database, ghosts
  <2>2. Answering /\ ~Committing /\ pc \notin {"crashed", "result"}
    BY <2>1 DEF Answering, Committing
  <2>3. last = node /\ Row.type \in {"RECORD", "TRANSFER"}
    BY <2>1 DEF Control, Placed, Heading
  <2>4. Row.type \notin DigitType
    BY <2>3 DEF DigitType
  <2>5. QED
    BY <2>1, <2>2, <2>3, <2>4, GoOnKeepsAnswers
<1>3. QED
  BY <1>1, <1>2

LEMMA PlayKeepsAnswers ==
  ASSUME Control, Answers, Play
  PROVE  Answers'
<1>1. /\ pc = "play"
      /\ UNCHANGED <<survey, up, node, recording, table, aggregate, digits>>
  BY DEF Play, database
<1>2. ~Answering /\ ~Committing
  BY <1>1 DEF Answering, Committing
<1>3. ~ended => ~recording /\ ~action
  BY <1>1 DEF Control, Flags
<1>4. CASE Return("result") /\ Give(node, "done") /\ Row.type = "CONFERENCE"
  <2>1. Row.type \notin DigitType
    BY <1>4 DEF DigitType
  <2>2. Value' = "done"
    BY <1>1, <2>1 DEF Value, Row
  <2>3. QED
    BY <1>1, <1>4, <2>2, GiveKeepsAnswers DEF Answer
<1>5. CASE /\ Return("record") \/ EndCall("loop") \/ Return("branch")
           /\ UNCHANGED <<given, revisited>>
  BY <1>1, <1>2, <1>3, <1>5, GoOnKeepsAnswers
<1>6. QED
  BY <1>4, <1>5 DEF Play, ghosts

LEMMA PromptKeepsAnswers ==
  ASSUME Control, Answers, Prompt
  PROVE  Answers'
<1>1. /\ pc = "prompt"
      /\ UNCHANGED <<survey, up, node, recording, table, aggregate>>
  BY DEF Prompt, database
<1>2. ~Answering /\ ~Committing
  BY <1>1 DEF Answering, Committing
<1>3. ~ended => ~recording /\ ~action
  BY <1>1 DEF Control, Flags
<1>4. PICK d \in Entered : /\ digits' = d
                           /\ \/ Return("result") /\ Give(node, d)
                              \/ Return("prompt") /\ UNCHANGED <<given, revisited>>
  BY DEF Prompt, ghosts
<1>5. Row.type \in DigitType
  BY <1>1 DEF Control, Placed, Heading
<1>6. CASE Return("result") /\ Give(node, d)
  <2>1. d \in Answer
    BY DEF Entered, Digits, Answer
  <2>2. Value' = d
    BY <1>1, <1>4, <1>5 DEF Value, Row
  <2>3. QED
    BY <1>1, <1>5, <1>6, <2>1, <2>2, GiveKeepsAnswers
<1>7. CASE Return("prompt") /\ UNCHANGED <<given, revisited>>
  BY <1>1, <1>2, <1>3, <1>7, GoOnKeepsAnswers
<1>8. QED
  BY <1>4, <1>6, <1>7

\* What the invariant says outside a commit.
LEMMA AnswersEffect ==
  ASSUME Answers, pc \notin {"aggregate", "insert", "crashed"}
  PROVE  /\ ~revisited => \A n \in Section :
               /\ ~ended /\ results[n] # NoAnswer => table[n] = NoAnswer
               /\ aggregate[n] = IF table[n] = NoAnswer THEN 0 ELSE 1
               /\ given[n] # NoAnswer =>
                    \/ table[n] = given[n]
                    \/ ~ended /\ results[n] = given[n]
                    \/ Answering /\ ~ended /\ n = node /\ given[n] = Value
         /\ ~revisited /\ Answering /\ ~ended => table[node] = NoAnswer
         /\ \A n \in Section : given[n] # NoAnswer /\ survey[n].type \notin DigitType => given[n] = "done"
         /\ pc = "result" /\ ~ended => given[node] = Value
         /\ ended => ~up
<1>1. Storable <=> ~ended
  BY DEF Storable, Committing
<1>2. ~revisited => \A n \in Section : aggregate[n] = IF table[n] = NoAnswer THEN 0 ELSE 1
  <2>1. SUFFICES ASSUME ~revisited, NEW n \in Section
                 PROVE  aggregate[n] = IF table[n] = NoAnswer THEN 0 ELSE 1
    OBVIOUS
  <2>2. aggregate[n] = (IF table[n] = NoAnswer THEN 0 ELSE 1) + 0
    BY <2>1 DEF Answers, Counted
  <2>3. QED
    BY <2>2
<1>3. QED
  BY <1>1, <1>2 DEF Answers, Fresh, GivenKept, GivenValue, EndedDown, Committing

LEMMA StartKeepsAnswers ==
  ASSUME Control, Answers, StartRecord \/ StartBridge
  PROVE  Answers'
<1>1. /\ UNCHANGED <<survey, up, pc, node, digits, ended, results, table, aggregate>>
      /\ \/ pc = "record" /\ ~recording /\ recording' = TRUE
         \/ pc = "bridge" /\ ~action /\ action' = TRUE
      /\ Give(node, "done")
  BY DEF StartRecord, StartBridge, database
<1>2. ~Answering /\ Answering' /\ pc \in {"record", "bridge"}
  BY <1>1 DEF Answering
<1>3. Row.type \in {"RECORD", "TRANSFER"}
  BY <1>2 DEF Control, Placed, Heading
<1>4. Value' = "done"
  BY <1>1, <1>3 DEF Value, Row, DigitType
<1>5. given \in [Section -> Answer \cup {NoAnswer}] /\ node \in Section
  BY DEF Control, TypeOK
<1>6. ~revisited' => ~revisited /\ table[node] = NoAnswer
  BY <1>1 DEF Give
<1>7. \A n \in Section : given'[n] = IF up /\ n = node THEN "done" ELSE given[n]
  BY <1>1, <1>5 DEF Give
<1>8. ~Committing' /\ (Storable' <=> ~ended)
  BY <1>1, <1>2 DEF Storable, Committing
<1>9. /\ ~revisited => \A n \in Section :
            /\ ~ended /\ results[n] # NoAnswer => table[n] = NoAnswer
            /\ aggregate[n] = IF table[n] = NoAnswer THEN 0 ELSE 1
            /\ given[n] # NoAnswer => table[n] = given[n] \/ (~ended /\ results[n] = given[n])
      /\ \A n \in Section : given[n] # NoAnswer /\ survey[n].type \notin DigitType => given[n] = "done"
      /\ ended => ~up
  BY <1>2, AnswersEffect
<1>10. Fresh'
  BY <1>1, <1>6, <1>8, <1>9 DEF Fresh
<1>11. Counted'
  BY <1>1, <1>2, <1>6, <1>9 DEF Counted
<1>12. GivenKept'
  BY <1>1, <1>2, <1>4, <1>6, <1>7, <1>8, <1>9 DEF GivenKept
<1>13. GivenValue'
  BY <1>1, <1>2, <1>4, <1>5, <1>7, <1>9 DEF GivenValue
<1>14. EndedDown'
  BY <1>1, <1>9 DEF EndedDown
<1>15. QED
  BY <1>10, <1>11, <1>12, <1>13, <1>14 DEF Answers

LEMMA ResultKeepsAnswers ==
  ASSUME Control, Answers, Result
  PROVE  Answers'
<1>1. /\ UNCHANGED <<survey, up, node, ended, table, aggregate, given, revisited>>
      /\ pc = "result" /\ pc' = "branch"
      /\ Save(node, Value)
  BY DEF Result, Value, database, ghosts
<1>2. Answering /\ ~Answering' /\ ~Committing' /\ (Storable' <=> ~ended)
  BY <1>1 DEF Answering, Committing, Storable
<1>3. /\ ~revisited => \A n \in Section :
            /\ ~ended /\ results[n] # NoAnswer => table[n] = NoAnswer
            /\ aggregate[n] = IF table[n] = NoAnswer THEN 0 ELSE 1
            /\ given[n] # NoAnswer =>
                 \/ table[n] = given[n]
                 \/ ~ended /\ results[n] = given[n]
                 \/ ~ended /\ n = node /\ given[n] = Value
      /\ ~revisited /\ ~ended => table[node] = NoAnswer
      /\ \A n \in Section : given[n] # NoAnswer /\ survey[n].type \notin DigitType => given[n] = "done"
      /\ ~ended => given[node] = Value
      /\ ended => ~up
  BY <1>1, <1>2, AnswersEffect
<1>4. \A n \in Section : results'[n] = IF n = node THEN Value ELSE results[n]
  BY <1>1 DEF Save, Control, TypeOK
<1>5. Fresh'
  BY <1>1, <1>2, <1>3, <1>4 DEF Fresh
<1>6. Counted'
  BY <1>1, <1>3 DEF Counted
<1>7. GivenKept'
  BY <1>1, <1>2, <1>3, <1>4 DEF GivenKept
<1>8. GivenValue'
  BY <1>1, <1>2, <1>3 DEF GivenValue
<1>9. EndedDown'
  BY <1>1, <1>3 DEF EndedDown
<1>10. QED
  BY <1>5, <1>6, <1>7, <1>8, <1>9 DEF Answers

LEMMA FollowKeepsAnswers ==
  ASSUME Control, Answers, FollowBranch
  PROVE  Answers'
<1>1. /\ UNCHANGED <<survey, up, ended, results, table, aggregate, given, revisited>>
      /\ pc = "branch" /\ pc' = "loop"
  BY DEF FollowBranch, database, ghosts
<1>2. ~Answering /\ ~Answering' /\ ~Committing' /\ (Storable' <=> ~ended)
  BY <1>1 DEF Answering, Committing, Storable
<1>3. /\ ~revisited => \A n \in Section :
            /\ ~ended /\ results[n] # NoAnswer => table[n] = NoAnswer
            /\ aggregate[n] = IF table[n] = NoAnswer THEN 0 ELSE 1
            /\ given[n] # NoAnswer => table[n] = given[n] \/ (~ended /\ results[n] = given[n])
      /\ \A n \in Section : given[n] # NoAnswer /\ survey[n].type \notin DigitType => given[n] = "done"
      /\ ended => ~up
  BY <1>1, <1>2, AnswersEffect
<1>4. Fresh' /\ Counted'
  BY <1>1, <1>2, <1>3 DEF Fresh, Counted
<1>5. GivenKept' /\ GivenValue' /\ EndedDown'
  BY <1>1, <1>2, <1>3 DEF GivenKept, GivenValue, EndedDown
<1>6. QED
  BY <1>4, <1>5 DEF Answers

\* The rows are counted, each once, before they are written.
LEMMA AggregateKeepsAnswers ==
  ASSUME Control, Answers, Aggregate
  PROVE  Answers'
<1>1. /\ UNCHANGED <<survey, up, node, ended, results, table, given, revisited>>
      /\ pc = "aggregate" /\ pc' = "insert"
      /\ aggregate' = [n \in Section |-> aggregate[n] + Cardinality({n} \cap InMemory)]
  BY DEF Aggregate, ghosts
<1>2. ~Answering /\ ~Answering' /\ Storable /\ Storable'
  BY <1>1 DEF Answering, Committing, Storable
<1>3. ASSUME NEW n \in Section
      PROVE  Cardinality({n} \cap InMemory) = IF results[n] # NoAnswer THEN 1 ELSE 0
  <2>1. CASE results[n] # NoAnswer
    <3>1. {n} \cap InMemory = {n}
      BY <2>1 DEF InMemory
    <3>2. QED
      BY <2>1, <3>1, FS_Singleton
  <2>2. CASE results[n] = NoAnswer
    <3>1. {n} \cap InMemory = {}
      BY <2>2 DEF InMemory
    <3>2. QED
      BY <2>2, <3>1, FS_EmptySet
  <2>3. QED
    BY <2>1, <2>2
<1>4. Fresh'
  BY <1>1, <1>2 DEF Answers, Fresh
<1>5. Counted'
  <2>1. SUFFICES ASSUME ~revisited, NEW n \in Section
                 PROVE  aggregate'[n] = (IF table[n] = NoAnswer THEN 0 ELSE 1)
                                        + (IF results[n] # NoAnswer THEN 1 ELSE 0)
    BY <1>1 DEF Counted
  <2>2. aggregate[n] = (IF table[n] = NoAnswer THEN 0 ELSE 1) + 0
    BY <1>1, <2>1 DEF Answers, Counted
  <2>3. aggregate'[n] = aggregate[n] + (IF results[n] # NoAnswer THEN 1 ELSE 0)
    BY <1>1, <1>3
  <2>4. QED
    BY <2>2, <2>3
<1>6. GivenKept'
  BY <1>1, <1>2 DEF Answers, GivenKept
<1>7. GivenValue'
  BY <1>1, <1>2 DEF Answers, GivenValue
<1>8. EndedDown'
  BY <1>1 DEF EndedDown, Committing
<1>9. QED
  BY <1>4, <1>5, <1>6, <1>7, <1>8 DEF Answers

\* No row is refused, so that every row counted is written.
LEMMA InsertKeepsAnswers ==
  ASSUME Control, Answers, Insert
  PROVE  Answers'
<1>1. /\ UNCHANGED <<survey, node, recording, action, ended, aggregate, given, revisited>>
      /\ pc = "insert" /\ pc' = resume /\ up' = (up /\ ~ended)
      /\ results' = Nothing
  BY DEF Insert, ghosts
<1>2. Committing /\ Storable /\ ~Answering
  BY <1>1 DEF Answering, Committing, Storable
<1>3. /\ ended \/ resume = "bridge"
      /\ resume \in {"loop", "record", "result", "branch", "end", "prompt", "bridge", "over"}
      /\ ~ended => ~action
  BY <1>1, <1>2 DEF Control, CommitOnce, Flags, TypeOK
<1>4. ~Committing' /\ (Answering' => ended') /\ (pc' = "result" => ended')
  BY <1>1, <1>3 DEF Committing, Answering
<1>5. \A n \in Section : results'[n] = NoAnswer
  BY <1>1 DEF Nothing
<1>6. ASSUME ~revisited, NEW n \in Section
      PROVE  /\ table'[n] = IF results[n] # NoAnswer THEN results[n] ELSE table[n]
             /\ results[n] # NoAnswer => table[n] = NoAnswer
  <2>1. \A m \in Section : results[m] # NoAnswer => table[m] = NoAnswer
    BY <1>2, <1>6 DEF Answers, Fresh
  <2>2. ~(\E m \in InMemory : table[m] # NoAnswer)
    BY <2>1 DEF InMemory
  <2>3. QED
    BY <2>1, <2>2 DEF Insert, InMemory
<1>7. Fresh'
  BY <1>4, <1>5 DEF Fresh
<1>8. Counted'
  <2>1. SUFFICES ASSUME ~revisited, NEW n \in Section
                 PROVE  aggregate[n] = (IF table'[n] = NoAnswer THEN 0 ELSE 1) + 0
    BY <1>1, <1>3, <1>5 DEF Counted
  <2>2. aggregate[n] = (IF table[n] = NoAnswer THEN 0 ELSE 1)
                       + (IF results[n] # NoAnswer THEN 1 ELSE 0)
    BY <1>1, <2>1 DEF Answers, Counted
  <2>3. QED
    BY <1>6, <2>1, <2>2
<1>9. GivenKept'
  <2>1. SUFFICES ASSUME ~revisited, NEW n \in Section, given[n] # NoAnswer
                 PROVE  table'[n] = given[n]
    BY <1>1 DEF GivenKept
  <2>2. table[n] = given[n] \/ results[n] = given[n]
    BY <1>1, <1>2, <2>1 DEF Answers, GivenKept
  <2>3. QED
    BY <1>6, <2>1, <2>2
<1>10. GivenValue'
  <2>1. \A n \in Section : given'[n] # NoAnswer /\ survey'[n].type \notin DigitType => given'[n] = "done"
    BY <1>1 DEF Answers, GivenValue
  <2>2. QED
    BY <1>4, <2>1 DEF GivenValue
<1>11. EndedDown'
  BY <1>1 DEF EndedDown
<1>12. QED
  BY <1>7, <1>8, <1>9, <1>10, <1>11 DEF Answers

LEMMA NextKeepsAnswers == Control /\ Answers /\ [Next]_vars => Answers'
BY QuietKeepsAnswers, VisitKeepsAnswers, EndKeepsAnswers, PlayKeepsAnswers, PromptKeepsAnswers,
   StartKeepsAnswers, ResultKeepsAnswers, FollowKeepsAnswers, AggregateKeepsAnswers,
   InsertKeepsAnswers DEF Next, Script, VisitNode

THEOREM AnswersInvariant == Spec => []Answers
BY InitAnswers, NextKeepsAnswers, ControlInvariant, PTL DEF Spec

\* Whatever the survey and whenever the caller hangs up, the last answer to every section is
\* in the table when the script has ended, unless a section was answered again after a
\* transfer had written it.
THEOREM EveryAnswerIsSaved == Spec => []AnswersSaved
<1>1. Control /\ Answers => AnswersSaved
  <2>1. SUFFICES ASSUME Control, Answers, pc = "over", ~revisited,
                        NEW n \in Section, given[n] # NoAnswer
                 PROVE  table[n] = given[n]
    BY DEF AnswersSaved
  <2>2. ended
    BY <2>1 DEF Control, CommitOnce
  <2>3. QED
    BY <2>1, <2>2, AnswersEffect
<1>2. QED
  BY <1>1, ControlInvariant, AnswersInvariant, PTL

\* Between two commits the aggregates and the rows say the same: the two statements of
\* commit_result_mem count and write the same sections.
THEOREM AggregatesMatchRows == Spec => []AggregateMatches
<1>1. Answers => AggregateMatches
  BY AnswersEffect DEF AggregateMatches
<1>2. QED
  BY <1>1, AnswersInvariant, PTL

(***************************************************************************)
(* The DNC list.                                                           *)
(***************************************************************************)
\* Only the visit of a DNC section answers one, and it adds the number.
LEMMA OtherSectionsAnswered ==
  ASSUME Control, [Next]_vars, ~VisitDnc, NEW n \in Section, survey[n].type = "DNC"
  PROVE  given'[n] = given[n] /\ dnc' = dnc /\ survey' = survey
<1>1. \/ given' = given
      \/ \E a \in Answer : Give(node, a) /\ Row.type # "DNC"
  <2>1. CASE VisitSms
    BY <2>1 DEF VisitSms, Visit, Answer
  <2>2. CASE Play
    BY <2>2 DEF Play, ghosts, Answer
  <2>3. CASE Prompt
    <3>1. Row.type \in DigitType
      BY <2>3 DEF Prompt, Control, Placed, Heading
    <3>2. QED
      BY <2>3, <3>1 DEF Prompt, ghosts, Entered, Digits, Answer, DigitType
  <2>4. CASE StartRecord \/ StartBridge
    <3>1. Row.type \in {"RECORD", "TRANSFER"} /\ Give(node, "done")
      BY <2>4 DEF StartRecord, StartBridge, Control, Placed, Heading
    <3>2. QED
      BY <3>1 DEF Answer
  <2>5. CASE ~(VisitSms \/ Play \/ Prompt \/ StartRecord \/ StartBridge)
    BY <2>5 DEF Next, Script, VisitNode, vars, ghosts, StartCall, LeaveLoop, End, VisitMessage,
                VisitTransfer, VisitOther, VisitDigits, RecordFile, Bridge, Result,
                FollowBranch, NoBranch, Abort, Aggregate, Insert, HangUp, Crash
  <2>6. QED
    BY <2>1, <2>2, <2>3, <2>4, <2>5
<1>2. given'[n] = given[n]
  <2>1. given \in [Section -> Answer \cup {NoAnswer}]
    BY DEF Control, TypeOK
  <2>2. QED
    BY <1>1, <2>1 DEF Give, Row
<1>3. dnc' = dnc
  BY DEF Next, Script, VisitNode, vars, database, StartCall, LeaveLoop, End, VisitMessage,
         VisitSms, VisitTransfer, VisitOther, VisitDigits, Play, StartRecord, RecordFile,
         StartBridge, Bridge, Prompt, Result, FollowBranch, NoBranch, Abort, Aggregate,
         Insert, HangUp, Crash
<1>4. survey' = survey
  BY DEF Next, Script, VisitNode, vars, Visit, StartCall, LeaveLoop, End, VisitMessage,
         VisitSms, VisitTransfer, VisitOther, VisitDigits, Play, StartRecord, RecordFile,
         StartBridge, Bridge, Prompt, Result, FollowBranch, NoBranch, Abort, Aggregate,
         Insert, HangUp, Crash
<1>5. QED
  BY <1>2, <1>3, <1>4

\* Whoever reached a DNC section is on the list, whenever he hung up: the script adds the
\* number before it plays the message.
THEOREM DncSectionsCount == Spec => []DncKept
<1>1. Init => DncKept
  BY DEF Init, Nothing, DncKept
<1>2. ASSUME Control, DncKept, [Next]_vars PROVE DncKept'
  <2>1. CASE VisitDnc
    <3>1. dnc' = dnc + 1 /\ dnc \in 0 .. MaxNode
      BY <1>2, <2>1 DEF VisitDnc, Control, TypeOK
    <3>2. QED
      BY <3>1, SizeAssumption DEF DncKept
  <2>2. CASE ~VisitDnc
    <3>1. survey' = survey
      BY <1>2 DEF Next, Script, VisitNode, vars, Visit, StartCall, LeaveLoop, End,
             VisitMessage, VisitSms, VisitDnc, VisitTransfer, VisitOther, VisitDigits, Play,
             StartRecord, RecordFile, StartBridge, Bridge, Prompt, Result, FollowBranch,
             NoBranch, Abort, Aggregate, Insert, HangUp, Crash
    <3>2. SUFFICES ASSUME dnc' = 0, NEW n \in Section, survey[n].type = "DNC"
                   PROVE  given'[n] = NoAnswer
      BY <3>1 DEF DncKept
    <3>3. given'[n] = given[n] /\ dnc' = dnc
      BY <1>2, <2>2, <3>2, OtherSectionsAnswered
    <3>4. QED
      BY <1>2, <3>2, <3>3 DEF DncKept
  <2>3. QED
    BY <2>1, <2>2
<1>3. QED
  BY <1>1, <1>2, ControlInvariant, PTL DEF Spec
=============================================================================
