----------------------------- MODULE CallReports -----------------------------
(***************************************************************************)
(* The calls of a campaign together with the path of their reports: what   *)
(* Dialer takes for one step, a call_event row that a process_callevent    *)
(* task finds, is here the whole of CallEventQueue, from the hangup in     *)
(* FreeSWITCH through the listener's buffer and the dispatch runs to the   *)
(* broker.                                                                 *)
(*                                                                         *)
(* Two actions are joint: a call that ends fires an event, and a worker    *)
(* that takes the message of an event starts process_callevent with it.    *)
(* Every other step is a step of one of the two modules.                   *)
(***************************************************************************)
EXTENDS Integers, FiniteSets

CONSTANTS
  Subscriber, Worker, NoSubscriber, MaxRetry, UserMaxRetry, CompletionMaxRetry, HumanOnly,
  MaxCallrequest,   \* the constants of Dialer ...
  CallEnv,          \* ... its Env
  Dispatcher, NoDispatcher, BufferLimit, FetchLimit, MaxReconnect,
  MaxFaults,        \* the constants of CallEventQueue ...
  QueueEnv          \* ... its Env

ASSUME RetryAssumption ==
  /\ MaxRetry \in Nat /\ UserMaxRetry \in Nat /\ CompletionMaxRetry \in Nat
  /\ HumanOnly \in BOOLEAN
ASSUME NullAssumption == NoSubscriber \notin Subscriber /\ NoDispatcher \notin Dispatcher
ASSUME LimitAssumption ==
  /\ MaxCallrequest \in Nat
  /\ BufferLimit \in Nat \ {0} /\ FetchLimit \in Nat \ {0}
  /\ MaxReconnect \in Nat /\ MaxFaults \in Nat

VARIABLES
  subscriber, callrequest, owner, origin, lastId, queue, call, surveyed, worker,
  stage, listener, countrecon, dbUp, lock, pc, batch, sent, message, started, faults

callVars == <<subscriber, callrequest, owner, origin, lastId, queue, call, surveyed, worker>>
reportVars == <<stage, listener, countrecon, dbUp, lock, pc, batch, sent, message, started,
                faults>>
vars == <<callVars, reportVars>>

\* The reports of calls that are not transferred: the A-leg ends normally, or the
\* originate fails.  Each happens once per call request.
CallReport == [cr : 1 .. MaxCallrequest, kind : {"answered", "failed"}]

\* What is left to take: reports no worker has seen, the lost ones with them, and
\* those a failed run handed over again.
Untaken == {e \in CallReport : message[e] > 0 \/ (stage[e] # "future" /\ started[e] = 0)}

Calls == INSTANCE Dialer WITH callEvent <- Untaken, Env <- CallEnv
Reports == INSTANCE CallEventQueue WITH Event <- CallReport, Env <- QueueEnv

ASSUME EnvAssumption == CallEnv \subseteq Calls!EnvBehaviour /\ QueueEnv \subseteq Reports!EnvBehaviour

Init ==
  /\ Reports!Init
  /\ Calls!Init

-----------------------------------------------------------------------------
(***************************************************************************)
(* The joint actions.                                                      *)
(***************************************************************************)
\* CHANNEL_HANGUP_COMPLETE or BACKGROUND_JOB: the call is over, the event is fired.
CallEnds(c) ==
  \E e \in CallReport :
    /\ e.cr = c
    /\ Reports!Fire(e)
    /\ Calls!HangUp(c) \/ Calls!Fail(c)

\* The argument of the message is the event: process_callevent starts with it.
TaskStarts(w, e) ==
  /\ Reports!ProcessCallevent(e)
  /\ Calls!StartEvent(w, e)

-----------------------------------------------------------------------------
(***************************************************************************)
(* The steps of one side.                                                  *)
(***************************************************************************)
CallStep ==
  /\ UNCHANGED reportVars
  /\ \/ \E s \in Subscriber : Calls!PendingCall(s)
     \/ \E w \in Worker : Calls!TaskStep(w)
     \/ \E w \in Worker, c \in 1 .. MaxCallrequest : Calls!StartDial(w, c)
     \/ \E c \in 1 .. MaxCallrequest : Calls!Answer(c)

SurveyStep ==
  /\ UNCHANGED reportVars
  /\ \E c \in 1 .. MaxCallrequest : Calls!MarkCompleted(c)

ListenerStep == Reports!ListenerStep /\ UNCHANGED callVars
DispatcherStep(d) == Reports!DispatcherStep(d) /\ UNCHANGED callVars
ExpireDead == Reports!ExpireDead /\ UNCHANGED callVars

\* An outage of the database stops both sides and is left to CallEventQueue.
Fault ==
  /\ \/ Reports!StopListener
     \/ Reports!ExpireAlive
     \/ \E d \in Dispatcher : Reports!SendFails(d) \/ Reports!Crash(d)
  /\ UNCHANGED callVars

Next ==
  \/ CallStep \/ SurveyStep
  \/ \E c \in 1 .. MaxCallrequest : CallEnds(c)
  \/ \E w \in Worker, e \in CallReport : TaskStarts(w, e)
  \/ ListenerStep \/ (\E d \in Dispatcher : DispatcherStep(d))
  \/ ExpireDead \/ Fault

Spec == Init /\ [][Next]_vars

(***************************************************************************)
(* The fairness of the two modules: workers and calls go on as in Dialer,  *)
(* the listener, the runs, the keys and the database as in CallEventQueue. *)
(***************************************************************************)
Progress ==
  \/ CallStep
  \/ \E c \in 1 .. MaxCallrequest : CallEnds(c)
  \/ \E w \in Worker, e \in CallReport : TaskStarts(w, e)

FairSpec ==
  /\ Spec
  /\ WF_vars(Progress)
  /\ WF_vars((\E e \in CallReport : Reports!PushEvent(e)) /\ UNCHANGED callVars)
  /\ WF_vars(Reports!Heartbeat /\ UNCHANGED callVars)
  /\ WF_vars(Reports!CommitEvent /\ UNCHANGED callVars)
  /\ WF_vars(Reports!StartListener /\ UNCHANGED callVars)
  /\ WF_vars(ExpireDead)
  /\ \A d \in Dispatcher : WF_vars(DispatcherStep(d))

-----------------------------------------------------------------------------
(***************************************************************************)
(* Properties.                                                             *)
(***************************************************************************)
\* No contact is served by two call requests at once as long as no dispatch run has
\* failed: the key of task_pending_callevent and the marks it sets are what the
\* retries of process_callevent rely on, which test nothing but their own copies.
ServedOnce == faults = 0 => Calls!OneLiveCallrequest

\* A contact that completed the survey keeps its status and gets no call request,
\* however late, lost or overtaken the reports of its calls are, again as long as no
\* run has failed.
CompletedLeftAlone ==
  [][faults = 0 =>
       /\ \A s \in Subscriber :
            subscriber[s].status = "COMPLETED" => subscriber'[s].status = "COMPLETED"
       /\ lastId' # lastId => \A c \in surveyed : owner[c] # owner'[lastId']]_vars

Lost(s) == \E e \in CallReport : stage[e] = "lost" /\ owner[e.cr] = s

\* Every contact handed to the dialer gets an outcome in the end: no report stays in a
\* buffer, in the table or in the broker, unless the listener lost it.
ContactSettles ==
  \A s \in Subscriber :
    subscriber[s].status = "IN_PROCESS" ~> (subscriber[s].status # "IN_PROCESS" \/ Lost(s))
=============================================================================
