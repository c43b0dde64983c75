--------------------------- MODULE CallEventQueue ---------------------------
(***************************************************************************)
(* From a FreeSWITCH event to the process_callevent tasks:                 *)
(*                                                                         *)
(*   listener.lua        buffers the events it pops and stores the buffer  *)
(*                       with one INSERT at a HEARTBEAT or when it is full *)
(*   callevent_processing                                                  *)
(*                       selects the pending rows, sends one task per row, *)
(*                       and marks the rows it selected                    *)
(*   only_one            the lock that keeps two of these runs apart; it   *)
(*                       expires after LOCK_EXPIRE seconds                 *)
(*                                                                         *)
(* Event stands for the rows the listener gives status 1; those it gives   *)
(* status 0 only fill the buffer faster.                                   *)
(***************************************************************************)
EXTENDS Integers, FiniteSets

CONSTANTS
  Event,
  Dispatcher,     \* Celery processes that may run task_pending_callevent
  NoDispatcher,   \* the lock is free
  BufferLimit,    \* 500 in push_event
  FetchLimit,     \* LIMIT 1000 of the SELECT
  MaxReconnect,   \* MAX_RECONNECT of listener.lua
  Env,
  MaxFaults       \* bound: crashes, failed sends and expiries of a behaviour

EnvBehaviour == {
  "insert_fails",   \* the INSERT and its retry are refused
  "db_down",        \* PostgreSQL refuses connections for a while
  "stop",           \* the listener is stopped and started again
  "crash",          \* a dispatcher dies
  "send_fails",     \* the broker refuses a task: delay() raises
  "lock_expires" }  \* a run outlasts LOCK_EXPIRE

ASSUME NullAssumption == NoDispatcher \notin Dispatcher
ASSUME LimitAssumption ==
  /\ BufferLimit \in Nat \ {0}
  /\ FetchLimit \in Nat \ {0}
  /\ MaxReconnect \in Nat
  /\ MaxFaults \in Nat
ASSUME EnvAssumption == Env \subseteq EnvBehaviour

Stage == {
  "future",     \* has not happened
  "consumer",   \* in the queue of the EventConsumer
  "buffer",     \* in results
  "pending",    \* a row of call_event with status 1
  "done",       \* a row with status 2
  "lost" }

ListenerState == {"popping", "connecting", "stopped"}
DispatcherPc == {"idle", "select", "send"}

VARIABLES
  stage,       \* where each event is
  listener,
  countrecon,  \* attempts of the reconnection loop, capped at MaxReconnect + 1
  dbUp,
  lock,        \* the holder of the key task_pending_callevent
  pc,
  batch,       \* the rows a dispatcher has fetched
  sent,        \* those of them it has sent
  message,     \* process_callevent messages in the broker, per event
  started,     \* process_callevent tasks started, per event
  faults

vars == <<stage, listener, countrecon, dbUp, lock, pc, batch, sent, message, started, faults>>
listenerVars == <<stage, listener, countrecon, dbUp>>
dispatcherVars == <<lock, pc, batch, sent, message>>

TypeOK ==
  /\ stage \in [Event -> Stage]
  /\ listener \in ListenerState
  /\ countrecon \in 0 .. MaxReconnect + 1
  /\ dbUp \in BOOLEAN
  /\ lock \in Dispatcher \cup {NoDispatcher}
  /\ pc \in [Dispatcher -> DispatcherPc]
  /\ batch \in [Dispatcher -> SUBSET Event]
  /\ sent \in [Dispatcher -> SUBSET Event]
  /\ message \in [Event -> Nat]
  /\ started \in [Event -> Nat]
  /\ faults \in 0 .. MaxFaults

Init ==
  /\ stage = [e \in Event |-> "future"]
  /\ listener = "popping"
  /\ countrecon = 0
  /\ dbUp = TRUE
  /\ lock = NoDispatcher
  /\ pc = [d \in Dispatcher |-> "idle"]
  /\ batch = [d \in Dispatcher |-> {}]
  /\ sent = [d \in Dispatcher |-> {}]
  /\ message = [e \in Event |-> 0]
  /\ started = [e \in Event |-> 0]
  /\ faults = 0

At(st) == {e \in Event : stage[e] = st}
Moved(B, st) == [e \in Event |-> IF e \in B THEN st ELSE stage[e]]

-----------------------------------------------------------------------------
(***************************************************************************)
(* FreeSWITCH and listener.lua.                                            *)
(***************************************************************************)
\* Nobody consumes an event while the script is not running.
Fire(e) ==
  /\ stage[e] = "future"
  /\ stage' = Moved({e}, IF listener = "stopped" THEN "lost" ELSE "consumer")
  /\ UNCHANGED <<listener, countrecon, dbUp, dispatcherVars, started, faults>>

\* push_event: the buffer is committed at once when it is full.
PushEvent(e) ==
  /\ listener = "popping"
  /\ stage[e] = "consumer"
  /\ stage' = Moved({e}, "buffer")
  /\ IF Cardinality(At("buffer")) + 1 >= BufferLimit
     THEN listener' = "connecting" /\ countrecon' = 0
     ELSE UNCHANGED <<listener, countrecon>>
  /\ UNCHANGED <<dbUp, dispatcherVars, started, faults>>

\* Mutant: a heartbeat leaves a buffer with room in it.
Heartbeat_FullOnly ==
  /\ listener = "popping"
  /\ Cardinality(At("buffer")) >= BufferLimit
  /\ listener' = "connecting"
  /\ countrecon' = 0
  /\ UNCHANGED <<stage, dbUp, dispatcherVars, started, faults>>

Heartbeat ==
  /\ listener = "popping"
  /\ At("buffer") # {}
  /\ listener' = "connecting"
  /\ countrecon' = 0
  /\ UNCHANGED <<stage, dbUp, dispatcherVars, started, faults>>

\* The loop compares countrecon with MAXRECONNECT, a name nothing defines: it
\* is nil and the loop never gives up.
Reconnect ==
  /\ listener = "connecting"
  /\ ~dbUp
  /\ countrecon' = IF countrecon > MaxReconnect THEN countrecon ELSE countrecon + 1
  /\ UNCHANGED <<stage, listener, dbUp, dispatcherVars, started, faults>>

\* commit_event once connected: one INSERT, retried once on the same connection,
\* and the buffer is emptied whatever happened.
CommitEvent ==
  /\ listener = "connecting"
  /\ dbUp
  /\ \/ stage' = Moved(At("buffer"), "pending")
     \/ "insert_fails" \in Env /\ stage' = Moved(At("buffer"), "lost")
  /\ listener' = "popping"
  /\ UNCHANGED <<countrecon, dbUp, dispatcherVars, started, faults>>

\* The stop message breaks the loop without a last commit_event.
StopListener ==
  /\ "stop" \in Env
  /\ listener = "popping"
  /\ listener' = "stopped"
  /\ stage' = Moved(At("buffer") \cup At("consumer"), "lost")
  /\ UNCHANGED <<countrecon, dbUp, dispatcherVars, started, faults>>

StartListener ==
  /\ listener = "stopped"
  /\ listener' = "popping"
  /\ UNCHANGED <<stage, countrecon, dbUp, dispatcherVars, started, faults>>

DbDown ==
  /\ "db_down" \in Env
  /\ dbUp
  /\ faults < MaxFaults
  /\ faults' = faults + 1
  /\ dbUp' = FALSE
  /\ UNCHANGED <<stage, listener, countrecon, dispatcherVars, started>>

DbUp ==
  /\ ~dbUp
  /\ dbUp' = TRUE
  /\ UNCHANGED <<stage, listener, countrecon, dispatcherVars, started, faults>>

-----------------------------------------------------------------------------
(***************************************************************************)
(* task_pending_callevent.                                                 *)
(***************************************************************************)
\* Mutant: without only_one.
TaskPendingCallevent_NoLock(d) ==
  /\ pc[d] = "idle"
  /\ lock' = d
  /\ pc' = [pc EXCEPT ![d] = "select"]
  /\ UNCHANGED <<listenerVars, batch, sent, message, started, faults>>

\* only_one: a run that finds the key taken is skipped, the others take it.
TaskPendingCallevent(d) ==
  /\ pc[d] = "idle"
  /\ lock = NoDispatcher
  /\ lock' = d
  /\ pc' = [pc EXCEPT ![d] = "select"]
  /\ UNCHANGED <<listenerVars, batch, sent, message, started, faults>>

Fetched == {B \in SUBSET At("pending") :
              Cardinality(B) <= FetchLimit
                /\ (Cardinality(B) < FetchLimit => B = At("pending"))}

\* SELECT ... WHERE status=1 LIMIT 1000, in no particular order.
SelectPending(d) ==
  /\ pc[d] = "select"
  /\ dbUp
  /\ \E B \in Fetched : batch' = [batch EXCEPT ![d] = B]
  /\ sent' = [sent EXCEPT ![d] = {}]
  /\ pc' = [pc EXCEPT ![d] = "send"]
  /\ UNCHANGED <<listenerVars, lock, message, started, faults>>

\* "Error Fetching call_event": logged, and the run ends.
SelectFails(d) ==
  /\ pc[d] = "select"
  /\ ~dbUp
  /\ pc' = [pc EXCEPT ![d] = "idle"]
  /\ lock' = NoDispatcher
  /\ UNCHANGED <<listenerVars, batch, sent, message, started, faults>>

SendTask(d, e) ==
  /\ pc[d] = "send"
  /\ e \in batch[d] \ sent[d]
  /\ sent' = [sent EXCEPT ![d] = @ \cup {e}]
  /\ message' = [message EXCEPT ![e] = @ + 1]
  /\ UNCHANGED <<listenerVars, lock, pc, batch, started, faults>>

\* Mutant: UPDATE ... WHERE status=1.
UpdateStatus_AllPending(d) ==
  /\ pc[d] = "send"
  /\ sent[d] = batch[d]
  /\ dbUp \/ batch[d] = {}
  /\ stage' = Moved(At("pending"), "done")
  /\ pc' = [pc EXCEPT ![d] = "idle"]
  /\ lock' = NoDispatcher
  /\ UNCHANGED <<listener, countrecon, dbUp, batch, sent, message, started, faults>>

\* UPDATE call_event SET status=2 WHERE id IN (the ids fetched); the end of the
\* run frees the key, whoever holds it by now.
UpdateStatus(d) ==
  /\ pc[d] = "send"
  /\ sent[d] = batch[d]
  /\ dbUp \/ batch[d] = {}
  /\ stage' = Moved(batch[d], "done")
  /\ pc' = [pc EXCEPT ![d] = "idle"]
  /\ lock' = NoDispatcher
  /\ UNCHANGED <<listener, countrecon, dbUp, batch, sent, message, started, faults>>

\* The run ends on an exception before the UPDATE.
SendFails(d) ==
  /\ pc[d] = "send"
  /\ \/ "send_fails" \in Env /\ sent[d] # batch[d]
     \/ ~dbUp /\ sent[d] = batch[d] /\ batch[d] # {}
  /\ faults < MaxFaults
  /\ faults' = faults + 1
  /\ pc' = [pc EXCEPT ![d] = "idle"]
  /\ lock' = NoDispatcher
  /\ UNCHANGED <<listenerVars, batch, sent, message, started>>

\* The process dies and leaves the key behind.
Crash(d) ==
  /\ "crash" \in Env
  /\ pc[d] # "idle"
  /\ faults < MaxFaults
  /\ faults' = faults + 1
  /\ pc' = [pc EXCEPT ![d] = "idle"]
  /\ UNCHANGED <<listenerVars, lock, batch, sent, message, started>>

\* The key of a process that died expires ...
ExpireDead ==
  /\ lock # NoDispatcher
  /\ pc[lock] = "idle"
  /\ lock' = NoDispatcher
  /\ UNCHANGED <<listenerVars, pc, batch, sent, message, started, faults>>

\* ... and so does that of a run that is too slow.
ExpireAlive ==
  /\ "lock_expires" \in Env
  /\ lock # NoDispatcher
  /\ pc[lock] # "idle"
  /\ faults < MaxFaults
  /\ faults' = faults + 1
  /\ lock' = NoDispatcher
  /\ UNCHANGED <<listenerVars, pc, batch, sent, message, started>>

\* Mutant: a message that is gone is acknowledged again.
ProcessCallevent_AcksTwice(e) ==
  /\ message[e] > 0 \/ started[e] > 0
  /\ message' = [message EXCEPT ![e] = @ - 1]
  /\ started' = [started EXCEPT ![e] = @ + 1]
  /\ UNCHANGED <<listenerVars, lock, pc, batch, sent, faults>>

\* A worker takes a message and starts process_callevent.
ProcessCallevent(e) ==
  /\ message[e] > 0
  /\ message' = [message EXCEPT ![e] = @ - 1]
  /\ started' = [started EXCEPT ![e] = @ + 1]
  /\ UNCHANGED <<listenerVars, lock, pc, batch, sent, faults>>

-----------------------------------------------------------------------------
ListenerStep ==
  \/ \E e \in Event : PushEvent(e)
  \/ Heartbeat \/ Reconnect \/ CommitEvent \/ StartListener

DispatcherStep(d) ==
  \/ TaskPendingCallevent(d) \/ SelectPending(d) \/ SelectFails(d)
  \/ (\E e \in Event : SendTask(d, e)) \/ UpdateStatus(d)

Next ==
  \/ \E e \in Event : Fire(e) \/ ProcessCallevent(e)
  \/ ListenerStep \/ StopListener
  \/ DbDown \/ DbUp
  \/ \E d \in Dispatcher : DispatcherStep(d) \/ SendFails(d) \/ Crash(d)
  \/ ExpireDead \/ ExpireAlive

Spec == Init /\ [][Next]_vars

(***************************************************************************)
(* The listener loops, heartbeats come every 30 seconds, beat starts a run *)
(* every 15 seconds, workers consume the broker, keys expire, PostgreSQL   *)
(* comes back.  A run that has started goes on unless it fails.            *)
(***************************************************************************)
Fairness ==
  /\ \A e \in Event : WF_vars(PushEvent(e)) /\ WF_vars(ProcessCallevent(e))
  /\ WF_vars(Heartbeat) /\ WF_vars(CommitEvent) /\ WF_vars(StartListener)
  /\ WF_vars(DbUp) /\ WF_vars(ExpireDead)
  /\ \A d \in Dispatcher : WF_vars(DispatcherStep(d))

FairSpec == Spec /\ Fairness

-----------------------------------------------------------------------------
(***************************************************************************)
(* Properties.                                                             *)
(***************************************************************************)
\* A row marked as processed was really handed over: the UPDATE never covers a
\* row that was inserted after the SELECT, however runs overlap and fail.
DoneMeansSent ==
  \A e \in Event : stage[e] = "done" => message[e] + started[e] >= 1

\* The buffer of the listener never holds a full batch while it pops events.
BufferBounded ==
  Cardinality(At("buffer")) <= BufferLimit
    /\ (listener = "popping" => Cardinality(At("buffer")) < BufferLimit)

\* Every event is handed to a worker in the end, unless the listener lost it, although
\* runs crash, overlap or fail half way and the database is away for a while.
EveryEventHandled ==
  \A e \in Event : stage[e] # "future" ~> started[e] >= 1 \/ stage[e] = "lost"

\* Seen from outside: the events that happened, the lost ones, the tasks started,
\* and whether a run has failed.
Handover == INSTANCE EventHandover WITH
  reported <- {e \in Event : stage[e] # "future"},
  lost <- At("lost"),
  handed <- started,
  failed <- faults > 0

\* While no run dies, fails or outlasts its lock an event is handed over at most
\* once; afterwards it can be handed over again, and nothing worse: what was lost
\* stays lost.
HandoverKept == Handover!Spec
=============================================================================
