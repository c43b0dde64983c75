--------------------------- MODULE EventHandover ---------------------------
(***************************************************************************)
(* What the path of a FreeSWITCH event to a process_callevent task         *)
(* promises, whatever sits in between: an event that was reported is       *)
(* handed to a worker once, unless it is lost before any worker saw it or, *)
(* once a run has failed, handed over again.  This is the view module      *)
(* Dialer has of its variable callEvent.                                   *)
(***************************************************************************)
EXTENDS Naturals

CONSTANT Event

VARIABLES
  reported,   \* events that happened
  lost,       \* events no worker will ever see
  handed,     \* how many tasks were started for each event
  failed      \* a run has died, failed or outlasted its lock

vars == <<reported, lost, handed, failed>>

Init ==
  /\ reported = {}
  /\ lost = {}
  /\ handed = [e \in Event |-> 0]
  /\ failed = FALSE

Report(e) ==
  /\ e \notin reported
  /\ reported' = reported \cup {e}
  /\ lost' \in {lost, lost \cup {e}}
  /\ UNCHANGED <<handed, failed>>

\* Only what was never handed over can be lost.
Lose(B) ==
  /\ B \subseteq reported
  /\ \A e \in B : handed[e] = 0
  /\ lost' = lost \cup B
  /\ UNCHANGED <<reported, handed, failed>>

HandOver(e) ==
  /\ e \in reported \ lost
  /\ handed[e] = 0 \/ failed
  /\ handed' = [handed EXCEPT ![e] = @ + 1]
  /\ UNCHANGED <<reported, lost, failed>>

Fail ==
  /\ failed' = TRUE
  /\ UNCHANGED <<reported, lost, handed>>

Next ==
  \/ \E e \in Event : Report(e) \/ HandOver(e)
  \/ \E B \in SUBSET Event : Lose(B)
  \/ Fail

Spec == Init /\ [][Next]_vars
=============================================================================
