--------------------------- MODULE MCCallEventQueue ---------------------------
EXTENDS CallEventQueue, TLC
QueueSymmetry == Permutations(Event) \cup Permutations(Dispatcher)
=============================================================================
