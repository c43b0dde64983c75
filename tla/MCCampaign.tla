----------------------------- MODULE MCCampaign -----------------------------
EXTENDS Campaign, TLC
CONSTANTS b1, b2, c1, c2
TwoBooks == c1 :> b1 @@ c2 :> b2
OneBook == c1 :> b1 @@ c2 :> b1
OneContact == c1 :> b1
WorkerSymmetry == Permutations(Worker)
Symmetry == Permutations(Worker) \cup Permutations(Contact)
=============================================================================
