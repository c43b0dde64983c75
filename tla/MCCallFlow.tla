----------------------------- MODULE MCCallFlow -----------------------------
EXTENDS CallFlow

Row2(type, branch, retries) ==
  [type |-> type, branch |-> branch, retries |-> retries, completed |-> FALSE]

NoKeys == [k \in {} |-> Nowhere]
OneKey(k, n) == [j \in {k} |-> n]

PlayRows == {Row2(t, b, 0) :
  t \in PlainType, b \in {NoKeys, OneKey("0", Nowhere), OneKey("0", 1), OneKey("timeout", 2)}}
EndRows == {Row2(t, NoKeys, 0) : t \in {"HANGUP", "DNC", "OTHER"}}

\* Branchings with and without each key, some of them without a goto.
DigitBranch ==
  UNION {[D -> {Nowhere, 2}] : D \in SUBSET {"1", "any", "invalid", "timeout"}}
DigitRows == {Row2("CHOICE", b, 0) : b \in DigitBranch}
               \cup {Row2(t, b, r) : t \in {"RATING", "CAPTURE"}, b \in DigitBranch, r \in {0, 1}}
SmallRows == EndRows \cup {Row2("CHOICE", OneKey("1", 1), 0)}
               \cup {[Row2(t, OneKey("0", 1), 0) EXCEPT !.completed = TRUE] :
                       t \in {"TRANSFER", "RECORD"}}

\* A section of every kind, then a short one that may lead back to it.
TwoSections ==
  {[n \in {1, 2} |-> IF n = 1 THEN a ELSE b] :
     a \in PlayRows \cup EndRows \cup DigitRows, b \in SmallRows}
=============================================================================
