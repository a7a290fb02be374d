---------------------------- MODULE UsageLedger ----------------------------
(***************************************************************************)
(* What the volume measurement of a session promises to charging: every    *)
(* unit that is carried is billed exactly once, by a report while the      *)
(* session lives or by the final one when it ends.                         *)
(***************************************************************************)
EXTENDS Integers

CONSTANT Ids

VARIABLES open, unbilled, billed

vars == <<open, unbilled, billed>>

Init == open = {} /\ unbilled = [i \in Ids |-> 0] /\ billed = [i \in Ids |-> 0]

Open(i) == i \notin open /\ open' = open \cup {i} /\ UNCHANGED <<unbilled, billed>>

Carry(i) == i \in open /\ unbilled' = [unbilled EXCEPT ![i] = @ + 1] /\ UNCHANGED <<open, billed>>

\* A report bills what no earlier report covered, all of it.
Bill(i) ==
    /\ i \in open
    /\ billed' = [billed EXCEPT ![i] = @ + unbilled[i]]
    /\ unbilled' = [unbilled EXCEPT ![i] = 0]

Report(i) == Bill(i) /\ UNCHANGED open
Close(i) == Bill(i) /\ open' = open \ {i}

Next == \E i \in Ids : Open(i) \/ Carry(i) \/ Report(i) \/ Close(i)

Spec == Init /\ [][Next]_vars
=============================================================================
