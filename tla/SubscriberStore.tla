-------------------------- MODULE SubscriberStore --------------------------
(***************************************************************************)
(* What the subscription store promises to the UDR: the operations of the  *)
(* traits SubscriberDb, ArpfKeyStore and ProvisionedDataStore, each of     *)
(* them at once, as InMemoryStore carries them out under its one mutex     *)
(* (crates/subscriber-db).  RedbStore implements it with transactions.     *)
(*                                                                         *)
(* A row is <<table, supi, key>>: a provisioned document under its data    *)
(* set and PLMN, a registration of the serving AMF, one of the serving SMF *)
(* under the PDU session, or influence data, which no subscriber owns.     *)
(***************************************************************************)
EXTENDS Naturals

CONSTANTS
    Supis, Keys,    \* subscribers, and credentials (K, OPc, AMF)
    Clients,        \* requests that the UDR handles at once
    Rows, Docs,     \* the rows of the document tables, and documents
    SqnMod,         \* 2^48
    None

VARIABLES
    credentials,    \* [Supis -> Keys or None]
    sqn,            \* [Supis -> the last SQN taken, or None]
    rows,           \* [Rows -> Docs or None]
    taken,          \* the SQN a request has taken for the vector it will ask for
    answer          \* the last answer to each request

storeVars == <<credentials, sqn, rows, taken, answer>>

Exists(s) == credentials[s] # None
Owned(s) == {r \in Rows : r[2] = s}
Answers(c, a) == answer' = [answer EXCEPT ![c] = a]

\* increment_sqn: big-endian, without an overflow check.
increment_sqn(n) == (n + 1) % SqnMod

Init ==
    /\ credentials = [s \in Supis |-> None] /\ sqn = [s \in Supis |-> None]
    /\ rows = [r \in Rows |-> None]
    /\ taken = [c \in Clients |-> None] /\ answer = [c \in Clients |-> None]

provision(s, k) ==
    /\ credentials' = [credentials EXCEPT ![s] = k]
    /\ sqn' = [sqn EXCEPT ![s] = 0]
    /\ UNCHANGED <<rows, taken, answer>>

\* A vector can no longer be derived for an SQN that was taken before.
remove_subscriber(c, s) ==
    /\ Answers(c, [kind |-> "removed", existed |-> Exists(s)])
    /\ credentials' = [credentials EXCEPT ![s] = None]
    /\ sqn' = [sqn EXCEPT ![s] = None]
    /\ rows' = [r \in Rows |-> IF r \in Owned(s) THEN None ELSE rows[r]]
    /\ taken' = [d \in Clients |-> IF taken[d] # None /\ taken[d].supi = s THEN None ELSE taken[d]]

next_sqn(c, s) ==
    /\ taken[c] = None /\ Exists(s)
    /\ sqn' = [sqn EXCEPT ![s] = increment_sqn(@)]
    /\ taken' = [taken EXCEPT ![c] = [supi |-> s, sqn |-> increment_sqn(sqn[s])]]
    /\ UNCHANGED <<credentials, rows, answer>>

generate_he_av(c) ==
    /\ taken[c] # None
    /\ Answers(c, [kind |-> "vector", key |-> credentials[taken[c].supi], sqn |-> taken[c].sqn])
    /\ taken' = [taken EXCEPT ![c] = None]
    /\ UNCHANGED <<credentials, sqn, rows>>

\* An AUTS is the key it was made with and the SQN of the USIM.
resync_sqn(s, auts) ==
    /\ Exists(s) /\ auts.key = credentials[s]
    /\ sqn' = [sqn EXCEPT ![s] = auts.sqn]
    /\ UNCHANGED <<credentials, rows, taken, answer>>

\* put_provisioned, put_amf_registration, put_smf_registration, put_influence_data.
put(r, d) ==
    /\ rows' = [rows EXCEPT ![r] = d]
    /\ UNCHANGED <<credentials, sqn, taken, answer>>

\* remove_amf_registration, remove_smf_registration, remove_influence_data.
remove(c, r) ==
    /\ Answers(c, [kind |-> "removed", existed |-> rows[r] # None])
    /\ rows' = [rows EXCEPT ![r] = None]
    /\ UNCHANGED <<credentials, sqn, taken>>

\* The get and the list operations: what a table holds.
Present(t) == {<<r, rows[r]>> : r \in {q \in Rows : q[1] = t /\ rows[q] # None}}

list(c, t) ==
    /\ Answers(c, [kind |-> "rows", rows |-> Present(t)])
    /\ UNCHANGED <<credentials, sqn, rows, taken>>

\* A request that is given up: the process that served it is gone.
drop == /\ taken' = [c \in Clients |-> None]
        /\ UNCHANGED <<credentials, sqn, rows, answer>>

Next ==
    \/ \E s \in Supis, k \in Keys : provision(s, k)
    \/ \E c \in Clients, s \in Supis : remove_subscriber(c, s) \/ next_sqn(c, s)
    \/ \E c \in Clients : generate_he_av(c)
    \/ \E s \in Supis, k \in Keys, n \in 0..SqnMod-1 : resync_sqn(s, [key |-> k, sqn |-> n])
    \/ \E r \in Rows, d \in Docs : put(r, d)
    \/ \E c \in Clients, r \in Rows : remove(c, r) \/ list(c, r[1])
    \/ drop

Spec == Init /\ [][Next]_storeVars
=============================================================================
