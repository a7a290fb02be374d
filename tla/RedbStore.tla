----------------------------- MODULE RedbStore -----------------------------
(***************************************************************************)
(* The persistent subscription store (RedbStore in crates/subscriber-db),  *)
(* the two programs that open it, nf-udr and radian-dbctl, and their       *)
(* crashes.                                                                *)
(*                                                                         *)
(* redb serialises write transactions and commits each at once or not at   *)
(* all, so an operation in one transaction is one step.  next_sqn and      *)
(* resync_sqn are two: they read and decrypt the credentials in a read     *)
(* transaction of their own.  The file lock keeps the programs apart.      *)
(* A blob is [kek, supi, key]: it decrypts under its KEK and for its SUPI  *)
(* (the AAD) only.                                                         *)
(***************************************************************************)
EXTENDS Naturals, Sequences, FiniteSets

CONSTANTS
    Supis, Keys, Clients, Rows, Docs, SqnMod, None,     \* as in SubscriberStore
    Keks,           \* master keys the programs may be started with
    DemoSupi,       \* the subscriber of provision_demo
    ServingPlmn     \* the PLMN key of provisioned data

RedbAssumption == SqnMod \in Nat \ {0, 1} /\ DemoSupi \in Supis

VARIABLES
    creds,      \* CREDENTIALS: [Supis -> blob or None]
    auth,       \* AUTH_STATE: [Supis -> SQN or None]
    rows,       \* the document tables
    holder,     \* who has the file: "nobody", "starting", "udr", "dbctl"
    kek,        \* the master key it was opened with last
    todo,       \* what the provisioning at hand has still to write
    req,        \* [Clients -> a request between its two transactions, or None]
    taken,      \* [Clients -> the SQN taken for a vector, or None]
    answer      \* [Clients -> the last answer]

tables == <<creds, auth, rows>>
clients == <<req, taken, answer>>
vars == <<tables, holder, kek, todo, clients>>

Init ==
    /\ creds = [s \in Supis |-> None] /\ auth = [s \in Supis |-> None]
    /\ rows = [r \in Rows |-> None]
    /\ holder = "nobody" /\ kek \in Keks /\ todo = <<>>
    /\ req = [c \in Clients |-> None] /\ taken = [c \in Clients |-> None]
    /\ answer = [c \in Clients |-> None]

encrypt(s, k) == [kek |-> kek, supi |-> s, key |-> k]

\* The key of a blob under a master key; None when the tag does not verify.
decrypt(k, s, blob) ==
    IF blob # None /\ blob.kek = k /\ blob.supi = s THEN blob.key ELSE None

read_key(s) == decrypt(kek, s, creds[s])
increment_sqn(n) == (n + 1) % SqnMod

-----------------------------------------------------------------------------
(* Provisioning: radian-dbctl, and provision_demo when the UDR starts *)

DbctlSets == <<"am_data", "sm_data", "smf_selection">>
DemoSets == DbctlSets \o <<"policy_data", "am_policy_data">>

\* SM and AM policy data are not scoped by the PLMN.
RowOf(t, s) == <<t, s, IF t \in {"policy_data", "am_policy_data"} THEN "" ELSE ServingPlmn>>

Credential(s, k) == <<[kind |-> "cred", supi |-> s, key |-> k]>>
Documents(sets, s, d) ==
    [i \in 1..Len(sets) |-> [kind |-> "doc", row |-> RowOf(sets[i], s), doc |-> d]]

\* RedbStore::open, master_key; provision_demo leaves credentials it can read.
StartUdr ==
    /\ holder = "nobody" /\ holder' = "starting"
    /\ kek' \in Keks
    /\ \E demo \in BOOLEAN, k \in Keys, d \in Docs :
         todo' = IF ~demo THEN <<>>
                 ELSE (IF decrypt(kek', DemoSupi, creds[DemoSupi]) # None THEN <<>>
                       ELSE Credential(DemoSupi, k)) \o Documents(DemoSets, DemoSupi, d)
    /\ UNCHANGED <<tables, clients>>

\* radian-dbctl add: the credentials, then each document.
dbctl_add(s, k, d) ==
    /\ holder = "nobody" /\ holder' = "dbctl"
    /\ kek' \in Keks
    /\ todo' = Credential(s, k) \o Documents(DbctlSets, s, d)
    /\ UNCHANGED <<tables, clients>>

\* One transaction of it: provision, or put_provisioned.  A document outside Rows is not
\* followed.
Provision ==
    /\ todo # <<>> /\ todo' = Tail(todo)
    /\ LET w == Head(todo) IN
         IF w.kind = "cred"
         THEN /\ creds' = [creds EXCEPT ![w.supi] = encrypt(w.supi, w.key)]
              /\ auth' = [auth EXCEPT ![w.supi] = 0]
              /\ UNCHANGED rows
         ELSE /\ rows' = [r \in Rows |-> IF r = w.row THEN w.doc ELSE rows[r]]
              /\ UNCHANGED <<creds, auth>>
    /\ UNCHANGED <<holder, kek, clients>>

\* The UDR serves; the tool exits.
Provisioned ==
    /\ holder \in {"starting", "dbctl"} /\ todo = <<>>
    /\ holder' = IF holder = "starting" THEN "udr" ELSE "nobody"
    /\ UNCHANGED <<tables, kek, todo, clients>>

\* The process ends, between any two transactions; requests are lost with it.
Crash ==
    /\ holder # "nobody" /\ holder' = "nobody"
    /\ todo' = <<>>
    /\ req' = [c \in Clients |-> None] /\ taken' = [c \in Clients |-> None]
    /\ UNCHANGED <<tables, kek, answer>>

-----------------------------------------------------------------------------
(* The requests that the UDR serves *)

Idle(c) == holder = "udr" /\ req[c] = None /\ taken[c] = None
Answers(c, a) == answer' = [answer EXCEPT ![c] = a]

\* Mutant: the SQN is read with the credentials and written later.
NextSqnReadsBoth(c, s) ==
    /\ Idle(c) /\ read_key(s) # None
    /\ req' = [req EXCEPT ![c] = [op |-> "resync", supi |-> s, sqn |-> increment_sqn(auth[s])]]
    /\ taken' = [taken EXCEPT ![c] = [supi |-> s, sqn |-> increment_sqn(auth[s])]]
    /\ UNCHANGED <<tables, holder, kek, todo, answer>>

\* next_sqn: exists, in a read transaction.  Unknown or unreadable: None.
NextSqnExists(c, s) ==
    /\ Idle(c) /\ read_key(s) # None
    /\ req' = [req EXCEPT ![c] = [op |-> "next", supi |-> s]]
    /\ UNCHANGED <<tables, holder, kek, todo, taken, answer>>

\* Then the write transaction; the row may be gone by now.
next_sqn(c) ==
    /\ req[c] # None /\ req[c].op = "next"
    /\ LET s == req[c].supi IN
         IF auth[s] # None
         THEN /\ auth' = [auth EXCEPT ![s] = increment_sqn(@)]
              /\ taken' = [taken EXCEPT ![c] = [supi |-> s, sqn |-> increment_sqn(auth[s])]]
         ELSE UNCHANGED <<auth, taken>>
    /\ req' = [req EXCEPT ![c] = None]
    /\ UNCHANGED <<creds, rows, holder, kek, todo, answer>>

\* The key is read once more.
generate_he_av(c) ==
    /\ taken[c] # None /\ req[c] = None
    /\ LET key == read_key(taken[c].supi) IN
         IF key # None THEN Answers(c, [kind |-> "vector", key |-> key, sqn |-> taken[c].sqn])
         ELSE UNCHANGED answer
    /\ taken' = [taken EXCEPT ![c] = None]
    /\ UNCHANGED <<tables, holder, kek, todo, req>>

\* resync_sqn: the AUTS verifies under the key; then the write transaction.
ResyncVerifies(c, s, auts) ==
    /\ Idle(c) /\ read_key(s) # None /\ auts.key = read_key(s)
    /\ req' = [req EXCEPT ![c] = [op |-> "resync", supi |-> s, sqn |-> auts.sqn]]
    /\ UNCHANGED <<tables, holder, kek, todo, taken, answer>>

resync_sqn(c) ==
    /\ req[c] # None /\ req[c].op = "resync"
    /\ auth' = [auth EXCEPT ![req[c].supi] = req[c].sqn]
    /\ req' = [req EXCEPT ![c] = None]
    /\ UNCHANGED <<creds, rows, holder, kek, todo, taken, answer>>

\* Withdraws all that is stored under the SUPI, readable or not.
Withdrawn(c, s) ==
    /\ Answers(c, [kind |-> "removed", existed |-> creds[s] # None])
    /\ creds' = [creds EXCEPT ![s] = None] /\ auth' = [auth EXCEPT ![s] = None]
    /\ rows' = [r \in Rows |-> IF r[2] = s THEN None ELSE rows[r]]
    /\ UNCHANGED <<holder, todo, req, taken>>

remove_subscriber(c, s) == Idle(c) /\ Withdrawn(c, s) /\ UNCHANGED kek

\* radian-dbctl remove: it opens the file, withdraws and exits.
dbctl_remove(c, s) ==
    /\ holder = "nobody" /\ req[c] = None
    /\ Withdrawn(c, s) /\ kek' \in Keks

\* put_provisioned, put_amf_registration, put_smf_registration, put_influence_data.
put(r, d) ==
    /\ holder = "udr"
    /\ rows' = [rows EXCEPT ![r] = d]
    /\ UNCHANGED <<creds, auth, holder, kek, todo, clients>>

\* remove_amf_registration, remove_smf_registration, remove_influence_data.
remove(c, r) ==
    /\ Idle(c)
    /\ Answers(c, [kind |-> "removed", existed |-> rows[r] # None])
    /\ rows' = [rows EXCEPT ![r] = None]
    /\ UNCHANGED <<creds, auth, holder, kek, todo, req, taken>>

\* The get and the list operations.
list(c, t) ==
    /\ Idle(c)
    /\ Answers(c, [kind |-> "rows",
         rows |-> {<<r, rows[r]>> : r \in {q \in Rows : q[1] = t /\ rows[q] # None}}])
    /\ UNCHANGED <<tables, holder, kek, todo, req, taken>>

\* Nudr: the handlers, by resource.
generate_av(c) == (\E s \in Supis : NextSqnExists(c, s)) \/ next_sqn(c) \/ generate_he_av(c)

resync_av(c) ==
    \/ resync_sqn(c)
    \/ \E s \in Supis, k \in Keys, n \in 0..SqnMod-1 : ResyncVerifies(c, s, [key |-> k, sqn |-> n])

influence_data(c) ==
    \E r \in {q \in Rows : q[1] = "influence_data"} :
        (\E d \in Docs : put(r, d)) \/ remove(c, r) \/ list(c, r[1])

\* Provisioned documents and registrations; only registrations are removed.
subscription_data(c) ==
    \E r \in {q \in Rows : q[1] # "influence_data"} :
        \/ \E d \in Docs : put(r, d)
        \/ r[1] \in {"amf_3gpp_reg", "smf_registrations"} /\ remove(c, r)
        \/ list(c, r[1])

Request(c) ==
    \/ generate_av(c) \/ resync_av(c) \/ influence_data(c) \/ subscription_data(c)
    \/ \E s \in Supis : remove_subscriber(c, s)

Next ==
    \/ StartUdr \/ Provision \/ Provisioned \/ Crash
    \/ \E s \in Supis, k \in Keys, d \in Docs : dbctl_add(s, k, d)
    \/ \E c \in Clients, s \in Supis : dbctl_remove(c, s)
    \/ \E c \in Clients : Request(c)

Spec == Init /\ [][Next]_vars

-----------------------------------------------------------------------------
(* Properties *)

Entries == [kek : Keks, supi : Supis, key : Keys]

\* Every table, request and answer has its shape.
TypeOK ==
    /\ creds \in [Supis -> Entries \cup {None}]
    /\ auth \in [Supis -> 0..SqnMod-1 \cup {None}]
    /\ rows \in [Rows -> Docs \cup {None}]
    /\ holder \in {"nobody", "starting", "udr", "dbctl"} /\ kek \in Keks
    /\ holder \in {"nobody", "udr"} => todo = <<>>
    /\ holder # "udr" => \A c \in Clients : req[c] = None /\ taken[c] = None

\* A subscriber that has credentials has a sequence number, whenever the process
\* was killed: next_sqn finds one for every subscriber that exists.
CredentialsHaveSqn == \A s \in Supis : creds[s] # None => auth[s] # None

\* The SQN of a subscriber whose credentials the open store cannot decrypt does
\* not move (next_sqn, resync_sqn), whichever master keys the programs were
\* started with before.
UnreadableUntouched ==
    \A s \in Supis : auth'[s] \notin {auth[s], None} =>
        creds'[s] = None \/ decrypt(kek', s, creds'[s]) # None

\* What a store opened with one master key shows to its clients.
Store == INSTANCE SubscriberStore WITH
    credentials <- [s \in Supis |-> read_key(s)],
    sqn <- [s \in Supis |-> IF read_key(s) # None THEN auth[s] ELSE None],
    taken <- [c \in Clients |->
                IF taken[c] # None /\ read_key(taken[c].supi) # None THEN taken[c] ELSE None]

\* Under one master key the redb store implements the in-memory store: with
\* requests between their transactions, withdrawals and crashes, every step is
\* an operation of it done at once, or is invisible.
ImplementsStore == Store!Spec

\* remove_subscriber: "remove credentials, auth state, and every provisioned
\* document": no SQN without credentials.
AuthStateHasCredentials == \A s \in Supis : auth[s] # None => creds[s] # None

\* radian-dbctl add: "credentials + a working profile": who can be authenticated
\* has the documents of the profile.
ProfileIsWhole ==
    holder = "udr" => \A s \in Supis : read_key(s) # None =>
        \A i \in 1..Len(DbctlSets) :
            RowOf(DbctlSets[i], s) \in Rows => rows[RowOf(DbctlSets[i], s)] # None
=============================================================================
