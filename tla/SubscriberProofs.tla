--------------------------- MODULE SubscriberProofs ---------------------------
(***************************************************************************)
(* Proofs about the functions behind the service-based interface: the      *)
(* persistent store implements the one the traits promise (RedbStore), no  *)
(* sequence number is given out twice (AkaSqn), who is heard stays         *)
(* registered (NrfRegistry), a token of the key in force is accepted       *)
(* (SbiTokens), what is in effect is within an AF's contract               *)
(* (NefInfluence), and a change of the subscription is delivered           *)
(* (SdmNotify).  They share no variable; the store's module is extended,   *)
(* the others are instances with variables of their own.                   *)
(***************************************************************************)
EXTENDS RedbStore, Integers, FiniteSetTheorems, TLAPS

CONSTANTS
    Procedures, Presents, Drift, KekConfigured, MaxFailures, MaxAkaRestarts,    \* of AkaSqn
    Nfs, Profiles, Queries, Period, Latency, MaxLost, MaxRestarts,              \* of NrfRegistry
    Tasks, Services, Allowed, Asymmetric, ScopeOf, Lifetime, Margin,
    MaxTokRestarts, MaxTokFailures,                                             \* of SbiTokens
    Afs, Requests, Contents, Sla, MaxNefFailures, MaxSessions,                  \* of NefInfluence
    Puts, MaxRegistrations, MaxIdle, MaxLosses, MaxUdmRestarts                  \* of SdmNotify

VARIABLES
    cred, sqn, usim, ctxs, proc, epoch, issued, failures, udrRestarts,
    entries, age, nf, wait, overdue, found, gone, missed, lost, restarts,
    nrfKey, registered, cache, jwks, call, tokRestarts, tokFailures,
    at, applied, subs, docs, apps, breakout, withdrawing, nefFailures, sessions, asked,
    doc, change, sdmSubs, nextId, held, calls, ue, queue, sent, count

Aka == INSTANCE AkaSqn WITH MaxRestarts <- MaxAkaRestarts, restarts <- udrRestarts
Nrf == INSTANCE NrfRegistry
Tok == INSTANCE SbiTokens WITH MaxRestarts <- MaxTokRestarts, MaxFailures <- MaxTokFailures,
    key <- nrfKey, restarts <- tokRestarts, failures <- tokFailures
Nef == INSTANCE NefInfluence WITH MaxFailures <- MaxNefFailures, failures <- nefFailures
Sdm == INSTANCE SdmNotify WITH subs <- sdmSubs

-----------------------------------------------------------------------------
(* The store *)

\* None is no key, blob, sequence number or request.
RedbNone ==
    /\ None \notin Keys /\ None \notin Entries /\ None \notin 0..SqnMod-1
    /\ None \notin [supi : Supis, sqn : 0..SqnMod-1]

\* The 48 bits of a sequence number.
Sqns == 0..SqnMod-1

\* The transactions of a provisioning.
AllSets == {"am_data", "sm_data", "smf_selection", "policy_data", "am_policy_data"}
CredWrites == [kind : {"cred"}, supi : Supis, key : Keys]
DocWrites == [kind : {"doc"}, row : {RowOf(t, s) : t \in AllSets, s \in Supis}, doc : Docs]
Writes == CredWrites \cup DocWrites

\* The tables: a blob is stored under the SUPI it was encrypted for.
RedbTables ==
    /\ creds \in [Supis -> Entries \cup {None}]
    /\ \A s \in Supis : creds[s] # None => creds[s].supi = s
    /\ auth \in [Supis -> Sqns \cup {None}]
    /\ rows \in [Rows -> Docs \cup {None}]
    /\ CredentialsHaveSqn

\* The process that has the file, and what it has still to provision.
RedbProcess ==
    /\ holder \in {"nobody", "starting", "udr", "dbctl"} /\ kek \in Keks
    /\ holder \in {"nobody", "udr"} => todo = <<>>
    /\ todo \in Seq(Writes)

\* The requests: they live in the UDR, and what waits between its two transactions
\* concerns credentials that were readable, or were withdrawn since.
RedbRequests ==
    /\ DOMAIN req = Clients /\ req = [c \in Clients |-> req[c]]
    /\ DOMAIN taken = Clients /\ taken = [c \in Clients |-> taken[c]]
    /\ DOMAIN answer = Clients /\ answer = [c \in Clients |-> answer[c]]
    /\ holder # "udr" => \A c \in Clients : req[c] = None /\ taken[c] = None
    /\ \A c \in Clients :
         /\ req[c] # None =>
              /\ taken[c] = None /\ req[c].supi \in Supis
              /\ req[c].op = "resync" => req[c].sqn \in Sqns
              /\ creds[req[c].supi] = None \/ read_key(req[c].supi) # None
         /\ taken[c] # None => taken[c] \in [supi : Supis, sqn : Sqns]

\* The inductive invariant.
RedbIInv == RedbTables /\ RedbProcess /\ RedbRequests

\* It holds of an empty file.
LEMMA RedbInitIInv == ASSUME RedbAssumption, RedbNone PROVE Init => RedbIInv
BY DEF RedbAssumption, RedbNone, Init, RedbIInv, RedbTables, RedbProcess, RedbRequests, Sqns,
   CredentialsHaveSqn

\* What radian-dbctl add and provision_demo write: documents of the profile
LEMMA RedbDocuments ==
    ASSUME NEW s \in Supis, NEW d \in Docs
    PROVE  /\ Documents(DbctlSets, s, d) \in Seq(Writes)
           /\ Documents(DemoSets, s, d) \in Seq(Writes)
<1>1. ASSUME NEW t \in AllSets PROVE [kind |-> "doc", row |-> RowOf(t, s), doc |-> d] \in Writes
  BY DEF Writes, DocWrites
<1>2. Len(DbctlSets) \in Nat /\ \A i \in 1..Len(DbctlSets) : DbctlSets[i] \in AllSets
  BY DEF DbctlSets, AllSets
<1>3. DemoSets \in Seq(AllSets)
  BY DEF DemoSets, DbctlSets, AllSets
<1>4. Len(DemoSets) \in Nat /\ \A i \in 1..Len(DemoSets) : DemoSets[i] \in AllSets
  BY <1>3
<1>5. QED
  BY <1>1, <1>2, <1>4 DEF Documents

\* and the credentials before them.
LEMMA RedbCredential ==
    ASSUME NEW s \in Supis, NEW k \in Keys, NEW w \in Seq(Writes)
    PROVE  Credential(s, k) \o w \in Seq(Writes)
<1>1. Credential(s, k) \in Seq(Writes)
  BY DEF Credential, Writes, CredWrites
<1>2. QED
  BY <1>1

\* increment_sqn stays within 48 bits.
LEMMA RedbIncrement == ASSUME RedbAssumption, NEW n \in Sqns PROVE increment_sqn(n) \in Sqns
BY DEF RedbAssumption, Sqns, increment_sqn

\* Every transaction, start and crash keeps the invariant, and moves no sequence number
\* whose credentials the open store cannot decrypt.
LEMMA RedbStep ==
    ASSUME RedbAssumption, RedbNone, RedbIInv, [Next]_vars
    PROVE  RedbIInv' /\ UnreadableUntouched
<1> USE DEF RedbIInv
<1>1. CASE StartUdr
  <2>1. /\ holder = "nobody" /\ holder' = "starting" /\ kek' \in Keks
        /\ UNCHANGED <<creds, auth, rows, req, taken, answer>>
    BY <1>1 DEF StartUdr, tables, clients
  <2>2. todo' \in Seq(Writes)
    <3>1. PICK demo \in BOOLEAN, k \in Keys, d \in Docs :
            todo' = IF ~demo THEN <<>>
                    ELSE (IF decrypt(kek', DemoSupi, creds[DemoSupi]) # None THEN <<>>
                          ELSE Credential(DemoSupi, k)) \o Documents(DemoSets, DemoSupi, d)
      BY <1>1 DEF StartUdr
    <3>2. DemoSupi \in Supis
      BY DEF RedbAssumption
    <3>3. Documents(DemoSets, DemoSupi, d) \in Seq(Writes)
      BY <3>2, RedbDocuments
    <3>4. Credential(DemoSupi, k) \o Documents(DemoSets, DemoSupi, d) \in Seq(Writes)
      BY <3>2, <3>3, RedbCredential
    <3>5. <<>> \o Documents(DemoSets, DemoSupi, d) \in Seq(Writes)
      BY <3>3
    <3>6. QED
      BY <3>1, <3>4, <3>5
  <2>3. QED
    BY <2>1, <2>2 DEF RedbTables, RedbProcess, RedbRequests, CredentialsHaveSqn, UnreadableUntouched
<1>2. ASSUME NEW s \in Supis, NEW k \in Keys, NEW d \in Docs, dbctl_add(s, k, d)
      PROVE  RedbIInv' /\ UnreadableUntouched
  <2>1. /\ holder = "nobody" /\ holder' = "dbctl" /\ kek' \in Keks
        /\ UNCHANGED <<creds, auth, rows, req, taken, answer>>
        /\ todo' \in Seq(Writes)
    BY <1>2, RedbDocuments, RedbCredential DEF dbctl_add, tables, clients
  <2>2. QED
    BY <2>1 DEF RedbTables, RedbProcess, RedbRequests, CredentialsHaveSqn, UnreadableUntouched
<1>3. CASE Provision
  <2>1. /\ todo \in Seq(Writes) /\ todo # <<>>
        /\ todo' = Tail(todo) /\ holder \notin {"nobody", "udr"}
        /\ UNCHANGED <<holder, kek, req, taken, answer>>
        /\ Head(todo) \in Writes /\ todo' \in Seq(Writes)
    BY <1>3 DEF Provision, clients, RedbProcess
  <2>2. RedbProcess'
    BY <2>1 DEF RedbProcess
  <2>3. CASE Head(todo).kind = "cred"
    <3> DEFINE w == Head(todo)
    <3>1. /\ w.supi \in Supis /\ w.key \in Keys
      BY <2>1, <2>3 DEF Writes, CredWrites, DocWrites
    <3>2. /\ creds' = [creds EXCEPT ![w.supi] = encrypt(w.supi, w.key)]
          /\ auth' = [auth EXCEPT ![w.supi] = 0] /\ rows' = rows
      BY <1>3, <2>3 DEF Provision
    <3> HIDE DEF w
    <3>3. encrypt(w.supi, w.key) \in Entries /\ encrypt(w.supi, w.key).supi = w.supi
          /\ encrypt(w.supi, w.key).kek = kek' /\ encrypt(w.supi, w.key).key # None
      BY <2>1, <3>1 DEF encrypt, Entries, RedbProcess, RedbNone
    <3>4. 0 \in Sqns /\ 0 # None
      BY DEF Sqns, RedbAssumption, RedbNone
    <3>5. RedbTables'
      BY <3>1, <3>2, <3>3, <3>4 DEF RedbTables, CredentialsHaveSqn
    <3>6. RedbRequests'
      BY <2>1 DEF RedbRequests
    <3>7. UnreadableUntouched
      BY <3>1, <3>2, <3>3 DEF UnreadableUntouched, decrypt, RedbTables
    <3>8. QED
      BY <2>2, <3>5, <3>6, <3>7
  <2>4. CASE Head(todo).kind # "cred"
    <3> DEFINE w == Head(todo)
    <3>1. w.doc \in Docs
      BY <2>1, <2>4 DEF Writes, CredWrites, DocWrites
    <3>2. /\ rows' = [r \in Rows |-> IF r = w.row THEN w.doc ELSE rows[r]]
          /\ UNCHANGED <<creds, auth>>
      BY <1>3, <2>4 DEF Provision
    <3> HIDE DEF w
    <3>5. RedbTables'
      BY <3>1, <3>2 DEF RedbTables, CredentialsHaveSqn
    <3>6. RedbRequests'
      BY <2>1 DEF RedbRequests
    <3>7. UnreadableUntouched
      BY <3>2 DEF UnreadableUntouched
    <3>8. QED
      BY <2>2, <3>5, <3>6, <3>7
  <2>5. QED
    BY <2>3, <2>4
<1>4. CASE Provisioned
  BY <1>4 DEF Provisioned, tables, clients, RedbTables, RedbProcess, RedbRequests,
     CredentialsHaveSqn, UnreadableUntouched
<1>5. CASE Crash
  BY <1>5 DEF Crash, tables, RedbTables, RedbProcess, RedbRequests, CredentialsHaveSqn,
     UnreadableUntouched
<1>6. ASSUME NEW c \in Clients, NEW s \in Supis, dbctl_remove(c, s)
      PROVE  RedbIInv' /\ UnreadableUntouched
  BY <1>6 DEF dbctl_remove, Withdrawn, Answers, RedbTables, RedbProcess, RedbRequests,
     CredentialsHaveSqn, UnreadableUntouched
<1>7. ASSUME NEW c \in Clients, NEW s \in Supis, NextSqnExists(c, s)
      PROVE  RedbIInv' /\ UnreadableUntouched
  BY <1>7 DEF NextSqnExists, Idle, tables, read_key, RedbTables, RedbProcess, RedbRequests,
     CredentialsHaveSqn, UnreadableUntouched
<1>8. ASSUME NEW c \in Clients, next_sqn(c)
      PROVE  RedbIInv' /\ UnreadableUntouched
  <2> DEFINE s == req[c].supi
  <2>1. /\ s \in Supis /\ req[c] # None /\ taken[c] = None /\ holder = "udr"
        /\ creds[s] = None \/ read_key(s) # None
        /\ req' = [req EXCEPT ![c] = None]
        /\ UNCHANGED <<creds, rows, holder, kek, todo, answer>>
    BY <1>8 DEF next_sqn, RedbRequests
  <2>2. \A x \in Supis : read_key(x)' = read_key(x)
    BY <2>1 DEF read_key
  <2>3. RedbProcess'
    BY <2>1 DEF RedbProcess
  <2>4. CASE auth[s] # None
    <3>1. auth[s] \in Sqns /\ increment_sqn(auth[s]) \in Sqns
      BY <2>1, <2>4, RedbIncrement DEF RedbTables
    <3>2. /\ auth' = [auth EXCEPT ![s] = increment_sqn(auth[s])]
          /\ taken' = [taken EXCEPT ![c] = [supi |-> s, sqn |-> increment_sqn(auth[s])]]
      BY <1>8, <2>4 DEF next_sqn
    <3>3. increment_sqn(auth[s]) # None
      BY <3>1 DEF RedbNone, Sqns
    <3>4. RedbTables'
      BY <2>1, <3>1, <3>2, <3>3 DEF RedbTables, CredentialsHaveSqn
    <3>5. RedbRequests'
      BY <2>1, <2>2, <3>1, <3>2 DEF RedbRequests
    <3>6. UnreadableUntouched
      BY <2>1, <2>2, <3>2 DEF UnreadableUntouched, RedbTables, read_key
    <3>7. QED
      BY <2>3, <3>4, <3>5, <3>6
  <2>5. CASE auth[s] = None
    <3>1. UNCHANGED <<auth, taken>>
      BY <1>8, <2>5 DEF next_sqn
    <3>2. QED
      BY <2>1, <2>2, <2>3, <3>1 DEF RedbTables, RedbRequests, CredentialsHaveSqn,
         UnreadableUntouched
  <2>6. QED
    BY <2>4, <2>5
<1>9. ASSUME NEW c \in Clients, generate_he_av(c)
      PROVE  RedbIInv' /\ UnreadableUntouched
  BY <1>9 DEF generate_he_av, Answers, read_key, tables, RedbTables, RedbProcess, RedbRequests,
     CredentialsHaveSqn, UnreadableUntouched
<1>10. ASSUME NEW c \in Clients, NEW s \in Supis, NEW auts, auts.sqn \in Sqns, ResyncVerifies(c, s, auts)
      PROVE  RedbIInv' /\ UnreadableUntouched
  BY <1>10 DEF ResyncVerifies, Idle, tables, read_key, RedbTables, RedbProcess, RedbRequests,
     CredentialsHaveSqn, UnreadableUntouched
<1>11. ASSUME NEW c \in Clients, resync_sqn(c)
      PROVE  RedbIInv' /\ UnreadableUntouched
  <2> DEFINE s == req[c].supi
  <2>1. /\ s \in Supis /\ req[c] # None /\ holder = "udr" /\ req[c].sqn \in Sqns
        /\ creds[s] = None \/ read_key(s) # None
        /\ auth' = [auth EXCEPT ![s] = req[c].sqn]
        /\ req' = [req EXCEPT ![c] = None]
        /\ UNCHANGED <<creds, rows, holder, kek, todo, taken, answer>>
    BY <1>11 DEF resync_sqn, RedbRequests
  <2>2. \A x \in Supis : read_key(x)' = read_key(x)
    BY <2>1 DEF read_key
  <2>3. RedbProcess'
    BY <2>1 DEF RedbProcess
  <2>4. RedbTables'
    BY <2>1 DEF RedbTables, CredentialsHaveSqn, RedbNone, Sqns
  <2>5. RedbRequests'
    BY <2>1, <2>2 DEF RedbRequests
  <2>6. UnreadableUntouched
    BY <2>1, <2>2 DEF UnreadableUntouched, RedbTables, read_key
  <2>7. QED
    BY <2>3, <2>4, <2>5, <2>6
<1>12. ASSUME NEW c \in Clients, NEW s \in Supis, remove_subscriber(c, s)
      PROVE  RedbIInv' /\ UnreadableUntouched
  <2>1. /\ holder = "udr" /\ UNCHANGED <<holder, kek, todo, req, taken>>
        /\ creds' = [creds EXCEPT ![s] = None] /\ auth' = [auth EXCEPT ![s] = None]
        /\ rows' = [r \in Rows |-> IF r[2] = s THEN None ELSE rows[r]]
        /\ answer' = [answer EXCEPT ![c] = [kind |-> "removed", existed |-> creds[s] # None]]
    BY <1>12 DEF remove_subscriber, Idle, Withdrawn, Answers
  <2>2. RedbProcess'
    BY <2>1 DEF RedbProcess
  <2>3. RedbTables'
    BY <2>1 DEF RedbTables, CredentialsHaveSqn
  <2>4. /\ creds'[s] = None
        /\ \A x \in Supis \ {s} : creds'[x] = creds[x] /\ read_key(x)' = read_key(x)
    BY <2>1 DEF read_key, RedbTables
  <2>5. RedbRequests'
    BY <2>1, <2>4 DEF RedbRequests
  <2>6. UnreadableUntouched
    BY <2>1 DEF UnreadableUntouched, RedbTables
  <2>7. QED
    BY <2>2, <2>3, <2>5, <2>6
<1>13. ASSUME NEW r \in Rows, NEW d \in Docs, put(r, d)
      PROVE  RedbIInv' /\ UnreadableUntouched
  BY <1>13 DEF put, clients, read_key, RedbTables, RedbProcess, RedbRequests, CredentialsHaveSqn,
     UnreadableUntouched
<1>14. ASSUME NEW c \in Clients, NEW r \in Rows, remove(c, r)
      PROVE  RedbIInv' /\ UnreadableUntouched
  BY <1>14 DEF remove, Answers, read_key, RedbTables, RedbProcess, RedbRequests,
     CredentialsHaveSqn, UnreadableUntouched
<1>15. ASSUME NEW c \in Clients, NEW t, list(c, t)
      PROVE  RedbIInv' /\ UnreadableUntouched
  BY <1>15 DEF list, Answers, read_key, tables, RedbTables, RedbProcess, RedbRequests,
     CredentialsHaveSqn, UnreadableUntouched
<1>16. CASE UNCHANGED vars
  BY <1>16 DEF vars, tables, clients, read_key, RedbTables, RedbProcess, RedbRequests,
     CredentialsHaveSqn, UnreadableUntouched
<1>17. ASSUME NEW c \in Clients, Request(c)
       PROVE  RedbIInv' /\ UnreadableUntouched
  BY <1>17, <1>7, <1>8, <1>9, <1>10, <1>11, <1>12, <1>13, <1>14, <1>15 DEF Request, generate_av,
     resync_av, influence_data, subscription_data, Sqns
<1>18. QED
  BY <1>1, <1>2, <1>3, <1>4, <1>5, <1>6, <1>16, <1>17 DEF Next
\* The master key is the same in every run of the two programs.
OneKek == \A k, l \in Keks : k = l

\* Then every blob decrypts, and has a sequence number.
LEMMA RedbShown ==
    ASSUME RedbAssumption, RedbNone, OneKek, RedbIInv, NEW s \in Supis
    PROVE  /\ read_key(s) = IF creds[s] # None THEN creds[s].key ELSE None
           /\ read_key(s) \in Keys \cup {None}
           /\ creds[s] # None <=> read_key(s) # None
           /\ read_key(s) # None => auth[s] # None /\ auth[s] \in Sqns
BY DEF RedbNone, RedbIInv, RedbTables, RedbProcess, OneKek, read_key, decrypt, Entries,
   CredentialsHaveSqn

\* Every step of the store under one master key is an operation of SubscriberStore at once
\* (a provisioning transaction, the second transaction of next_sqn and resync_sqn, a
\* withdrawal, a crash as drop) or is invisible (a first transaction, a start, an SQN that
\* moves for credentials withdrawn meanwhile).
LEMMA RedbImplements ==
    ASSUME RedbAssumption, RedbNone, OneKek, RedbIInv, RedbIInv', [Next]_vars
    PROVE  [Store!Next]_(Store!storeVars)
<1> USE DEF RedbIInv
<1>z. ASSUME NEW s \in Supis
      PROVE  /\ read_key(s) = IF creds[s] # None THEN creds[s].key ELSE None
             /\ read_key(s) \in Keys \cup {None}
             /\ creds[s] # None <=> read_key(s) # None
             /\ read_key(s) # None => auth[s] # None /\ auth[s] \in Sqns
  BY RedbShown
<1>q. auth \in [Supis -> Sqns \cup {None}] /\ creds \in [Supis -> Entries \cup {None}]
  BY DEF RedbTables
<1>0. ASSUME NEW s \in Supis
      PROVE  /\ read_key(s)' = IF creds'[s] # None THEN creds'[s].key ELSE None
             /\ read_key(s)' \in Keys \cup {None}
             /\ creds'[s] # None <=> read_key(s)' # None
  BY DEF RedbNone, RedbTables, RedbProcess, OneKek, read_key, decrypt, Entries
<1> DEFINE C == [s \in Supis |-> read_key(s)]
           Q == [s \in Supis |-> IF read_key(s) # None THEN auth[s] ELSE None]
           T == [c \in Clients |->
                   IF taken[c] # None /\ read_key(taken[c].supi) # None THEN taken[c] ELSE None]
<1>s. ASSUME NEW c \in Clients, taken[c] # None PROVE taken[c] \in [supi : Supis, sqn : Sqns]
  BY <1>s DEF RedbRequests
<1>r. ASSUME UNCHANGED creds, NEW s \in Supis PROVE read_key(s)' = read_key(s)
  BY <1>z, <1>0, <1>r
<1>a. ASSUME UNCHANGED <<creds, auth>> PROVE UNCHANGED <<C, Q>>
  BY <1>r, <1>a
<1>b. ASSUME UNCHANGED <<creds, taken>> PROVE UNCHANGED T
  BY <1>r, <1>s, <1>b
<1> HIDE DEF C, Q, T
<1>1. ASSUME UNCHANGED <<creds, auth, rows, taken, answer>> PROVE UNCHANGED Store!storeVars
  BY <1>1, <1>a, <1>b DEF Store!storeVars, C, Q, T
<1>2. CASE StartUdr \/ Provisioned
  BY <1>1, <1>2 DEF StartUdr, Provisioned, tables, clients
<1>3. ASSUME NEW s \in Supis, NEW k \in Keys, NEW d \in Docs, dbctl_add(s, k, d)
      PROVE  UNCHANGED Store!storeVars
  BY <1>1, <1>3 DEF dbctl_add, tables, clients
<1>4. CASE Provision
  <2>1. PICK w \in Writes : w = Head(todo) /\ holder # "udr" /\ UNCHANGED <<taken, answer, kek>>
    BY <1>4 DEF Provision, clients, RedbProcess
  <2>2. UNCHANGED T
    BY <2>1 DEF T, RedbRequests
  <2>3. CASE w.kind = "cred"
    <3>1. w.supi \in Supis /\ w.key \in Keys
      BY <2>1, <2>3 DEF Writes, CredWrites, DocWrites
    <3>2. /\ creds' = [creds EXCEPT ![w.supi] = encrypt(w.supi, w.key)]
          /\ auth' = [auth EXCEPT ![w.supi] = 0] /\ rows' = rows
      BY <1>4, <2>1, <2>3 DEF Provision
    <3>3. encrypt(w.supi, w.key) \in Entries /\ encrypt(w.supi, w.key).key = w.key
      BY <2>1, <3>1 DEF encrypt, Entries, RedbProcess
    <3>4. /\ read_key(w.supi)' = w.key /\ w.key # None
          /\ \A x \in Supis \ {w.supi} : read_key(x)' = read_key(x)
      BY <1>z, <1>0, <1>q, <3>1, <3>2, <3>3 DEF RedbNone
    <3>5. C' = [C EXCEPT ![w.supi] = w.key]
      BY <3>1, <3>4 DEF C
    <3>6. Q' = [Q EXCEPT ![w.supi] = 0]
      BY <1>q, <3>1, <3>2, <3>4 DEF Q
    <3>7. Store!provision(w.supi, w.key)
      BY <2>1, <2>2, <3>2, <3>5, <3>6 DEF Store!provision, C, Q, T
    <3>8. QED
      BY <3>1, <3>7 DEF Store!Next
  <2>4. CASE w.kind # "cred"
    <3>1. w.doc \in Docs
      BY <2>1, <2>4 DEF Writes, CredWrites, DocWrites
    <3>2. /\ rows' = [r \in Rows |-> IF r = w.row THEN w.doc ELSE rows[r]]
          /\ UNCHANGED <<creds, auth>>
      BY <1>4, <2>1, <2>4 DEF Provision
    <3>3. CASE w.row \in Rows
      <4>1. rows' = [rows EXCEPT ![w.row] = w.doc]
        BY <3>2, <3>3 DEF RedbTables
      <4>2. Store!put(w.row, w.doc)
        BY <1>a, <2>1, <2>2, <3>2, <4>1 DEF Store!put, C, Q, T
      <4>3. QED
        BY <3>1, <3>3, <4>2 DEF Store!Next
    <3>4. CASE w.row \notin Rows
      <4>1. UNCHANGED rows
        BY <3>2, <3>4 DEF RedbTables
      <4>2. QED
        BY <1>1, <2>1, <3>2, <4>1
    <3>5. QED
      BY <3>3, <3>4
  <2>5. QED
    BY <2>3, <2>4
<1>5. CASE Crash
  <2>1. Store!drop
    <3>1. \A s \in Supis : read_key(s)' = read_key(s)
      BY <1>r, <1>5 DEF Crash, tables
    <3>2. QED
      BY <1>5, <3>1 DEF Store!drop, Crash, tables
  <2>2. QED
    BY <2>1 DEF Store!Next
<1>6. ASSUME NEW c \in Clients, NEW s \in Supis, Withdrawn(c, s)
      PROVE  Store!remove_subscriber(c, s)
  <2>1. /\ creds' = [creds EXCEPT ![s] = None] /\ auth' = [auth EXCEPT ![s] = None]
        /\ rows' = [r \in Rows |-> IF r[2] = s THEN None ELSE rows[r]] /\ taken' = taken
        /\ answer' = [answer EXCEPT ![c] = [kind |-> "removed", existed |-> creds[s] # None]]
    BY <1>6 DEF Withdrawn, Answers
  <2>2. /\ read_key(s)' = None
        /\ \A x \in Supis \ {s} : read_key(x)' = read_key(x)
    BY <1>z, <1>0, <1>q, <2>1
  <2>3. C' = [C EXCEPT ![s] = None]
    BY <2>2 DEF C
  <2>4. Q' = [Q EXCEPT ![s] = None]
    <3>1. Q'[s] = None
      BY <2>2 DEF Q
    <3>2. ASSUME NEW x \in Supis \ {s} PROVE Q'[x] = Q[x]
      BY <1>q, <2>1, <2>2 DEF Q
    <3>3. QED
      BY <3>1, <3>2 DEF Q
  <2>5. T' = [d \in Clients |-> IF T[d] # None /\ T[d].supi = s THEN None ELSE T[d]]
    BY <1>s, <2>1, <2>2 DEF T
  <2>6. rows' = [r \in Rows |-> IF r \in Store!Owned(s) THEN None ELSE rows[r]]
    BY <2>1 DEF Store!Owned
  <2>7. answer' = [answer EXCEPT ![c] = [kind |-> "removed", existed |-> C[s] # None]]
    BY <1>z, <2>1 DEF C
  <2>8. QED
    BY <2>3, <2>4, <2>5, <2>6, <2>7 DEF Store!remove_subscriber, Store!Answers, Store!Exists, C,
       Q, T
<1>7. ASSUME NEW c \in Clients, NEW s \in Supis, NextSqnExists(c, s)
      PROVE  UNCHANGED Store!storeVars
  BY <1>1, <1>7 DEF NextSqnExists, tables
<1>8. ASSUME NEW c \in Clients, next_sqn(c)
      PROVE  [Store!Next]_(Store!storeVars)
  <2>1. PICK s \in Supis : s = req[c].supi /\ taken[c] = None /\ UNCHANGED <<creds, rows, answer>>
    BY <1>8 DEF next_sqn, RedbRequests
  <2>2. CASE auth[s] = None
    BY <1>1, <1>8, <2>1, <2>2 DEF next_sqn
  <2>3. CASE auth[s] # None
    <3>1. PICK n : /\ n = [supi |-> s, sqn |-> increment_sqn(auth[s])]
                   /\ auth' = [auth EXCEPT ![s] = increment_sqn(auth[s])]
                   /\ taken' = [taken EXCEPT ![c] = n]
      BY <1>8, <2>1, <2>3 DEF next_sqn
    <3>2. n \in [supi : Supis, sqn : Sqns] /\ n # None /\ n.supi = s
      BY <2>1, <2>3, <3>1, RedbIncrement DEF RedbTables, RedbNone, Sqns
    <3>3. UNCHANGED C /\ \A x \in Supis : read_key(x)' = read_key(x)
      BY <1>r, <2>1 DEF C
    <3>4. CASE read_key(s) # None
      <4>1. Q' = [Q EXCEPT ![s] = increment_sqn(Q[s])] /\ Q[s] = auth[s]
        BY <1>q, <2>1, <3>1, <3>3, <3>4 DEF Q
      <4>2. T' = [T EXCEPT ![c] = n] /\ T[c] = None
        <5>1. ASSUME NEW d \in Clients \ {c} PROVE T'[d] = T[d]
          BY <1>s, <3>1, <3>3 DEF T, RedbRequests
        <5>2. T'[c] = n /\ T[c] = None
          BY <2>1, <3>1, <3>2, <3>3, <3>4 DEF T, RedbRequests
        <5>3. QED
          BY <5>1, <5>2 DEF T
      <4>3. C[s] # None
        BY <2>1, <3>4 DEF C
      <4>4. Store!next_sqn(c, s)
        BY <2>1, <3>1, <3>3, <4>1, <4>2, <4>3 DEF Store!next_sqn, Store!Exists,
           Store!increment_sqn, increment_sqn, C, Q, T
      <4>5. QED
        BY <2>1, <4>4 DEF Store!Next
    <3>5. CASE read_key(s) = None
      <4>1. UNCHANGED Q
        BY <1>q, <2>1, <3>1, <3>3, <3>5 DEF Q
      <4>2. UNCHANGED T
        BY <1>s, <2>1, <3>1, <3>2, <3>3, <3>5 DEF T, RedbRequests
      <4>3. QED
        BY <2>1, <3>3, <4>1, <4>2 DEF Store!storeVars, C, Q, T
    <3>6. QED
      BY <3>4, <3>5
  <2>4. QED
    BY <2>2, <2>3
<1>9. ASSUME NEW c \in Clients, generate_he_av(c)
      PROVE  [Store!Next]_(Store!storeVars)
  <2>1. PICK s \in Supis :
        /\ s = taken[c].supi /\ taken[c] # None /\ taken' = [taken EXCEPT ![c] = None]
        /\ UNCHANGED <<creds, auth, rows>>
    BY <1>9, <1>s DEF generate_he_av, tables
  <2>2. UNCHANGED <<C, Q>> /\ \A x \in Supis : read_key(x)' = read_key(x)
    BY <1>a, <1>r, <2>1
  <2>3. T' = [T EXCEPT ![c] = None]
    BY <1>s, <2>1, <2>2 DEF T, RedbRequests
  <2>4. CASE read_key(s) # None
    <3>1. answer' = [answer EXCEPT ![c] = [kind |-> "vector", key |-> read_key(s), sqn |-> taken[c].sqn]]
      BY <1>9, <2>1, <2>4 DEF generate_he_av, Answers
    <3>2. T[c] = taken[c] /\ C[s] = read_key(s)
      BY <2>1, <2>4 DEF T, C
    <3>3. Store!generate_he_av(c)
      BY <2>1, <2>2, <2>3, <3>1, <3>2 DEF Store!generate_he_av, Store!Answers, C, Q, T
    <3>4. QED
      BY <3>3 DEF Store!Next
  <2>5. CASE read_key(s) = None
    <3>1. UNCHANGED <<answer, T>>
      BY <1>9, <2>1, <2>3, <2>5 DEF generate_he_av, T
    <3>2. QED
      BY <2>1, <2>2, <3>1 DEF Store!storeVars, C, Q, T
  <2>6. QED
    BY <2>4, <2>5
<1>10. ASSUME NEW c \in Clients, NEW s \in Supis, NEW auts, ResyncVerifies(c, s, auts)
      PROVE  UNCHANGED Store!storeVars
  BY <1>1, <1>10 DEF ResyncVerifies, tables
<1>11. ASSUME NEW c \in Clients, resync_sqn(c)
      PROVE  [Store!Next]_(Store!storeVars)
  <2>1. PICK s \in Supis, n \in Sqns :
        /\ auth' = [auth EXCEPT ![s] = n]
        /\ UNCHANGED <<creds, rows, taken, answer>>
    BY <1>11 DEF resync_sqn, RedbRequests
  <2>2. UNCHANGED <<C, T>> /\ \A x \in Supis : read_key(x)' = read_key(x)
    BY <1>b, <1>r, <2>1 DEF C
  <2>3. CASE read_key(s) # None
    <3>1. Q' = [Q EXCEPT ![s] = n]
      BY <1>q, <2>1, <2>2, <2>3 DEF Q
    <3>2. PICK k \in Keys : C[s] = k /\ k # None
      BY <1>z, <2>1, <2>3 DEF C, RedbNone
    <3>3. Store!resync_sqn(s, [key |-> k, sqn |-> n])
      BY <2>1, <2>2, <2>3, <3>1, <3>2 DEF Store!resync_sqn, Store!Exists, C, Q, T
    <3>4. QED
      BY <3>3 DEF Store!Next, Sqns
  <2>4. CASE read_key(s) = None
    <3>1. UNCHANGED Q
      BY <1>q, <2>1, <2>2, <2>4 DEF Q
    <3>2. QED
      BY <2>1, <2>2, <3>1 DEF Store!storeVars, C, Q, T
  <2>5. QED
    BY <2>3, <2>4
<1>12. ASSUME NEW r \in Rows, NEW d \in Docs, put(r, d)
      PROVE  Store!put(r, d)
  <2>1. UNCHANGED <<C, Q, T>>
    BY <1>12, <1>a, <1>b DEF put, tables, clients
  <2>2. QED
    BY <1>12, <2>1 DEF put, tables, clients, Answers, Store!put, Store!Answers, Store!Present, C,
       Q, T
<1>13. ASSUME NEW c \in Clients, NEW r \in Rows, remove(c, r)
      PROVE  Store!remove(c, r)
  <2>1. UNCHANGED <<C, Q, T>>
    BY <1>13, <1>a, <1>b DEF remove, tables, clients
  <2>2. QED
    BY <1>13, <2>1 DEF remove, tables, clients, Answers, Store!remove, Store!Answers,
       Store!Present, C, Q, T
<1>14. ASSUME NEW c \in Clients, NEW t, list(c, t)
      PROVE  Store!list(c, t)
  <2>1. UNCHANGED <<C, Q, T>>
    BY <1>14, <1>a, <1>b DEF list, tables, clients
  <2>2. QED
    BY <1>14, <2>1 DEF list, tables, clients, Answers, Store!list, Store!Answers, Store!Present,
       C, Q, T
<1>15. CASE UNCHANGED vars
  BY <1>1, <1>15 DEF vars, tables, clients
<1>17. ASSUME NEW c \in Clients, Request(c)
       PROVE  [Store!Next]_(Store!storeVars)
  BY <1>17, <1>6, <1>7, <1>8, <1>9, <1>10, <1>11, <1>12, <1>13, <1>14 DEF Request, generate_av,
     resync_av, influence_data, subscription_data, Store!Next, remove_subscriber
<1>18. QED
  BY <1>2, <1>3, <1>4, <1>5, <1>6, <1>15, <1>17 DEF Next, dbctl_remove, Store!Next

\* An empty file shows an empty store.
LEMMA RedbShowsNothing == ASSUME RedbNone PROVE Init => Store!Init
BY DEF RedbNone, Init, Store!Init, read_key, decrypt

\* provision writes credentials and sequence number in one transaction, remove_subscriber
\* withdraws both, and next_sqn and resync_sqn check the key first: whatever crashes between
\* and whichever master keys the programs are started with, credentials have a sequence
\* number, and it does not move while they cannot be read.
THEOREM UnreadableStays ==
    ASSUME RedbAssumption, RedbNone
    PROVE  Spec => []CredentialsHaveSqn /\ [][UnreadableUntouched]_vars
<1>1. RedbIInv /\ [Next]_vars => RedbIInv' /\ UnreadableUntouched
  BY RedbStep
<1>2. RedbIInv => CredentialsHaveSqn
  BY DEF RedbIInv, RedbTables
<1>3. QED
  BY RedbInitIInv, <1>1, <1>2, PTL DEF Spec

\* The redb store implements the in-memory one of the traits SubscriberDb, ArpfKeyStore and
\* ProvisionedDataStore, for any subscribers, clients and rows, under one master key.
THEOREM RedbIsTheStore ==
    ASSUME RedbAssumption, RedbNone, OneKek
    PROVE  Spec => ImplementsStore
<1>1. RedbIInv /\ [Next]_vars => RedbIInv'
  BY RedbStep
<1>2. RedbIInv /\ RedbIInv' /\ [Next]_vars => [Store!Next]_(Store!storeVars)
  BY RedbImplements
<1>3. QED
  BY RedbInitIInv, RedbShowsNothing, <1>1, <1>2, PTL DEF Spec, ImplementsStore, Store!Spec

-----------------------------------------------------------------------------
(* The sequence number *)

\* None is nothing a variable holds otherwise; the UDR has a master key, so that what it
\* provisioned before a restart is left alone.
AkaAssumption ==
    /\ None \notin Nat /\ None # "readable" /\ Drift \in Nat /\ KekConfigured = TRUE
    /\ None \notin Aka!Vectors

\* Every registration presents the SUPI itself.
AllSupi == \A p \in Procedures : Presents[p] = "supi"
AkaIds == {Presents[p] : p \in Procedures}

\* Where a registration can be, and what it knows.
AkaStates == {"idle", "sqn", "derive", "challenge", "response", "failure", "adopt", "aborted", "success"}
AkaProc == [at : AkaStates, id : AkaIds, vector : Aka!Vectors \cup {None}, auts : Nat \cup {None},
            resynced : BOOLEAN, alone : BOOLEAN, epoch : Nat]

\* It holds a vector that was issued.
AkaHeld == {"challenge", "response", "failure"}

\* Shapes; a count goes on until the subscriber is withdrawn.
AkaTypes ==
    /\ cred \in {"readable", None} /\ sqn \in Nat \cup {None} /\ usim \in Nat
    /\ epoch \in Nat /\ failures \in Nat /\ udrRestarts \in Nat
    /\ proc \in [Procedures -> AkaProc]
    /\ ctxs \in SUBSET Aka!Vectors
    /\ issued \in SUBSET [rand : Nat, sqn : Nat, epoch : Nat] /\ IsFiniteSet(issued)
    /\ cred = "readable" => sqn \in Nat
    /\ failures = 0 => cred = "readable"
    /\ \A p \in Procedures :
         /\ proc[p].at \in AkaHeld \cup {"derive"} => proc[p].vector \in Aka!Vectors
         /\ proc[p].at \in {"failure", "adopt"} => proc[p].auts \in Nat
         /\ proc[p].at = "idle" => ~proc[p].resynced

\* What was taken out of the present count is not above it, and is taken once.
AkaTaken ==
    /\ \A v \in issued :
         v.epoch <= epoch /\ (v.epoch = epoch => cred = "readable" /\ v.sqn <= sqn)
    /\ \A p \in Procedures : proc[p].at = "derive" =>
         /\ proc[p].epoch <= epoch
         /\ proc[p].epoch = epoch => cred = "readable" /\ proc[p].vector.sqn <= sqn
         /\ \A v \in issued : v.epoch = proc[p].epoch => v.sqn # proc[p].vector.sqn
         /\ \A q \in Procedures \ {p} : proc[q].at = "derive" /\ proc[q].epoch = proc[p].epoch =>
              proc[q].vector.sqn # proc[p].vector.sqn
    /\ Aka!SqnNotReused

\* Every challenge has a RAND of its own, and the AUSF keeps it until it is confirmed.
AkaKept ==
    \A p \in Procedures :
      /\ proc[p].at \in AkaHeld => proc[p].vector.rand <= Cardinality(issued)
      /\ proc[p].at \in {"challenge", "response"} => proc[p].vector \in ctxs
      /\ proc[p].at \in AkaHeld => \A q \in Procedures \ {p} :
           proc[q].at \in AkaHeld => proc[q].vector # proc[p].vector

\* A procedure that runs alone finds the UDR where it has left it.
AkaAlone ==
    AllSupi => \A p \in Procedures : failures = 0 /\ proc[p].alone =>
      /\ proc[p].at # "aborted"
      /\ p \in Aka!Active =>
           /\ Aka!Active = {p}
           /\ proc[p].at = "adopt" => proc[p].auts = usim
           /\ proc[p].at = "failure" => ~proc[p].resynced /\ proc[p].auts = usim
           /\ proc[p].resynced =>
                /\ proc[p].at = "sqn" => sqn = usim
                /\ proc[p].at \in {"derive", "challenge"} => proc[p].vector.sqn = usim + 1
                /\ proc[p].at # "adopt"

\* The inductive invariant.
AkaIInv == AkaTypes /\ AkaTaken /\ AkaKept /\ AkaAlone

\* The instance's Cardinality is the one the theorems about finite sets speak of.
LEMMA AkaCardinality == \A S : Aka!Cardinality(S) = Cardinality(S)
  BY DEF Aka!Cardinality, Cardinality

\* What is known of a registration,
LEMMA AkaFields ==
    ASSUME NEW r \in AkaProc
    PROVE  /\ r.at \in AkaStates /\ r.id \in AkaIds /\ r.vector \in Aka!Vectors \cup {None}
           /\ r.auts \in Nat \cup {None} /\ r.resynced \in BOOLEAN /\ r.alone \in BOOLEAN
           /\ r.epoch \in Nat
  BY DEF AkaProc

\* and how the steps change it.
LEMMA AkaEdits ==
    ASSUME NEW r \in AkaProc
    PROVE  /\ \A x \in AkaStates : [r EXCEPT !.at = x] \in AkaProc
           /\ \A b \in BOOLEAN : [r EXCEPT !.alone = b] \in AkaProc
           /\ \A x \in AkaStates, b \in BOOLEAN :
                /\ [r EXCEPT !.at = x, !.alone = b] \in AkaProc
                /\ [r EXCEPT !.at = x, !.resynced = b] \in AkaProc
           /\ \A x \in AkaStates, n \in Nat : [r EXCEPT !.at = x, !.auts = n] \in AkaProc
           /\ \A x \in AkaStates, v \in Aka!Vectors : [r EXCEPT !.at = x, !.vector = v] \in AkaProc
<1>1. \A x \in AkaStates : [r EXCEPT !.at = x] \in AkaProc
  BY DEF AkaProc
<1>2. \A b \in BOOLEAN : [r EXCEPT !.alone = b] \in AkaProc
  BY DEF AkaProc
<1>3. \A x \in AkaStates, b \in BOOLEAN :
        /\ [r EXCEPT !.at = x, !.alone = b] \in AkaProc
        /\ [r EXCEPT !.at = x, !.resynced = b] \in AkaProc
  BY DEF AkaProc
<1>4. \A x \in AkaStates, n \in Nat : [r EXCEPT !.at = x, !.auts = n] \in AkaProc
  BY DEF AkaProc
<1>5. \A x \in AkaStates, v \in Aka!Vectors : [r EXCEPT !.at = x, !.vector = v] \in AkaProc
  BY DEF AkaProc
<1>6. QED
  BY <1>1, <1>2, <1>3, <1>4, <1>5

\* It holds before any registration.
LEMMA AkaInitIInv == ASSUME AkaAssumption PROVE Aka!Init => AkaIInv
<1> SUFFICES ASSUME Aka!Init PROVE AkaIInv
  OBVIOUS
<1> USE DEF AkaAssumption, Aka!Init, Aka!NotBegun
<1>1. AkaTypes
  BY FS_EmptySet DEF AkaTypes, AkaProc, AkaIds, AkaStates, AkaHeld
<1>2. AkaTaken
  BY DEF AkaTaken, Aka!SqnNotReused
<1>3. AkaKept
  BY DEF AkaKept, AkaHeld
<1>4. AkaAlone
  BY DEF AkaAlone, Aka!Active, Aka!Ended
<1>5. QED
  BY <1>1, <1>2, <1>3, <1>4 DEF AkaIInv

\* Every step of the AMF, the AUSF, the UDM, the UDR and the UE keeps it.
LEMMA AkaStep ==
    ASSUME AkaAssumption, AkaIInv, [Aka!Next]_(Aka!vars)
    PROVE  AkaIInv'
<1> USE DEF AkaAssumption, AkaIInv, AkaHeld, Aka!Ended, AkaStates
<1>1. ASSUME NEW p \in Procedures, Aka!Begin(p) PROVE AkaIInv'
  <2> DEFINE lone == (Aka!Active = {})
             f(q) == IF q = p THEN [proc[q] EXCEPT !.at = "sqn", !.alone = lone]
                     ELSE IF q \in Aka!Active THEN [proc[q] EXCEPT !.alone = FALSE] ELSE proc[q]
  <2>p. proc \in [Procedures -> AkaProc] /\ lone \in BOOLEAN
    BY DEF AkaTypes
  <2>0. proc' = [q \in Procedures |-> f(q)] /\ proc[p].at = "idle"
    BY <1>1 DEF Aka!Begin
  <2> HIDE DEF lone
  <2>a. \A q \in Procedures : f(q) \in AkaProc
    BY <2>p, AkaEdits, "sqn" \in AkaStates, FALSE \in BOOLEAN
  <2>b. /\ proc' \in [Procedures -> AkaProc]
        /\ proc[p].at = "idle" /\ proc'[p].at = "sqn" /\ proc'[p].alone = lone
        /\ proc'[p].resynced = proc[p].resynced
        /\ \A q \in Procedures \ {p} :
             /\ proc'[q].at = proc[q].at /\ proc'[q].vector = proc[q].vector
             /\ proc'[q].auts = proc[q].auts /\ proc'[q].epoch = proc[q].epoch
             /\ proc'[q].resynced = proc[q].resynced
             /\ q \in Aka!Active => ~proc'[q].alone
             /\ q \notin Aka!Active => proc'[q].alone = proc[q].alone
    <3>1. proc' \in [Procedures -> AkaProc]
      BY <2>0, <2>a
    <3>2. proc'[p] = f(p) /\ \A q \in Procedures \ {p} : proc'[q] = f(q)
      BY <2>0
    <3>3. /\ f(p).at = "sqn" /\ f(p).alone = lone /\ f(p).resynced = proc[p].resynced
      BY <2>p DEF AkaProc
    <3>4. ASSUME NEW q \in Procedures \ {p}
          PROVE /\ f(q).at = proc[q].at /\ f(q).vector = proc[q].vector
                /\ f(q).auts = proc[q].auts /\ f(q).epoch = proc[q].epoch
                /\ f(q).resynced = proc[q].resynced
                /\ q \in Aka!Active => ~f(q).alone
                /\ q \notin Aka!Active => f(q).alone = proc[q].alone
      BY <2>p DEF AkaProc
    <3>5. QED
      BY <2>0, <3>1, <3>2, <3>3, <3>4
  <2> HIDE DEF f
  <2>c. UNCHANGED <<cred, sqn, usim, ctxs, epoch, issued, failures, udrRestarts>>
    BY <1>1 DEF Aka!Begin
  <2>1. AkaTypes'
    BY <2>b, <2>c DEF AkaTypes
  <2>2. AkaTaken'
    BY <2>b, <2>c DEF AkaTaken, Aka!SqnNotReused, AkaTypes
  <2>3. AkaKept'
    BY <2>b, <2>c DEF AkaKept, AkaTypes
  <2>4. AkaAlone'
    <3>1. Aka!Active' = Aka!Active \cup {p} /\ p \notin Aka!Active
      BY <2>b DEF Aka!Active
    <3>2. ASSUME lone, failures' = 0 PROVE cred = "readable" /\ ~proc'[p].resynced
      BY <2>b, <2>c, <3>2 DEF AkaTypes
    <3>3. QED
      BY <2>b, <2>c, <3>1, <3>2 DEF AkaAlone, lone
  <2>5. QED
    BY <2>1, <2>2, <2>3, <2>4
<1>2. ASSUME NEW p \in Procedures, Aka!TakeSqn(p) PROVE AkaIInv'
  <2> USE <1>2 DEF Aka!TakeSqn, Aka!Goes, AkaTypes, AkaProc, Aka!Vectors
  <2>1. AkaTypes'
    OBVIOUS
  <2>2. AkaTaken'
    BY DEF AkaTaken, Aka!SqnNotReused
  <2>3. AkaKept'
    BY DEF AkaKept
  <2>4. AkaAlone'
    BY DEF AkaAlone, Aka!Active
  <2>5. QED
    BY <2>1, <2>2, <2>3, <2>4
<1>3. ASSUME NEW p \in Procedures, Aka!Derive(p) PROVE AkaIInv'
  <2>p. proc \in [Procedures -> AkaProc] /\ proc[p].at = "derive"
    BY <1>3 DEF Aka!Derive, AkaTypes
  <2>1. CASE cred = "readable"
    <3> DEFINE v == [proc[p].vector EXCEPT !.rand = Cardinality(issued) + 1]
               i == [rand |-> v.rand, sqn |-> v.sqn, epoch |-> proc[p].epoch]
    <3>a. /\ IsFiniteSet(issued) /\ Cardinality(issued) \in Nat
          /\ proc[p].vector \in Aka!Vectors /\ proc[p].epoch \in Nat
      BY <2>p, FS_CardinalityType, AkaFields DEF AkaTypes
    <3>b. /\ v \in Aka!Vectors /\ v.rand = Cardinality(issued) + 1 /\ v.sqn = proc[p].vector.sqn
          /\ v.sqn \in Nat /\ v.rand \in Nat
      BY <3>a DEF Aka!Vectors
    <3>c. /\ issued' = issued \cup {i} /\ ctxs' = ctxs \cup {v}
          /\ proc' = [proc EXCEPT ![p].at = "challenge", ![p].vector = v]
          /\ UNCHANGED <<cred, sqn, usim, epoch, failures, udrRestarts>>
      BY <1>3, <2>1, <2>p, AkaCardinality DEF Aka!Derive
    <3>d. [proc[p] EXCEPT !.at = "challenge", !.vector = v] \in AkaProc
      BY <2>p, <3>b, AkaEdits
    <3>e. /\ proc' \in [Procedures -> AkaProc]
          /\ proc'[p].at = "challenge" /\ proc'[p].vector = v /\ proc'[p].alone = proc[p].alone
          /\ proc'[p].resynced = proc[p].resynced
          /\ \A q \in Procedures \ {p} : proc'[q] = proc[q]
      BY <2>p, <3>c, <3>d DEF AkaProc
    <3>f. i \in [rand : Nat, sqn : Nat, epoch : Nat] /\ i.sqn = v.sqn /\ i.epoch = proc[p].epoch
      BY <3>a, <3>b
    <3>g. i \notin issued
      BY <2>p, <3>b, <3>f DEF AkaTaken
    <3> HIDE DEF v, i
    <3>h. IsFiniteSet(issued') /\ Cardinality(issued') = Cardinality(issued) + 1
      BY <3>a, <3>c, <3>g, FS_AddElement
    <3>1. AkaTypes'
      BY <3>b, <3>c, <3>e, <3>f, <3>h DEF AkaTypes
    <3>2. AkaTaken'
      BY <2>p, <3>b, <3>c, <3>e, <3>f DEF AkaTaken, AkaTypes, Aka!SqnNotReused
    <3>3. AkaKept'
      <4>1. \A q \in Procedures : proc[q].at \in AkaHeld =>
               proc[q].vector \in Aka!Vectors /\ proc[q].vector.rand \in Nat
        BY DEF AkaTypes, Aka!Vectors
      <4>2. \A q \in Procedures \ {p} : proc[q].at \in AkaHeld => proc[q].vector.rand < v.rand
        BY <3>a, <3>b, <4>1 DEF AkaKept
      <4>3. QED
        BY <2>p, <3>a, <3>b, <3>c, <3>e, <3>h, <4>1, <4>2 DEF AkaKept
    <3>4. AkaAlone'
      BY <2>p, <3>b, <3>c, <3>e DEF AkaAlone, Aka!Active
    <3>5. QED
      BY <3>1, <3>2, <3>3, <3>4
  <2>2. CASE cred # "readable"
    <3>b. /\ proc' = [proc EXCEPT ![p] = [proc[p] EXCEPT !.at = "aborted"]]
          /\ UNCHANGED <<cred, sqn, usim, ctxs, epoch, issued, failures, udrRestarts>>
      BY <1>3, <2>2, <2>p DEF Aka!Derive, Aka!Goes
    <3>c. [proc[p] EXCEPT !.at = "aborted"] \in AkaProc
      BY <2>p, AkaEdits
    <3>d. /\ proc' \in [Procedures -> AkaProc] /\ proc'[p].at = "aborted"
          /\ \A q \in Procedures \ {p} : proc'[q] = proc[q]
      BY <2>p, <3>b, <3>c DEF AkaProc
    <3>1. AkaTypes'
      BY <3>b, <3>d DEF AkaTypes
    <3>2. AkaTaken'
      BY <3>b, <3>d DEF AkaTaken, Aka!SqnNotReused
    <3>3. AkaKept'
      BY <3>b, <3>d DEF AkaKept
    <3>4. AkaAlone'
      BY <2>2, <3>b, <3>d DEF AkaAlone, Aka!Active, AkaTypes
    <3>5. QED
      BY <3>1, <3>2, <3>3, <3>4
  <2>3. QED
    BY <2>1, <2>2
<1>4. ASSUME NEW p \in Procedures, Aka!UeAccepts(p) PROVE AkaIInv'
  <2> USE <1>4 DEF Aka!UeAccepts, Aka!Goes, AkaTypes, AkaProc, Aka!Vectors
  <2>1. AkaTypes'
    OBVIOUS
  <2>2. AkaTaken'
    BY DEF AkaTaken, Aka!SqnNotReused
  <2>3. AkaKept'
    BY DEF AkaKept
  <2>4. AkaAlone'
    BY DEF AkaAlone, Aka!Active
  <2>5. QED
    BY <2>1, <2>2, <2>3, <2>4
<1>5. ASSUME NEW p \in Procedures, Aka!UeSynchFailure(p) PROVE AkaIInv'
  <2> DEFINE failed == [proc[p] EXCEPT !.at = "failure", !.auts = usim]
  <2>p. proc \in [Procedures -> AkaProc] /\ usim \in Nat
    BY DEF AkaTypes
  <2>0. proc' = [proc EXCEPT ![p] = failed] /\ failed \in AkaProc
    <3>1. failed \in AkaProc
      BY <2>p, AkaEdits
    <3>2. QED
      BY <1>5, <2>p, <3>1 DEF Aka!UeSynchFailure
  <2>b. /\ proc' \in [Procedures -> AkaProc]
        /\ proc[p].at = "challenge" /\ proc[p].vector.sqn <= usim
        /\ proc'[p].at = "failure" /\ proc'[p].auts = usim
        /\ proc'[p].vector = proc[p].vector /\ proc'[p].alone = proc[p].alone
        /\ proc'[p].resynced = proc[p].resynced
        /\ \A q \in Procedures \ {p} : proc'[q] = proc[q]
    BY <1>5, <2>p, <2>0 DEF AkaProc, Aka!UeSynchFailure
  <2>c. UNCHANGED <<cred, sqn, usim, ctxs, epoch, issued, failures, udrRestarts>>
    BY <1>5 DEF Aka!UeSynchFailure
  <2>1. AkaTypes'
    BY <2>b, <2>c DEF AkaTypes
  <2>2. AkaTaken'
    BY <2>b, <2>c DEF AkaTaken, Aka!SqnNotReused, AkaTypes
  <2>3. AkaKept'
    BY <2>b, <2>c DEF AkaKept, AkaTypes
  <2>4. AkaAlone'
    BY <2>b, <2>c DEF AkaAlone, Aka!Active, AkaTypes, Aka!Vectors
  <2>5. QED
    BY <2>1, <2>2, <2>3, <2>4
<1>6. ASSUME NEW p \in Procedures, Aka!SecondFailure(p) PROVE AkaIInv'
  <2> USE <1>6 DEF Aka!SecondFailure, Aka!Goes, AkaTypes, AkaProc, Aka!Vectors
  <2>1. AkaTypes'
    OBVIOUS
  <2>2. AkaTaken'
    BY DEF AkaTaken, Aka!SqnNotReused
  <2>3. AkaKept'
    BY DEF AkaKept
  <2>4. AkaAlone'
    BY DEF AkaAlone, Aka!Active
  <2>5. QED
    BY <2>1, <2>2, <2>3, <2>4
<1>7. ASSUME NEW p \in Procedures, Aka!VerifyAuts(p) PROVE AkaIInv'
  <2> DEFINE x == IF cred = "readable" /\ proc[p].id = "supi" THEN "adopt" ELSE "aborted"
  <2>p. proc \in [Procedures -> AkaProc]
    BY DEF AkaTypes
  <2>0. proc' = [proc EXCEPT ![p] = [proc[p] EXCEPT !.at = x]] /\ [proc[p] EXCEPT !.at = x] \in AkaProc
    <3>1. [proc[p] EXCEPT !.at = x] \in AkaProc
      BY <2>p, AkaEdits
    <3>2. QED
      BY <1>7, <2>p, <3>1 DEF Aka!VerifyAuts, Aka!Goes
  <2>b. /\ proc' \in [Procedures -> AkaProc]
        /\ proc[p].at = "failure" /\ ~proc[p].resynced
        /\ proc'[p].at = x /\ proc'[p].auts = proc[p].auts
        /\ proc'[p].vector = proc[p].vector /\ proc'[p].alone = proc[p].alone
        /\ proc'[p].resynced = proc[p].resynced
        /\ \A q \in Procedures \ {p} : proc'[q] = proc[q]
    BY <1>7, <2>p, <2>0 DEF AkaProc, Aka!VerifyAuts
  <2>c. UNCHANGED <<cred, sqn, usim, ctxs, epoch, issued, failures, udrRestarts>>
    BY <1>7 DEF Aka!VerifyAuts
  <2>1. AkaTypes'
    BY <2>b, <2>c DEF AkaTypes
  <2>2. AkaTaken'
    BY <2>b, <2>c DEF AkaTaken, Aka!SqnNotReused, AkaTypes
  <2>3. AkaKept'
    BY <2>b, <2>c DEF AkaKept, AkaTypes
  <2>4. AkaAlone'
    <3>1. AllSupi => proc[p].id = "supi"
      BY <2>p, AkaFields DEF AllSupi, AkaIds
    <3>2. QED
      BY <2>b, <2>c, <3>1 DEF AkaAlone, Aka!Active, AkaTypes
  <2>5. QED
    BY <2>1, <2>2, <2>3, <2>4
<1>8. ASSUME NEW p \in Procedures, Aka!Adopt(p) PROVE AkaIInv'
  <2> DEFINE again == [proc[p] EXCEPT !.at = "sqn", !.resynced = TRUE]
  <2>p. proc \in [Procedures -> AkaProc]
    BY DEF AkaTypes
  <2>0. proc' = [proc EXCEPT ![p] = again] /\ again \in AkaProc
    <3>1. again \in AkaProc
      BY <2>p, AkaEdits
    <3>2. QED
      BY <1>8, <2>p, <3>1 DEF Aka!Adopt
  <2>b. /\ proc' \in [Procedures -> AkaProc]
        /\ proc[p].at = "adopt" /\ sqn' = proc[p].auts /\ sqn' \in Nat /\ epoch' = epoch + 1
        /\ proc'[p].at = "sqn" /\ proc'[p].alone = proc[p].alone
        /\ \A q \in Procedures \ {p} : proc'[q] = proc[q]
    BY <1>8, <2>p, <2>0 DEF AkaProc, Aka!Adopt, AkaTypes
  <2>c. UNCHANGED <<cred, usim, ctxs, issued, failures, udrRestarts>>
    BY <1>8 DEF Aka!Adopt
  <2>1. AkaTypes'
    BY <2>b, <2>c DEF AkaTypes
  <2>2. AkaTaken'
    <3>1. /\ epoch \in Nat /\ \A v \in issued : v.epoch \in Nat
          /\ \A q \in Procedures : proc[q].epoch \in Nat
      BY AkaFields DEF AkaTypes
    <3>2. QED
      BY <2>b, <2>c, <3>1 DEF AkaTaken, Aka!SqnNotReused, AkaTypes
  <2>3. AkaKept'
    BY <2>b, <2>c DEF AkaKept, AkaTypes
  <2>4. AkaAlone'
    BY <2>b, <2>c DEF AkaAlone, Aka!Active, AkaTypes
  <2>5. QED
    BY <2>1, <2>2, <2>3, <2>4
<1>9. ASSUME NEW p \in Procedures, Aka!Confirm(p) PROVE AkaIInv'
  <2> USE <1>9 DEF Aka!Confirm, Aka!Goes, AkaTypes, AkaProc, Aka!Vectors
  <2>1. AkaTypes'
    OBVIOUS
  <2>2. AkaTaken'
    BY DEF AkaTaken, Aka!SqnNotReused
  <2>3. AkaKept'
    BY DEF AkaKept
  <2>4. AkaAlone'
    BY DEF AkaAlone, AkaKept, Aka!Active
  <2>5. QED
    BY <2>1, <2>2, <2>3, <2>4
<1>10. ASSUME NEW p \in Procedures, Aka!CallFails(p) PROVE AkaIInv'
  <2> USE <1>10 DEF Aka!CallFails, Aka!Goes, AkaTypes, AkaProc, Aka!Vectors
  <2>1. AkaTypes'
    OBVIOUS
  <2>2. AkaTaken'
    BY DEF AkaTaken, Aka!SqnNotReused
  <2>3. AkaKept'
    BY DEF AkaKept
  <2>4. AkaAlone'
    BY DEF AkaAlone, Aka!Active
  <2>5. QED
    BY <2>1, <2>2, <2>3, <2>4
<1>11. CASE Aka!Withdraw
  <2> USE <1>11 DEF Aka!Withdraw, AkaTypes, AkaProc, Aka!Vectors
  <2>1. AkaTypes'
    OBVIOUS
  <2>2. AkaTaken'
    BY DEF AkaTaken, Aka!SqnNotReused
  <2>3. AkaKept'
    BY DEF AkaKept
  <2>4. AkaAlone'
    BY DEF AkaAlone, Aka!Active
  <2>5. QED
    BY <2>1, <2>2, <2>3, <2>4
<1>12. CASE Aka!UdrRestarts
  <2> DEFINE f(q) == IF proc[q].at \in {"sqn", "derive", "adopt"}
                     THEN [proc[q] EXCEPT !.at = "aborted", !.alone = FALSE]
                     ELSE [proc[q] EXCEPT !.alone = FALSE]
  <2>p. proc \in [Procedures -> AkaProc]
    BY DEF AkaTypes
  <2>0. proc' = [q \in Procedures |-> f(q)] /\ \A q \in Procedures : f(q) \in AkaProc
    BY <1>12, <2>p, AkaEdits, "aborted" \in AkaStates, FALSE \in BOOLEAN DEF Aka!UdrRestarts
  <2>b. /\ proc' \in [Procedures -> AkaProc]
        /\ \A q \in Procedures :
             /\ proc'[q].at = (IF proc[q].at \in {"sqn", "derive", "adopt"}
                               THEN "aborted" ELSE proc[q].at)
             /\ proc'[q].alone = FALSE
             /\ proc'[q].vector = proc[q].vector /\ proc'[q].auts = proc[q].auts
             /\ proc'[q].epoch = proc[q].epoch /\ proc'[q].resynced = proc[q].resynced
    BY <2>p, <2>0 DEF AkaProc
  <2>c. /\ UNCHANGED <<usim, ctxs, epoch, issued, failures>> /\ udrRestarts' = udrRestarts + 1
        /\ cred' = "readable" /\ (IF cred = "readable" THEN sqn' = sqn ELSE sqn' = 0)
    BY <1>12 DEF Aka!UdrRestarts
  <2>1. AkaTypes'
    BY <2>b, <2>c DEF AkaTypes
  <2>2. AkaTaken'
    BY <2>b, <2>c DEF AkaTaken, Aka!SqnNotReused, AkaTypes
  <2>3. AkaKept'
    BY <2>b, <2>c DEF AkaKept, AkaTypes
  <2>4. AkaAlone'
    BY <2>b, <2>c DEF AkaAlone, Aka!Active, AkaTypes
  <2>5. QED
    BY <2>1, <2>2, <2>3, <2>4
<1>13. CASE UNCHANGED Aka!vars
  <2> USE <1>13 DEF Aka!vars
  <2>1. AkaTypes'
    BY DEF AkaTypes
  <2>2. AkaTaken'
    BY DEF AkaTaken, Aka!SqnNotReused
  <2>3. AkaKept'
    BY DEF AkaKept
  <2>4. AkaAlone'
    BY DEF AkaAlone, Aka!Active
  <2>5. QED
    BY <2>1, <2>2, <2>3, <2>4
<1>14. QED
  BY <1>1, <1>2, <1>3, <1>4, <1>5, <1>6, <1>7, <1>8, <1>9, <1>10, <1>11, <1>12, <1>13
     DEF Aka!Next, Aka!Step

\* Out of one count no sequence number is taken twice (generate_av, next_sqn); what the UE
\* accepts, the AUSF can still confirm (confirm); and, when every UE presents its SUPI, one
\* resynchronisation is enough for a registration that runs alone, however far the USIM is
\* ahead (on_authentication_failure, resync_sqn): for any number of registrations, calls
\* that fail and restarts of the UDR.
THEOREM AkaSound ==
    ASSUME AkaAssumption
    PROVE  Aka!Spec =>
             [](Aka!SqnNotReused /\ Aka!AcceptedIsConfirmable /\ (AllSupi => Aka!OneResyncSuffices))
<1>1. Aka!Init => AkaIInv
  BY AkaInitIInv
<1>2. AkaIInv /\ [Aka!Next]_(Aka!vars) => AkaIInv'
  BY AkaStep
<1>3. AkaIInv => /\ Aka!SqnNotReused /\ Aka!AcceptedIsConfirmable
                 /\ AllSupi => Aka!OneResyncSuffices
  BY DEF AkaIInv, AkaTaken, AkaKept, AkaAlone, Aka!AcceptedIsConfirmable, Aka!OneResyncSuffices
<1>4. QED
  BY <1>1, <1>2, <1>3, PTL DEF Aka!Spec

-----------------------------------------------------------------------------
(* The registry *)

\* What was lost and how often the NRF restarted.
NrfCounted == restarts \in Nat /\ lost \in Nat

\* While nothing is lost, a task that sleeps has an entry whose age and the time left to
\* its heartbeat add up to the period, and none registers again.
NrfHeard ==
    restarts = 0 /\ lost = 0 =>
      \A n \in Nfs :
        /\ nf[n] # "registering"
        /\ nf[n] = "sleeping" =>
             /\ n \in entries
             /\ age[n] + wait[n] = Period + overdue[n]
             /\ wait[n] > 0 => overdue[n] = 0

\* What is in the table was refreshed before it crashed.
NrfAged ==
    /\ \A n \in Nfs : nf[n] = "crashed" => gone[n] <= age[n]
    /\ found.nfs \subseteq Nfs
    /\ Nrf!NoLingering

\* The inductive invariant.
NrfIInv == Nrf!TypeOK /\ NrfCounted /\ NrfHeard /\ NrfAged

\* It holds of an empty registry.
LEMMA NrfInitIInv ==
    ASSUME Nrf!NrfAssumption
    PROVE  Nrf!Init => NrfIInv
BY DEF Nrf!NrfAssumption, Nrf!Init, NrfIInv, Nrf!TypeOK, NrfCounted, NrfHeard, NrfAged,
   Nrf!NoLingering,
       Nrf!Old, Nrf!Ttl

\* Every request, loss, tick and restart keeps it.
LEMMA NrfStep ==
    ASSUME Nrf!NrfAssumption, Latency <= Period, NrfIInv, [Nrf!Next]_(Nrf!vars)
    PROVE  NrfIInv'
<1> USE DEF NrfIInv, NrfCounted, NrfHeard, NrfAged, Nrf!NoLingering, Nrf!TypeOK, Nrf!Old, Nrf!Ttl, Nrf!nrfVars, Nrf!nfVars
<1>0. Period \in Nat \ {0} /\ Latency \in Nat
  BY DEF Nrf!NrfAssumption
<1>1. ASSUME NEW n \in Nfs, Nrf!Start(n) PROVE NrfIInv'
  BY <1>0, <1>1 DEF Nrf!Start, Nrf!Continues
<1>2. ASSUME NEW n \in Nfs, Nrf!FirstRegister(n) PROVE NrfIInv'
  BY <1>0, <1>2 DEF Nrf!FirstRegister, Nrf!Due, Nrf!Registered, Nrf!Continues
<1>3. ASSUME NEW n \in Nfs, Nrf!FirstRegisterLost(n) PROVE NrfIInv'
  BY <1>0, <1>3 DEF Nrf!FirstRegisterLost, Nrf!Due, Nrf!Loses, Nrf!Continues
<1>4. ASSUME NEW n \in Nfs, Nrf!Heartbeat(n) PROVE NrfIInv'
  BY <1>0, <1>4 DEF Nrf!Heartbeat, Nrf!Due, Nrf!Purged, Nrf!Fresh, Nrf!Continues
<1>5. ASSUME NEW n \in Nfs, Nrf!HeartbeatUnknown(n) PROVE NrfIInv'
  BY <1>0, <1>5 DEF Nrf!HeartbeatUnknown, Nrf!Due, Nrf!Purged, Nrf!Fresh, Nrf!Continues
<1>6. ASSUME NEW n \in Nfs, Nrf!HeartbeatLost(n) PROVE NrfIInv'
  BY <1>0, <1>6 DEF Nrf!HeartbeatLost, Nrf!Due, Nrf!Loses, Nrf!Continues
<1>7. ASSUME NEW n \in Nfs, Nrf!Reregister(n) PROVE NrfIInv'
  BY <1>0, <1>7 DEF Nrf!Reregister, Nrf!Due, Nrf!Registered, Nrf!Continues
<1>8. ASSUME NEW n \in Nfs, Nrf!ReregisterLost(n) PROVE NrfIInv'
  BY <1>0, <1>8 DEF Nrf!ReregisterLost, Nrf!Due, Nrf!Loses, Nrf!Continues
<1>9. ASSUME NEW n \in Nfs, Nrf!Crash(n) PROVE NrfIInv'
  BY <1>0, <1>9 DEF Nrf!Crash, Nrf!Running
<1>10. ASSUME NEW n \in Nfs, Nrf!Deregister(n) PROVE NrfIInv'
  BY <1>0, <1>10 DEF Nrf!Deregister, Nrf!Running
<1>11. ASSUME NEW q \in Queries, Nrf!Discover(q) PROVE NrfIInv'
  BY <1>0, <1>11 DEF Nrf!Discover, Nrf!Purged, Nrf!Fresh
<1>12. CASE Nrf!NrfRestarts
  BY <1>0, <1>12 DEF Nrf!NrfRestarts
<1>13. CASE Nrf!Tick
  BY <1>0, <1>13 DEF Nrf!Tick, Nrf!Older
<1>14. CASE UNCHANGED Nrf!vars
  BY <1>14 DEF Nrf!vars
<1>15. QED
  BY <1>1, <1>2, <1>3, <1>4, <1>5, <1>6, <1>7, <1>8, <1>9, <1>10, <1>11, <1>12, <1>13, <1>14
     DEF Nrf!Next, Nrf!Keeps

\* An NF whose requests are all answered, none later than a heartbeat period, is found by
\* every discovery (is_live, purge_stale), and none finds one that was last heard longer ago
\* than its time to live: for any number of NFs and any period.
THEOREM HeardIsListed ==
    ASSUME Nrf!NrfAssumption, Latency <= Period
    PROVE  Nrf!Init /\ [][Nrf!Next]_(Nrf!vars) => [](Nrf!KeptWhileHeard /\ Nrf!NoLingering)
<1>1. NrfIInv /\ [Nrf!Next]_(Nrf!vars) => NrfIInv'
  BY NrfStep
<1>2. NrfIInv => Nrf!KeptWhileHeard /\ Nrf!NoLingering
  BY DEF NrfIInv, Nrf!TypeOK, NrfHeard, NrfAged, Nrf!KeptWhileHeard, Nrf!Running,
     Nrf!Discoverable, Nrf!Fresh, Nrf!Ttl, Nrf!NrfAssumption
<1>3. QED
  BY NrfInitIInv, <1>1, <1>2, PTL

-----------------------------------------------------------------------------
(* Tokens *)

\* Tokens, what the client has cached, and calls under way.
Issued == [key : Nat, aud : Tok!Targets, scope : {ScopeOf[s] : s \in DOMAIN ScopeOf}, left : Nat]
Cached == [token : Issued, left : Nat]
Stages == {"token", "issued", "sent", "first fetch", "first keys", "fetch", "keys", "accepted", "refused"}
Calls == [at : Stages, target : Tok!Targets, service : DOMAIN ScopeOf, token : Issued \cup {None},
          took : 0..Margin, keys : Nat \cup {None}]

\* Every service has a scope, and None is none of these.
TokNone ==
    /\ \A g \in DOMAIN Services : Services[g] \subseteq DOMAIN ScopeOf
    /\ None \notin Issued /\ None \notin Cached /\ None \notin Calls /\ None \notin Nat

TokTypes ==
    /\ nrfKey \in Nat /\ tokFailures \in Nat
    /\ cache \in [Tok!Targets -> Cached \cup {None}]
    /\ call \in [Tasks -> Calls \cup {None}]

\* What is cached is a token of its target that lives at least as long as the client thinks.
TokCached ==
    \A g \in Tok!Targets : cache[g] # None =>
        /\ cache[g].left <= cache[g].token.left
        /\ cache[g].token.aud = g /\ cache[g].token.key <= nrfKey

\* The token of a call outlives it, no key is younger than the one in force, and keys are
\* fetched after the token was issued.
TokCall(c, k, n) ==
    /\ c.at = "issued" => c.token # None /\ c.token.left + c.took >= Lifetime
    /\ c.token # None =>
         /\ c.token.left + c.took > Margin
         /\ c.token.aud = c.target /\ c.token.key <= k
    /\ c.at \in {"fetch", "first fetch", "keys", "first keys"} => c.token # None
    /\ c.at \in {"keys", "first keys"} =>
         c.keys \in Nat /\ c.token.key <= c.keys /\ c.keys <= k
    /\ c.at = "refused" /\ c.token # None /\ n = 0 /\ c.token.key = k =>
         c.service \notin c.token.scope

\* The inductive invariant.
TokIInv ==
    /\ TokTypes /\ TokCached
    /\ \A t \in Tasks : call[t] # None => TokCall(call[t], nrfKey, tokFailures)

\* No token is out yet.
LEMMA TokInitIInv == ASSUME Tok!TokenAssumption, TokNone PROVE Tok!Init => TokIInv
BY DEF Tok!TokenAssumption, TokNone, Tok!Init, TokIInv, TokTypes, TokCached, TokCall

\* Task t's call is now c, and nothing else of the invariant's changes.
TokMoves(t, c) ==
    /\ call' = [call EXCEPT ![t] = c]
    /\ nrfKey' = nrfKey /\ cache' = cache
    /\ tokFailures' \in {tokFailures, tokFailures + 1}

\* A call goes on while the caches stay as they are.
LEMMA TokCallGoes ==
    ASSUME TokIInv, NEW t \in Tasks, NEW c \in Calls \cup {None},
           TokMoves(t, c),
           c # None => TokCall(c, nrfKey', tokFailures')
    PROVE  TokIInv'
<1>1. /\ nrfKey' \in Nat /\ tokFailures' \in Nat /\ tokFailures \in Nat
      /\ cache' \in [Tok!Targets -> Cached \cup {None}] /\ TokCached'
  BY DEF TokIInv, TokTypes, TokCached, TokMoves
<1>2. call \in [Tasks -> Calls \cup {None}]
  BY DEF TokIInv, TokTypes
<1>3. call' \in [Tasks -> Calls \cup {None}] /\ call'[t] = c
      /\ \A u \in Tasks \ {t} : call'[u] = call[u]
  BY <1>2 DEF TokMoves
<1>4. ASSUME NEW u \in Tasks, call'[u] # None
      PROVE  TokCall(call'[u], nrfKey', tokFailures') \/ u = t
  <2>1. CASE u # t
    <3> PICK d : d = call[u]
      OBVIOUS
    <3>1. TokCall(d, nrfKey, tokFailures) /\ call'[u] = d
      BY <1>3, <1>4, <2>1 DEF TokIInv
    <3>2. (tokFailures' = 0 => tokFailures = 0) /\ nrfKey' = nrfKey
      BY <1>1 DEF TokMoves
    <3>q. QED
      BY <3>1, <3>2 DEF TokCall
  <2>q. QED
    BY <2>1
<1>5. ASSUME NEW u \in Tasks, call'[u] # None
      PROVE  TokCall(call'[u], nrfKey', tokFailures')
  <2>1. CASE u = t
    <3>1. call'[u] = c
      BY <1>3, <2>1
    <3>q. QED
      BY <1>5, <3>1 DEF TokCall
  <2>q. QED
    BY <1>4, <1>5, <2>1
<1>q. QED
  BY <1>1, <1>3, <1>5 DEF TokIInv, TokTypes

\* The fields of a call, and of one whose stage changes.
LEMMA TokGoes ==
    ASSUME NEW c \in Calls, NEW x \in Stages
    PROVE  LET d == [c EXCEPT !.at = x]
           IN /\ d \in Calls /\ d.at = x
              /\ d.target = c.target /\ d.service = c.service /\ d.token = c.token
              /\ d.took = c.took /\ d.keys = c.keys
BY DEF Calls

\* A call as it begins.
LEMMA TokBegins ==
    ASSUME Margin \in Nat, NEW x \in Stages, NEW g \in Tok!Targets, NEW s \in DOMAIN ScopeOf,
           NEW tok \in Issued \cup {None}
    PROVE  [at |-> x, target |-> g, service |-> s, token |-> tok, took |-> 0, keys |-> None] \in Calls
BY DEF Calls

\* A verdict for a token of the key in force is not a refusal, but for the scope.
LEMMA TokVerdict ==
    ASSUME Tok!TokenAssumption, NEW c \in Calls, c.token # None, TokCall(c, nrfKey, tokFailures), NEW k,
           Tok!Genuine(c.token, k) \/ c.token.key # nrfKey,
           Tok!Verdict(c, k) = "refused", c.token.key = nrfKey
    PROVE  c.service \notin c.token.scope
<1>1. c.token \in Issued /\ c.took \in 0..Margin /\ Margin \in Nat
  BY DEF Tok!TokenAssumption, Calls
<1>2. c.token.left \in Nat /\ c.token.left + c.took > Margin
  BY <1>1 DEF TokCall, Issued
<1>3. c.token.left > 0
  BY <1>1, <1>2
<1>q. QED
  BY <1>3 DEF Tok!Verdict, Tok!Covers, TokCall

\* Every step keeps the invariant.
LEMMA TokStep ==
    ASSUME Tok!TokenAssumption, TokNone, TokIInv, [Tok!Next]_(Tok!vars)
    PROVE  TokIInv'
<1>0. /\ nrfKey \in Nat /\ tokFailures \in Nat /\ Margin \in Nat /\ Lifetime \in Nat /\ Margin < Lifetime
      /\ cache \in [Tok!Targets -> Cached \cup {None}]
      /\ call \in [Tasks -> Calls \cup {None}]
  BY DEF TokIInv, TokTypes, Tok!TokenAssumption
<1>n. /\ nrfKey \in Nat /\ tokFailures \in Nat /\ Margin \in Nat
      /\ nrfKey <= nrfKey /\ \A n \in Nat : n <= nrfKey => n <= nrfKey + 1
      /\ \A m, n \in Nat : m <= n /\ n <= nrfKey /\ m = nrfKey => m = n
  BY <1>0
<1>1. ASSUME NEW t \in Tasks, NEW g \in Tok!Targets, NEW s \in Services[g], Tok!Call(t, g, s)
      PROVE  TokIInv'
  <2>1. /\ call' = [call EXCEPT ![t] =
             [at |-> IF Tok!Usable(g) THEN "sent" ELSE "token", target |-> g, service |-> s,
              token |-> IF Tok!Usable(g) THEN cache[g].token ELSE None, took |-> 0, keys |-> None]]
        /\ nrfKey' = nrfKey /\ cache' = cache /\ tokFailures' = tokFailures
    BY <1>1 DEF Tok!Call
  <2> PICK tok : tok = IF Tok!Usable(g) THEN cache[g].token ELSE None
    OBVIOUS
  <2> PICK x \in {"sent", "token"} : x = IF Tok!Usable(g) THEN "sent" ELSE "token"
    OBVIOUS
  <2>2. s \in DOMAIN ScopeOf
    BY DEF TokNone, Tok!Targets
  <2>3. tok # None =>
          tok \in Issued /\ tok.left > Margin /\ tok.aud = g /\ tok.key <= nrfKey
    <3>1. CASE Tok!Usable(g)
      <4>1. cache[g] \in Cached /\ tok = cache[g].token /\ cache[g].left > Margin
        BY <1>0, <3>1 DEF Tok!Usable
      <4>2. /\ cache[g].left <= tok.left /\ tok.aud = g /\ tok.key <= nrfKey
        BY <3>1, <4>1 DEF TokIInv, TokCached, Tok!Usable
      <4>q. QED
        BY <1>0, <4>1, <4>2 DEF Cached, Issued
    <3>q. QED
      BY <3>1
  <2> PICK c : c = [at |-> x, target |-> g, service |-> s, token |-> tok, took |-> 0, keys |-> None]
    OBVIOUS
  <2>4. c \in Calls
    <3>1. x \in Stages /\ tok \in Issued \cup {None}
      BY <2>3 DEF Stages
    <3>q. QED
      BY <1>0, <2>2, <3>1, TokBegins
  <2>5. TokCall(c, nrfKey', tokFailures')
    BY <1>0, <2>1, <2>3 DEF TokCall, Issued
  <2>6. TokMoves(t, c)
    BY <2>1 DEF TokMoves
  <2>q. QED
    BY <2>4, <2>5, <2>6, TokCallGoes
<1>2. ASSUME NEW t \in Tasks, Tok!Issue(t)
      PROVE  TokIInv'
  <2> PICK c : c = call[t]
    OBVIOUS
  <2>1. c \in Calls /\ TokCall(c, nrfKey, tokFailures)
    BY <1>0, <1>2 DEF Tok!Issue, Tok!At, TokIInv
  <2> PICK tok : tok = [key |-> nrfKey, aud |-> c.target, scope |-> ScopeOf[c.service], left |-> Lifetime]
    OBVIOUS
  <2>2. tok \in Issued
    BY <1>0, <2>1 DEF Issued, Calls
  <2> PICK d : d = [c EXCEPT !.at = "issued", !.token = tok]
    OBVIOUS
  <2>3. /\ d \in Calls /\ d.at = "issued" /\ d.token = tok /\ d.took = c.took /\ d.target = c.target
    BY <2>1, <2>2 DEF Calls, Stages
  <2>4. TokMoves(t, d)
    BY <1>2 DEF Tok!Issue, TokMoves
  <2>5. TokCall(d, nrfKey', tokFailures')
    <3>1. tok # None /\ tok.left = Lifetime /\ c.took \in Nat
      BY <1>0, <2>1, <2>2 DEF TokNone, Calls
    <3>2. tok.aud = c.target /\ tok.key = nrfKey
      OBVIOUS
    <3>q. QED
      BY <1>0, <2>3, <2>4, <3>1, <3>2 DEF TokCall, TokMoves
  <2>q. QED
    BY <2>3, <2>4, <2>5, TokCallGoes
<1>3. ASSUME NEW t \in Tasks, Tok!TokenArrives(t)
      PROVE  TokIInv'
  <2> PICK c : c = call[t]
    OBVIOUS
  <2>1. c \in Calls /\ TokCall(c, nrfKey, tokFailures) /\ c.at = "issued"
    BY <1>0, <1>3 DEF Tok!TokenArrives, Tok!At, TokIInv
  <2> PICK d : d = [c EXCEPT !.at = "sent"]
    OBVIOUS
  <2>2. /\ d \in Calls /\ d.at = "sent" /\ d.token = c.token /\ d.took = c.took /\ d.target = c.target
    BY <2>1, TokGoes DEF Stages
  <2> PICK e : e = [token |-> c.token, left |-> Lifetime - c.took]
    OBVIOUS
  <2>3. /\ cache' = [cache EXCEPT ![c.target] = e] /\ call' = [call EXCEPT ![t] = d]
        /\ nrfKey' = nrfKey /\ tokFailures' = tokFailures
    BY <1>3 DEF Tok!TokenArrives, Tok!Goes
  <2>4. /\ c.token \in Issued /\ c.token.left + c.took >= Lifetime /\ c.took \in 0..Margin
        /\ c.target \in Tok!Targets /\ c.token.aud = c.target /\ c.token.key <= nrfKey
    BY <2>1 DEF TokCall, Calls
  <2>5. e \in Cached /\ e.left <= e.token.left /\ e.token = c.token
    BY <1>0, <2>4 DEF Cached, Issued
  <2>6. cache' \in [Tok!Targets -> Cached \cup {None}] /\ TokCached'
    <3>1. cache' \in [Tok!Targets -> Cached \cup {None}]
      BY <1>0, <2>3, <2>5
    <3>2. ASSUME NEW g \in Tok!Targets, cache'[g] # None
          PROVE  /\ cache'[g].left <= cache'[g].token.left
                 /\ cache'[g].token.aud = g /\ cache'[g].token.key <= nrfKey'
      <4>1. CASE g = c.target
        <5>1. cache'[g] = e
          BY <1>0, <2>3, <4>1
        <5>q. QED
          BY <2>3, <2>4, <2>5, <4>1, <5>1
      <4>2. CASE g # c.target
        <5>1. cache'[g] = cache[g]
          BY <1>0, <2>3, <4>2
        <5>q. QED
          BY <2>3, <3>2, <5>1 DEF TokIInv, TokCached
      <4>q. QED
        BY <4>1, <4>2
    <3>q. QED
      BY <3>1, <3>2 DEF TokCached
  <2>7. TokCall(d, nrfKey, tokFailures)
    BY <2>1, <2>2 DEF TokCall
  <2>8. call' \in [Tasks -> Calls \cup {None}]
    BY <1>0, <2>2, <2>3
  <2>9. ASSUME NEW u \in Tasks, call'[u] # None PROVE TokCall(call'[u], nrfKey', tokFailures')
    <3>1. PICK w : w = call'[u] /\ TokCall(w, nrfKey, tokFailures)
      BY <1>0, <2>3, <2>7, <2>9 DEF TokIInv
    <3>q. QED
      BY <2>3, <3>1 DEF TokCall
  <2>q. QED
    BY <1>0, <2>3, <2>6, <2>8, <2>9 DEF TokIInv, TokTypes
<1>4. ASSUME NEW t \in Tasks, Tok!NoToken(t) \/ Tok!NoKeys(t)
      PROVE  TokIInv'
  <2> PICK c : c = call[t]
    OBVIOUS
  <2>1. c \in Calls /\ TokCall(c, nrfKey, tokFailures)
    BY <1>0, <1>4 DEF Tok!NoToken, Tok!NoKeys, Tok!At, TokIInv
  <2>2. PICK x \in {"sent", "refused"} :
          /\ TokMoves(t, [c EXCEPT !.at = x])
          /\ x = "refused" => tokFailures' = tokFailures + 1
    BY <1>4 DEF Tok!NoToken, Tok!NoKeys, Tok!Goes, Tok!Fails, TokMoves
  <2> PICK d : d = [c EXCEPT !.at = x]
    OBVIOUS
  <2>3. /\ d \in Calls /\ d.at = x /\ d.target = c.target /\ d.service = c.service
        /\ d.token = c.token /\ d.took = c.took
    BY <2>1 DEF Calls, Stages
  <2>4. TokCall(d, nrfKey', tokFailures')
    <3>1. nrfKey' = nrfKey /\ (x = "refused" => tokFailures' # 0)
      BY <1>0, <2>2 DEF TokMoves
    <3>q. QED
      BY <2>1, <2>3, <3>1 DEF TokCall
  <2>q. QED
    BY <2>2, <2>3, <2>4, TokCallGoes
<1>5. ASSUME NEW t \in Tasks, Tok!Arrives(t)
      PROVE  TokIInv'
  <2> PICK c, k : c = call[t] /\ k = jwks[c.target]
    OBVIOUS
  <2>1. c \in Calls /\ TokCall(c, nrfKey, tokFailures) /\ tokFailures' = tokFailures /\ nrfKey' = nrfKey
    BY <1>0, <1>5 DEF Tok!Arrives, Tok!At, TokIInv
  <2> PICK x : x = CASE c.token = None -> "refused"
                     [] c.token # None /\ Asymmetric /\ k = None -> "first fetch"
                     [] c.token # None /\ Asymmetric /\ k # None /\ ~Tok!Genuine(c.token, k) -> "fetch"
                     [] OTHER -> Tok!Verdict(c, k)
    OBVIOUS
  <2>2. x \in {"refused", "accepted", "first fetch", "fetch"}
    <3>1. Tok!Verdict(c, k) \in {"refused", "accepted"}
      BY DEF Tok!Verdict
    <3>q. QED
      BY <3>1
  <2>3. /\ x = "refused" /\ c.token # None => Tok!Verdict(c, k) = "refused" /\ Tok!Genuine(c.token, k)
        /\ x \in {"first fetch", "fetch"} => c.token # None
    <3>1. Tok!Verdict(c, k) \in {"refused", "accepted"}
      BY DEF Tok!Verdict
    <3>2. ~Asymmetric => Tok!Genuine(c.token, k)
      BY DEF Tok!Genuine
    <3>q. QED
      BY <3>1, <3>2
  <2> PICK d : d = [c EXCEPT !.at = x]
    OBVIOUS
  <2>4. TokMoves(t, d)
    BY <1>5 DEF Tok!Arrives, Tok!Goes, TokMoves
  <2>5. /\ d \in Calls /\ d.at = x /\ d.target = c.target /\ d.service = c.service
        /\ d.token = c.token /\ d.took = c.took
    BY <2>1, <2>2 DEF Calls, Stages
  <2>6. x = "refused" /\ c.token # None /\ c.token.key = nrfKey => c.service \notin c.token.scope
    BY <2>1, <2>3, TokVerdict
  <2>7. TokCall(d, nrfKey', tokFailures')
    BY <2>1, <2>2, <2>3, <2>5, <2>6 DEF TokCall
  <2>q. QED
    BY <2>4, <2>5, <2>7, TokCallGoes
<1>6. ASSUME NEW t \in Tasks, Tok!Publish(t)
      PROVE  TokIInv'
  <2> PICK c : c = call[t]
    OBVIOUS
  <2>1. c \in Calls /\ TokCall(c, nrfKey, tokFailures) /\ c.at \in {"fetch", "first fetch"}
        /\ tokFailures' = tokFailures /\ nrfKey' = nrfKey
    BY <1>0, <1>6 DEF Tok!Publish, Tok!At, TokIInv
  <2> PICK x \in {"keys", "first keys"} : x = IF c.at = "fetch" THEN "keys" ELSE "first keys"
    OBVIOUS
  <2> PICK d : d = [c EXCEPT !.at = x, !.keys = nrfKey]
    OBVIOUS
  <2>2. TokMoves(t, d)
    BY <1>6 DEF Tok!Publish, TokMoves
  <2>3. /\ d \in Calls /\ d.at = x /\ d.target = c.target /\ d.service = c.service
        /\ d.token = c.token /\ d.took = c.took /\ d.keys = nrfKey
    BY <1>0, <2>1 DEF Calls, Stages
  <2>4. TokCall(d, nrfKey', tokFailures')
    <3>1. /\ c.token # None /\ c.token.left + c.took > Margin
          /\ c.token.aud = c.target /\ c.token.key <= nrfKey
      BY <2>1 DEF TokCall
    <3>2. d.at \notin {"issued", "refused"}
      BY <2>3
    <3>q. QED
      BY <1>n, <2>1, <2>3, <3>1, <3>2 DEF TokCall
  <2>q. QED
    BY <2>2, <2>3, <2>4, TokCallGoes
<1>7. ASSUME NEW t \in Tasks, Tok!KeysArrive(t)
      PROVE  TokIInv'
  <2> PICK c : c = call[t]
    OBVIOUS
  <2>1. c \in Calls /\ TokCall(c, nrfKey, tokFailures) /\ c.at \in {"keys", "first keys"}
        /\ tokFailures' = tokFailures /\ nrfKey' = nrfKey
    BY <1>0, <1>7 DEF Tok!KeysArrive, Tok!At, TokIInv
  <2> PICK x : x = IF c.at = "first keys" /\ ~Tok!Genuine(c.token, c.keys) THEN "fetch"
                   ELSE Tok!Verdict(c, c.keys)
    OBVIOUS
  <2>2. /\ x \in {"refused", "accepted", "fetch"}
        /\ x = "refused" => Tok!Verdict(c, c.keys) = "refused"
    BY DEF Tok!Verdict
  <2> PICK d : d = [c EXCEPT !.at = x]
    OBVIOUS
  <2>3. TokMoves(t, d)
    BY <1>7 DEF Tok!KeysArrive, Tok!Goes, TokMoves
  <2>4. /\ d \in Calls /\ d.at = x /\ d.target = c.target /\ d.service = c.service
        /\ d.token = c.token /\ d.took = c.took
    BY <2>1, <2>2 DEF Calls, Stages
  <2>5. /\ c.token # None /\ c.token.key \in Nat /\ c.keys \in Nat
        /\ c.token.key <= c.keys /\ c.keys <= nrfKey
    BY <2>1 DEF TokCall, Calls, Issued
  <2>6. x = "refused" /\ c.token.key = nrfKey => c.service \notin c.token.scope
    <3>1. c.token.key = nrfKey => Tok!Genuine(c.token, c.keys)
      <4> PICK m \in Nat, n \in Nat : m = c.token.key /\ n = c.keys /\ m <= n /\ n <= nrfKey
        BY <2>5
      <4>1. m = nrfKey => m = n
        BY <1>n
      <4>q. QED
        BY <4>1 DEF Tok!Genuine
    <3>q. QED
      BY <2>1, <2>2, <2>5, <3>1, TokVerdict
  <2>7. TokCall(d, nrfKey', tokFailures')
    BY <2>1, <2>2, <2>4, <2>5, <2>6 DEF TokCall
  <2>q. QED
    BY <2>3, <2>4, <2>7, TokCallGoes
<1>8. ASSUME NEW t \in Tasks, Tok!Done(t)
      PROVE  TokIInv'
  <2>1. TokMoves(t, None)
    BY <1>8 DEF Tok!Done, TokMoves
  <2>q. QED
    BY <2>1, TokCallGoes
<1>9. CASE Tok!NrfRestarts
  <2>1. nrfKey' = nrfKey + 1 /\ cache' = cache /\ call' = call /\ tokFailures' = tokFailures
    BY <1>9 DEF Tok!NrfRestarts
  <2>2. ASSUME NEW g \in Tok!Targets, cache[g] # None
        PROVE  /\ cache[g].left <= cache[g].token.left
               /\ cache[g].token.aud = g /\ cache[g].token.key <= nrfKey + 1
    <3>1. cache[g].token.key \in Nat
      BY <1>0, <2>2 DEF Cached, Issued
    <3>q. QED
      BY <1>0, <2>2, <3>1 DEF TokIInv, TokCached
  <2>3. ASSUME NEW t \in Tasks, call[t] # None
        PROVE  TokCall(call[t], nrfKey + 1, tokFailures)
    <3> PICK c : c = call[t]
      OBVIOUS
    <3>1. c \in Calls /\ TokCall(c, nrfKey, tokFailures)
      BY <1>0, <2>3 DEF TokIInv
    <3>2. c.token # None => c.token.key \in Nat /\ c.token.key <= nrfKey
      BY <3>1 DEF Calls, Issued, TokCall
    <3>3. c.token # None => c.token.key <= nrfKey + 1 /\ c.token.key # nrfKey + 1
      BY <1>0, <3>2
    <3>4. c.at \in {"keys", "first keys"} => c.keys \in Nat /\ c.token.key <= c.keys /\ c.keys <= nrfKey + 1
      <4> SUFFICES ASSUME c.at \in {"keys", "first keys"}
                   PROVE  c.keys \in Nat /\ c.token.key <= c.keys /\ c.keys <= nrfKey + 1
        OBVIOUS
      <4>1. c.keys \in Nat /\ c.token.key <= c.keys /\ c.keys <= nrfKey
        BY <3>1 DEF TokCall
      <4>q. QED
        BY <1>n, <4>1
    <3>q. QED
      BY <3>1, <3>3, <3>4 DEF TokCall
  <2>q. QED
    BY <1>0, <2>1, <2>2, <2>3 DEF TokIInv, TokTypes, TokCached
<1>10. CASE Tok!Reregister \/ UNCHANGED Tok!vars
  <2>1. nrfKey' = nrfKey /\ cache' = cache /\ call' = call /\ tokFailures' = tokFailures
    BY <1>10 DEF Tok!Reregister, Tok!vars
  <2>q. QED
    BY <2>1 DEF TokIInv, TokTypes, TokCached
<1>11. CASE Tok!Tick
  <2>1. /\ \A t \in Tasks : call[t] # None => call[t].took < Margin
        /\ cache' = [g \in Tok!Targets |-> IF cache[g] = None THEN None
               ELSE [token |-> Tok!Aged(cache[g].token), left |-> Tok!Less(cache[g].left)]]
        /\ call' = [t \in Tasks |-> IF call[t] = None THEN None
               ELSE [call[t] EXCEPT !.token = Tok!Aged(@), !.took = @ + 1]]
        /\ nrfKey' = nrfKey /\ tokFailures' = tokFailures
    BY <1>11 DEF Tok!Tick
  <2>2. ASSUME NEW n \in Nat
        PROVE  /\ Tok!Less(n) \in Nat /\ Tok!Less(n) <= n
               /\ n > 0 => Tok!Less(n) = n - 1
               /\ \A m \in Nat : n <= m => Tok!Less(n) <= Tok!Less(m)
               /\ \A m \in Nat : n # 0 => Tok!Less(n) + (m + 1) = n + m
    BY DEF Tok!Less
  <2>3. ASSUME NEW tok \in Issued
        PROVE  /\ Tok!Aged(tok) \in Issued
               /\ Tok!Aged(tok).left = Tok!Less(tok.left) /\ Tok!Aged(tok).key = tok.key
               /\ Tok!Aged(tok).aud = tok.aud /\ Tok!Aged(tok).scope = tok.scope
    <3>1. Tok!Aged(tok) = [tok EXCEPT !.left = Tok!Less(@)]
      BY DEF Tok!Aged, TokNone
    <3>2. Tok!Less(tok.left) \in Nat
      BY <2>2 DEF Issued
    <3>q. QED
      BY <3>1, <3>2 DEF Issued
  <2>4. ASSUME NEW g \in Tok!Targets, cache[g] # None
        PROVE  /\ cache'[g] \in Cached /\ cache'[g].left <= cache'[g].token.left
               /\ cache'[g].token.aud = g /\ cache'[g].token.key <= nrfKey'
    <3> PICK tok, n : tok = cache[g].token /\ n = cache[g].left
      OBVIOUS
    <3>1. tok \in Issued /\ n \in Nat /\ n <= tok.left /\ tok.aud = g /\ tok.key <= nrfKey
      BY <1>0, <2>4 DEF TokIInv, TokCached, Cached
    <3>2. cache'[g] = [token |-> Tok!Aged(tok), left |-> Tok!Less(n)]
      BY <2>1, <2>4
    <3>3. tok.left \in Nat
      BY <3>1 DEF Issued
    <3>4. /\ Tok!Aged(tok) \in Issued /\ Tok!Aged(tok).left = Tok!Less(tok.left)
          /\ Tok!Aged(tok).aud = tok.aud /\ Tok!Aged(tok).key = tok.key
      BY <2>3, <3>1
    <3>5. Tok!Less(n) \in Nat /\ Tok!Less(n) <= Tok!Less(tok.left)
      BY <2>2, <3>1, <3>3
    <3>6. cache'[g] \in Cached /\ cache'[g].token = Tok!Aged(tok) /\ cache'[g].left = Tok!Less(n)
      BY <3>2, <3>4, <3>5 DEF Cached
    <3>7. nrfKey' = nrfKey
      BY <2>1
    <3>q. QED
      BY <3>1, <3>4, <3>5, <3>6, <3>7
  <2>5. ASSUME NEW t \in Tasks, call[t] # None
        PROVE  call'[t] \in Calls /\ TokCall(call'[t], nrfKey', tokFailures')
    <3> PICK c : c = call[t]
      OBVIOUS
    <3>1. c \in Calls /\ TokCall(c, nrfKey, tokFailures) /\ c.took < Margin
      BY <1>0, <2>1, <2>5 DEF TokIInv
    <3> PICK tok : tok = Tok!Aged(c.token)
      OBVIOUS
    <3>2. /\ c.token = None => tok = None
          /\ c.token # None =>
               /\ tok \in Issued /\ tok # None /\ c.token \in Issued
               /\ tok.left = Tok!Less(c.token.left) /\ tok.key = c.token.key
               /\ tok.aud = c.token.aud /\ tok.scope = c.token.scope
      BY <2>3, <3>1 DEF Calls, TokNone, Tok!Aged
    <3> PICK d : d = call'[t]
      OBVIOUS
    <3>3. d = [c EXCEPT !.token = tok, !.took = c.took + 1]
      BY <2>1, <2>5
    <3>4. /\ d \in Calls /\ d.at = c.at /\ d.target = c.target /\ d.service = c.service
          /\ d.token = tok /\ d.took = c.took + 1 /\ d.keys = c.keys
      <4>1. tok \in Issued \cup {None}
        BY <3>2
      <4>2. c.took + 1 \in 0..Margin
        BY <1>0, <3>1 DEF Calls
      <4>q. QED
        BY <3>1, <3>3, <4>1, <4>2 DEF Calls
    <3>6. c.token # None => c.token.left # 0
      <4>1. c.took \in Nat
        BY <1>0, <3>1 DEF Calls
      <4>2. c.token # None => c.token.left + c.took > Margin
        BY <3>1 DEF TokCall
      <4>q. QED
        BY <1>0, <3>1, <4>1, <4>2
    <3>7. c.token # None => tok.left \in Nat /\ c.token.left \in Nat /\ c.took \in Nat /\ d.took \in Nat
      BY <1>0, <3>1, <3>2, <3>4 DEF Calls, Issued
    <3>8. nrfKey' = nrfKey /\ tokFailures' = tokFailures
      BY <2>1
    <3>9. c.token # None => tok.left + d.took = c.token.left + c.took
      <4> SUFFICES ASSUME c.token # None PROVE tok.left + d.took = c.token.left + c.took
        OBVIOUS
      <4>1. Tok!Less(c.token.left) + (c.took + 1) = c.token.left + c.took
        BY <2>2, <3>6, <3>7
      <4>q. QED
        BY <3>2, <3>4, <4>1
    <3>10. TokCall(d, nrfKey', tokFailures')
      BY <3>1, <3>2, <3>4, <3>8, <3>9 DEF TokCall
    <3>q. QED
      BY <3>4, <3>10
  <2>6. cache' \in [Tok!Targets -> Cached \cup {None}] /\ TokCached'
    <3>1. \A g \in Tok!Targets : cache[g] = None => cache'[g] = None
      BY <2>1
    <3>2. cache' = [g \in Tok!Targets |-> cache'[g]]
      BY <2>1
    <3>3. \A g \in Tok!Targets : cache'[g] \in Cached \cup {None}
      BY <2>4, <3>1
    <3>q. QED
      BY <2>4, <3>1, <3>2, <3>3 DEF TokCached
  <2>7. call' \in [Tasks -> Calls \cup {None}] /\ \A t \in Tasks : call'[t] # None => TokCall(call'[t], nrfKey', tokFailures')
    <3>1. \A t \in Tasks : call[t] = None => call'[t] = None
      BY <2>1
    <3>2. call' = [t \in Tasks |-> call'[t]]
      BY <2>1
    <3>3. \A t \in Tasks : call'[t] \in Calls \cup {None}
      BY <2>5, <3>1
    <3>q. QED
      BY <2>5, <3>1, <3>2, <3>3
  <2>q. QED
    BY <1>0, <2>1, <2>6, <2>7 DEF TokIInv, TokTypes
<1>q. QED
  BY <1>1, <1>2, <1>3, <1>4, <1>5, <1>6, <1>7, <1>8, <1>9, <1>10, <1>11 DEF Tok!Next, Tok!Step

\* token_for, require_token: for any calls at a time, services, lifetimes, restarts of the
\* NRF and failures, what the client's cache thinks is left of a token is not more than what
\* is, and a token of the key in force is refused for its scope only.
THEOREM TokensAreAccepted ==
    ASSUME Tok!TokenAssumption, TokNone
    PROVE  Tok!Init /\ [][Tok!Next]_(Tok!vars) => [](Tok!CacheIsConservative /\ Tok!CurrentTokenAccepted)
<1>1. TokIInv /\ [Tok!Next]_(Tok!vars) => TokIInv'
  BY TokStep
<1>2. TokIInv => Tok!CacheIsConservative /\ Tok!CurrentTokenAccepted
  BY DEF TokIInv, TokCached, TokCall, Tok!CacheIsConservative, Tok!CurrentTokenAccepted, Tok!At
<1>3. QED
  BY TokInitIInv, <1>1, <1>2, PTL

-----------------------------------------------------------------------------
(* Traffic influence *)

\* What the NEF let through.
NefLetThrough(c) == Nef!AuthorizeAf(c.af, c.key) /\ Nef!AuthorizeRequest(c) /\ c.dnais # {}
NefPermitted(x) == NefLetThrough(asked[x])

NefTypes ==
    /\ at \in [Requests -> {"new", "refused", "authorised", "applied", "live", "deleted"}]
    /\ applied \in [Requests -> {None, "udr", "pcf", "smf"}]
    /\ subs \subseteq {x \in Requests : at[x] = "live"} /\ withdrawing \subseteq {x \in Requests : at[x] = "live"}
    /\ withdrawing \cap subs = {}
    /\ apps \subseteq Requests /\ breakout \in Requests \cup {None} /\ nefFailures \in Nat
    /\ \A k \in DOMAIN docs : docs[k] \in Requests
    /\ asked = [x \in Requests |-> asked[x]]

\* Only what was let through is authorised or in effect.
NefChecked ==
    /\ \A x \in Requests : at[x] = "authorised" => NefPermitted(x)
    /\ \A x \in Nef!InEffect : at[x] # "new" /\ NefPermitted(x)

\* What is on its way to a subscription, or is one, knows how it was applied, and the PCF has
\* the app-session of one nobody deletes.
NefApplied ==
    \A x \in Requests :
        /\ at[x] \in {"applied", "live"} => applied[x] # None
        /\ at[x] = "applied" \/ x \in subs => (applied[x] = "pcf" => x \in apps)

\* With nothing lost what is in effect is there the way it was applied.
NefWhole ==
    nefFailures = 0 =>
        /\ breakout # None => at[breakout] \in {"applied", "live"} /\ applied[breakout] = "smf"
        /\ \A x \in apps : at[x] \in {"applied", "live"} /\ applied[x] = "pcf"
        /\ \A k \in DOMAIN docs : /\ at[docs[k]] \in {"applied", "live"} /\ applied[docs[k]] = "udr"
                                  /\ k = Nef!InfluenceId(docs[k])

\* The inductive invariant.
NefIInv == NefTypes /\ NefChecked /\ NefApplied /\ NefWhole

NefNone == None \notin Requests /\ None \notin {"udr", "pcf", "smf"}

\* Nothing was asked for yet.
LEMMA NefInitIInv == ASSUME NefNone PROVE Nef!Init => NefIInv
BY DEF NefNone, Nef!Init, NefIInv, NefTypes, NefChecked, NefApplied, NefWhole, Nef!InEffect

\* Every step keeps it, for any number of requests, AFs and failures.
LEMMA NefStep ==
    ASSUME NefNone, NefIInv, [Nef!Next]_(Nef!vars)
    PROVE  NefIInv'
<1> USE DEF NefIInv
<1>1. ASSUME NEW x \in Requests, NEW c \in Contents, Nef!Authorise(x, c)
      PROVE  NefIInv'
  <2>1. /\ at[x] = "new"
        /\ \/ /\ at' = [at EXCEPT ![x] = "authorised"] /\ asked' = [asked EXCEPT ![x] = c]
              /\ NefLetThrough(c)
           \/ at' = [at EXCEPT ![x] = "refused"] /\ asked' = asked
        /\ UNCHANGED <<applied, subs, docs, apps, breakout, withdrawing, nefFailures>>
    BY <1>1 DEF Nef!Authorise, NefLetThrough
  <2>2. NefTypes' /\ NefApplied'
    BY <2>1 DEF NefTypes, NefApplied
  <2>3. Nef!InEffect' = Nef!InEffect /\ x \notin Nef!InEffect /\ Nef!InEffect \subseteq Requests
    BY <2>1 DEF Nef!InEffect, NefChecked, NefTypes
  <2>4. \A y \in Requests \ {x} : asked'[y] = asked[y] /\ at'[y] = at[y]
    BY <2>1 DEF NefTypes
  <2>5. \A y \in Requests \ {x} : (NefPermitted(y))' <=> NefPermitted(y)
    BY <2>4 DEF NefPermitted, NefLetThrough, Nef!AuthorizeAf, Nef!AuthorizeRequest, Nef!PermitsDnn,
                Nef!Permits, Nef!PermitsSupi, Nef!IsGroup
  <2>6. at'[x] = "authorised" => (NefPermitted(x))'
    <3>1. at'[x] = "authorised" => asked'[x] = c /\ NefLetThrough(c)
      BY <2>1 DEF NefTypes
    <3>q. QED
      BY <3>1 DEF NefPermitted, NefLetThrough, Nef!AuthorizeAf, Nef!AuthorizeRequest, Nef!PermitsDnn,
                  Nef!Permits, Nef!PermitsSupi, Nef!IsGroup
  <2>7. NefChecked'
    BY <2>1, <2>3, <2>4, <2>5, <2>6 DEF NefChecked
  <2>8. NefWhole'
    <3>1. \A k \in DOMAIN docs : docs[k] \in Requests \ {x}
      BY <2>3 DEF Nef!InEffect, NefTypes
    <3>2. \A y \in Requests \ {x} : Nef!InfluenceId(y)' = Nef!InfluenceId(y)
      BY <2>4 DEF Nef!InfluenceId
    <3>3. \A y \in apps : y \in Requests \ {x}
      BY <2>3 DEF Nef!InEffect
    <3>4. breakout # None => breakout \in Requests \ {x}
      BY <2>3 DEF Nef!InEffect, NefTypes
    <3>q. QED
      BY <2>1, <2>4, <3>1, <3>2, <3>3, <3>4 DEF NefWhole
  <2>q. QED
    BY <2>2, <2>7, <2>8
\* The other steps leave what was asked for alone.
<1>0. ASSUME asked' = asked
      PROVE  \A x \in Requests : (NefPermitted(x))' <=> NefPermitted(x)
  BY <1>0 DEF NefPermitted, NefLetThrough, Nef!AuthorizeAf, Nef!AuthorizeRequest, Nef!PermitsDnn,
              Nef!Permits, Nef!PermitsSupi, Nef!IsGroup
<1>00. ASSUME asked' = asked
      PROVE  \A x \in Requests : Nef!InfluenceId(x)' = Nef!InfluenceId(x)
  BY <1>00 DEF Nef!InfluenceId
<1>2. ASSUME NEW x \in Requests, Nef!ApplyGroup(x)
      PROVE  NefIInv'
  <2>1. /\ at[x] = "authorised" /\ at' = [at EXCEPT ![x] = "applied"]
        /\ applied' = [applied EXCEPT ![x] = "udr"]
        /\ docs' = [k \in DOMAIN docs \cup {Nef!InfluenceId(x)} |-> IF k = Nef!InfluenceId(x) THEN x ELSE docs[k]]
        /\ UNCHANGED <<subs, apps, breakout, withdrawing, nefFailures, asked>>
    BY <1>2 DEF Nef!ApplyGroup, Nef!Put
  <2>2. NefTypes' /\ NefApplied' /\ NefWhole'
    BY <2>1, <1>00 DEF NefTypes, NefApplied, NefWhole, NefNone
  <2>3. Nef!InEffect' \subseteq Nef!InEffect \cup {x}
    BY <2>1 DEF Nef!InEffect
  <2>4. \A y \in Requests : (NefPermitted(y))' <=> NefPermitted(y)
    BY <2>1, <1>0
  <2>5. \A y \in Requests : at[y] # "new" => at'[y] # "new"
    BY <2>1 DEF NefTypes
  <2>6. Nef!InEffect \subseteq Requests
    BY DEF Nef!InEffect, NefTypes
  <2>7. NefChecked'
    BY <2>1, <2>3, <2>4, <2>5, <2>6 DEF NefChecked, NefTypes
  <2>q. QED
    BY <2>2, <2>7
<1>3. ASSUME NEW x \in Requests, Nef!ApplyPcf(x)
      PROVE  NefIInv'
  <2>1. /\ at[x] = "authorised" /\ at' = [at EXCEPT ![x] = "applied"]
        /\ applied' = [applied EXCEPT ![x] = "pcf"] /\ apps' = apps \cup {x}
        /\ UNCHANGED <<subs, docs, breakout, withdrawing, nefFailures, asked>>
    BY <1>3 DEF Nef!ApplyPcf
  <2>2. NefTypes' /\ NefApplied' /\ NefWhole'
    BY <2>1, <1>00 DEF NefTypes, NefApplied, NefWhole, NefNone
  <2>3. Nef!InEffect' \subseteq Nef!InEffect \cup {x}
    BY <2>1 DEF Nef!InEffect
  <2>4. \A y \in Requests : (NefPermitted(y))' <=> NefPermitted(y)
    BY <2>1, <1>0
  <2>5. \A y \in Requests : at[y] # "new" => at'[y] # "new"
    BY <2>1 DEF NefTypes
  <2>6. Nef!InEffect \subseteq Requests
    BY DEF Nef!InEffect, NefTypes
  <2>7. NefChecked'
    BY <2>1, <2>3, <2>4, <2>5, <2>6 DEF NefChecked, NefTypes
  <2>q. QED
    BY <2>2, <2>7
<1>4. ASSUME NEW x \in Requests, Nef!ApplySmf(x)
      PROVE  NefIInv'
  <2>1. /\ at[x] = "authorised" /\ nefFailures' = nefFailures
        /\ \/ /\ breakout' = x /\ at' = [at EXCEPT ![x] = "applied"]
              /\ applied' = [applied EXCEPT ![x] = "smf"]
           \/ at' = [at EXCEPT ![x] = "refused"] /\ UNCHANGED <<breakout, applied>>
        /\ UNCHANGED <<subs, docs, apps, withdrawing, asked>>
    BY <1>4 DEF Nef!ApplySmf, Nef!Fails
  <2>2. NefTypes' /\ NefApplied' /\ NefWhole'
    BY <2>1, <1>00 DEF NefTypes, NefApplied, NefWhole, NefNone
  <2>3. Nef!InEffect' \subseteq Nef!InEffect \cup {x}
    BY <2>1 DEF Nef!InEffect
  <2>4. \A y \in Requests : (NefPermitted(y))' <=> NefPermitted(y)
    BY <2>1, <1>0
  <2>5. \A y \in Requests : at[y] # "new" => at'[y] # "new"
    BY <2>1 DEF NefTypes
  <2>6. Nef!InEffect \subseteq Requests
    BY DEF Nef!InEffect, NefTypes
  <2>7. NefChecked'
    BY <2>1, <2>3, <2>4, <2>5, <2>6 DEF NefChecked, NefTypes
  <2>q. QED
    BY <2>2, <2>7
<1>5. ASSUME NEW x \in Requests, Nef!ApplyFails(x)
      PROVE  NefIInv'
  <2>1. /\ at[x] = "authorised" /\ nefFailures' = nefFailures + 1
        /\ at' = [at EXCEPT ![x] = "refused"]
        /\ apps' \in {apps, apps \cup {x}}
        /\ \/ docs' = docs
           \/ docs' = [k \in DOMAIN docs \cup {Nef!InfluenceId(x)} |-> IF k = Nef!InfluenceId(x) THEN x ELSE docs[k]]
        /\ UNCHANGED <<applied, subs, breakout, withdrawing, asked>>
    BY <1>5 DEF Nef!ApplyFails, Nef!Fails, Nef!Put
  <2>2. NefTypes' /\ NefApplied' /\ NefWhole'
    BY <2>1, <1>00 DEF NefTypes, NefApplied, NefWhole, NefNone
  <2>3. Nef!InEffect' \subseteq Nef!InEffect \cup {x}
    BY <2>1 DEF Nef!InEffect
  <2>4. \A y \in Requests : (NefPermitted(y))' <=> NefPermitted(y)
    BY <2>1, <1>0
  <2>5. \A y \in Requests : at[y] # "new" => at'[y] # "new"
    BY <2>1 DEF NefTypes
  <2>6. Nef!InEffect \subseteq Requests
    BY DEF Nef!InEffect, NefTypes
  <2>7. NefChecked'
    BY <2>1, <2>3, <2>4, <2>5, <2>6 DEF NefChecked, NefTypes
  <2>q. QED
    BY <2>2, <2>7
<1>6. ASSUME NEW x \in Requests, Nef!Record(x)
      PROVE  NefIInv'
  <2>1. /\ at[x] = "applied" /\ at' = [at EXCEPT ![x] = "live"] /\ subs' = subs \cup {x}
        /\ UNCHANGED <<applied, docs, apps, breakout, withdrawing, nefFailures, asked>>
    BY <1>6 DEF Nef!Record
  <2>2. NefTypes' /\ NefApplied' /\ NefWhole'
    BY <2>1, <1>00 DEF NefTypes, NefApplied, NefWhole
  <2>3. Nef!InEffect' = Nef!InEffect
    BY <2>1 DEF Nef!InEffect
  <2>4. \A y \in Requests : (NefPermitted(y))' <=> NefPermitted(y)
    BY <2>1, <1>0
  <2>5. \A y \in Requests : at[y] # "new" => at'[y] # "new"
    BY <2>1 DEF NefTypes
  <2>6. Nef!InEffect \subseteq Requests
    BY DEF Nef!InEffect, NefTypes
  <2>7. NefChecked'
    BY <2>1, <2>3, <2>4, <2>5, <2>6 DEF NefChecked, NefTypes
  <2>q. QED
    BY <2>2, <2>7
<1>7. ASSUME NEW x \in Requests, NEW af \in Afs, NEW key \in Afs, Nef!Take(af, key, x)
      PROVE  NefIInv'
  <2>1. /\ x \in subs /\ subs' = subs \ {x} /\ withdrawing' = withdrawing \cup {x}
        /\ UNCHANGED <<at, applied, docs, apps, breakout, nefFailures, asked>>
    BY <1>7 DEF Nef!Take
  <2>2. NefTypes' /\ NefApplied' /\ NefWhole'
    BY <2>1, <1>00 DEF NefTypes, NefApplied, NefWhole
  <2>3. Nef!InEffect' = Nef!InEffect
    BY <2>1 DEF Nef!InEffect
  <2>4. \A y \in Requests : (NefPermitted(y))' <=> NefPermitted(y)
    BY <2>1, <1>0
  <2>5. \A y \in Requests : at[y] # "new" => at'[y] # "new"
    BY <2>1 DEF NefTypes
  <2>6. Nef!InEffect \subseteq Requests
    BY DEF Nef!InEffect, NefTypes
  <2>7. NefChecked'
    BY <2>1, <2>3, <2>4, <2>5, <2>6 DEF NefChecked, NefTypes
  <2>q. QED
    BY <2>2, <2>7
<1>8. ASSUME NEW x \in Requests, Nef!Withdraw(x) \/ Nef!WithdrawFails(x)
      PROVE  NefIInv'
  <2>0. applied[x] \in {"udr", "pcf", "smf"} /\ x \in withdrawing /\ at[x] = "live"
    BY <1>8 DEF Nef!Withdraw, Nef!WithdrawFails, NefTypes, NefApplied
  <2>1. /\ at' = [at EXCEPT ![x] = "deleted"] /\ withdrawing' = withdrawing \ {x}
        /\ UNCHANGED <<applied, subs, asked>>
        /\ \/ /\ nefFailures' = nefFailures + 1 /\ UNCHANGED <<docs, apps, breakout>>
           \/ /\ nefFailures' = nefFailures
              /\ \/ /\ applied[x] = "udr" /\ docs' = Nef!Restrict(docs, DOMAIN docs \ {Nef!InfluenceId(x)})
                    /\ UNCHANGED <<apps, breakout>>
                 \/ applied[x] = "pcf" /\ apps' = apps \ {x} /\ UNCHANGED <<docs, breakout>>
                 \/ applied[x] = "smf" /\ breakout' = None /\ UNCHANGED <<docs, apps>>
    BY <1>8, <2>0 DEF Nef!Withdraw, Nef!WithdrawFails, Nef!Fails
  <2>2. NefTypes' /\ NefApplied' /\ NefWhole'
    BY <2>0, <2>1, <1>00 DEF NefTypes, NefApplied, NefWhole, Nef!Restrict
  <2>3. Nef!InEffect' \subseteq Nef!InEffect
    BY <2>1 DEF Nef!InEffect, Nef!Restrict
  <2>4. \A y \in Requests : (NefPermitted(y))' <=> NefPermitted(y)
    BY <2>1, <1>0
  <2>5. \A y \in Requests : at[y] # "new" => at'[y] # "new"
    BY <2>1 DEF NefTypes
  <2>6. Nef!InEffect \subseteq Requests
    BY DEF Nef!InEffect, NefTypes
  <2>7. NefChecked'
    BY <2>1, <2>3, <2>4, <2>5, <2>6 DEF NefChecked, NefTypes
  <2>q. QED
    BY <2>2, <2>7
<1>9. CASE Nef!RenewSession
  <2>1. /\ breakout' = None /\ UNCHANGED <<at, applied, subs, docs, apps, withdrawing, nefFailures, asked>>
    BY <1>9 DEF Nef!RenewSession
  <2>2. NefTypes' /\ NefApplied' /\ NefWhole'
    BY <2>1, <1>00 DEF NefTypes, NefApplied, NefWhole
  <2>3. Nef!InEffect' \subseteq Nef!InEffect
    BY <2>1 DEF Nef!InEffect
  <2>4. \A y \in Requests : (NefPermitted(y))' <=> NefPermitted(y)
    BY <2>1, <1>0
  <2>5. \A y \in Requests : at[y] # "new" => at'[y] # "new"
    BY <2>1 DEF NefTypes
  <2>6. Nef!InEffect \subseteq Requests
    BY DEF Nef!InEffect, NefTypes
  <2>7. NefChecked'
    BY <2>1, <2>3, <2>4, <2>5, <2>6 DEF NefChecked, NefTypes
  <2>q. QED
    BY <2>2, <2>7
<1>10. CASE UNCHANGED Nef!vars
  <2>1. UNCHANGED <<at, applied, subs, docs, apps, breakout, withdrawing, nefFailures, asked>>
    BY <1>10 DEF Nef!vars
  <2>2. Nef!InEffect' = Nef!InEffect /\ Nef!InEffect \subseteq Requests
    BY <2>1 DEF Nef!InEffect, NefTypes
  <2>q. QED
    BY <2>1, <2>2, <1>0, <1>00 DEF NefTypes, NefChecked, NefApplied, NefWhole
<1>q. QED
  BY <1>1, <1>2, <1>3, <1>4, <1>5, <1>6, <1>7, <1>8, <1>9, <1>10 DEF Nef!Next

\* authorize_af, authorize_request, delete_subscription: for any AFs, contracts, requests and
\* failures nothing is in effect for a DNN, an edge, a UE or a group outside the contract of the
\* AF whose key asked for it, and an app-session whose subscription nobody deletes stays; with
\* no call lost and nobody to call missing, nothing stays when all is deleted.
THEOREM InfluenceIsPermitted ==
    ASSUME NefNone
    PROVE  Nef!Spec => [](Nef!WithinSla /\ Nef!NothingLeftBehind /\ Nef!PcfInfluenceStands)
<1>1. NefIInv /\ [Nef!Next]_(Nef!vars) => NefIInv'
  BY NefStep
<1>2. ASSUME NefIInv PROVE Nef!WithinSla
  BY <1>2 DEF NefIInv, NefChecked, NefPermitted, NefLetThrough, Nef!WithinSla, Nef!AuthorizeAf,
              Nef!AuthorizeRequest, Nef!PermitsDnn, Nef!Permits, Nef!PermitsSupi, Nef!IsGroup
<1>3. ASSUME NefIInv PROVE Nef!NothingLeftBehind
  BY <1>3 DEF NefIInv, NefTypes, NefWhole, Nef!NothingLeftBehind, Nef!InEffect
<1>4. ASSUME NefIInv PROVE Nef!PcfInfluenceStands
  BY <1>4 DEF NefIInv, NefTypes, NefApplied, Nef!PcfInfluenceStands
<1>5. QED
  BY NefInitIInv, <1>1, <1>2, <1>3, <1>4, PTL DEF Nef!Spec

-----------------------------------------------------------------------------
(* Subscriber data changes *)

SdmFields == {"at", "ver", "todo", "id", "got", "owed"}

SdmTypes ==
    /\ doc \in Nat /\ sent \in Nat
    /\ DOMAIN ue = {"at", "id", "view"} /\ ue.id \in Nat
    /\ DOMAIN count = {"registrations", "idle", "losses", "restarts"}
    /\ count.idle \in Nat /\ count.losses \in Nat
    /\ change = [p \in Puts |-> change[p]]
    /\ \A p \in Puts : DOMAIN change[p] = SdmFields /\ change[p] = [f \in SdmFields |-> change[p][f]]
                       /\ change[p].ver \in Nat /\ change[p].ver <= doc

\* While the UE that has to hear of a change stays registered the change is on its way to its
\* task, or has been handed over.
SdmGood(c, u, n, k) ==
    /\ c.at \in {"new", "stored"} => c.owed = None
    /\ c.owed # None => c.owed \in Nat /\ c.owed <= u.id
    /\ c.owed # None /\ c.owed = u.id => u.at # "registering"
    /\ c.at = "sending" => c.got \in Nat
    /\ c.owed # None /\ c.owed = u.id /\ u.at = "registered" /\ k.losses = 0 /\ k.idle = 0 =>
         /\ c.at \in {"fetching", "sending"} => c.id = u.id
         /\ c.at = "sending" => c.got >= c.ver
         /\ c.at = "done" => n >= c.ver

SdmOnItsWay == \A p \in Puts : SdmGood(change[p], ue, sent, count)

\* The inductive invariant.
SdmIInv == SdmTypes /\ SdmOnItsWay /\ (count.idle = 0 => ue.at # "idle")

\* Change p goes on, and it is all that does.
SdmMoves(p, c) ==
    /\ change' = [q \in Puts |-> change'[q]] /\ change'[p] = c /\ \A q \in Puts \ {p} : change'[q] = change[q]
    /\ DOMAIN c = SdmFields /\ c = [f \in SdmFields |-> c[f]]
    /\ doc' \in Nat /\ doc <= doc' /\ c.ver \in Nat /\ c.ver <= doc'
    /\ sent' \in Nat /\ sent <= sent' /\ ue' = ue

\* Nothing was changed yet.
LEMMA SdmInitIInv == Sdm!Init => SdmIInv
BY DEF Sdm!Init, Sdm!Bounds, SdmIInv, SdmTypes, SdmOnItsWay, SdmGood, SdmFields

\* A change that moves as it should keeps the invariant.
LEMMA SdmChangeMoves ==
    ASSUME SdmIInv, NEW p \in Puts, NEW c, SdmMoves(p, c), SdmGood(c, ue, sent', count'),
           DOMAIN count' = DOMAIN count, count'.idle = count.idle,
           count'.losses \in Nat, count.losses <= count'.losses
    PROVE  SdmIInv'
<1>1. /\ doc \in Nat /\ doc' \in Nat /\ doc <= doc' /\ sent \in Nat /\ sent' \in Nat /\ sent <= sent'
      /\ ue' = ue /\ count.losses \in Nat
      /\ change = [q \in Puts |-> change[q]]
  BY DEF SdmIInv, SdmTypes, SdmMoves
<1>2. change' = [q \in Puts |-> change'[q]] /\ change'[p] = c /\ \A q \in Puts \ {p} : change'[q] = change[q]
  BY <1>1 DEF SdmMoves
<1>3. ASSUME NEW q \in Puts
      PROVE  /\ DOMAIN change'[q] = SdmFields /\ change'[q] = [f \in SdmFields |-> change'[q][f]]
             /\ change'[q].ver \in Nat /\ change'[q].ver <= doc'
  <2>1. CASE q = p
    BY <1>2, <2>1 DEF SdmMoves
  <2>2. CASE q # p
    <3>1. change'[q] = change[q] /\ change[q].ver \in Nat /\ change[q].ver <= doc
      BY <1>2, <2>2 DEF SdmIInv, SdmTypes
    <3>2. change[q].ver <= doc'
      BY <1>1, <3>1
    <3>q. QED
      BY <3>1, <3>2 DEF SdmIInv, SdmTypes
  <2>q. QED
    BY <2>1, <2>2
<1>4. ASSUME NEW q \in Puts
      PROVE  SdmGood(change'[q], ue', sent', count')
  <2>1. CASE q = p
    BY <1>1, <1>2, <2>1
  <2>2. CASE q # p
    <3> PICK d : d = change[q]
      OBVIOUS
    <3>1. change'[q] = d /\ d.ver \in Nat /\ SdmGood(d, ue, sent, count)
      BY <1>2, <2>2 DEF SdmIInv, SdmTypes, SdmOnItsWay
    <3>2. sent >= d.ver => sent' >= d.ver
      BY <1>1, <3>1
    <3>3. count'.losses = 0 => count.losses = 0
      BY <1>1
    <3>q. QED
      BY <1>1, <3>1, <3>2, <3>3 DEF SdmGood
  <2>q. QED
    BY <2>1, <2>2
<1>q. QED
  BY <1>1, <1>2, <1>3, <1>4 DEF SdmIInv, SdmTypes, SdmOnItsWay

\* And so does a step of the AMF or the UDM.
LEMMA SdmOthersMove ==
    ASSUME SdmIInv, change' = change, doc' = doc,
           DOMAIN ue' = DOMAIN ue, DOMAIN count' = DOMAIN count,
           \/ ue'.id = ue.id + 1 /\ ue'.at # "registered" /\ sent' \in Nat
           \/ /\ ue'.id = ue.id /\ sent' = sent
              /\ ue'.at = "registered" => ue.at \in {"registered", "idle", "registering"}
              /\ ue'.at = "registering" => ue.at = "registering",
           count'.losses \in Nat, count.losses <= count'.losses,
           count'.idle \in Nat, count.idle <= count'.idle,
           count'.idle = 0 => ue'.at # "idle"
    PROVE  SdmIInv'
<1>1. /\ doc \in Nat /\ sent \in Nat /\ sent' \in Nat /\ ue.id \in Nat /\ ue'.id \in Nat
      /\ count.losses \in Nat /\ count.idle \in Nat
  BY DEF SdmIInv, SdmTypes
<1>2. ASSUME NEW q \in Puts
      PROVE  SdmGood(change[q], ue', sent', count')
  <2> PICK d : d = change[q]
    OBVIOUS
  <2>1. SdmGood(d, ue, sent, count)
    BY DEF SdmIInv, SdmOnItsWay
  <2>2. (count'.losses = 0 => count.losses = 0) /\ (count'.idle = 0 => count.idle = 0)
    BY <1>1
  <2>3. d.owed # None => d.owed \in Nat /\ d.owed <= ue'.id /\ (d.owed = ue'.id => ue'.id = ue.id)
    BY <1>1, <2>1 DEF SdmGood
  <2>4. count.idle = 0 => ue.at # "idle"
    BY DEF SdmIInv
  <2>q. QED
    BY <1>1, <2>1, <2>2, <2>3, <2>4 DEF SdmGood
<1>q. QED
  BY <1>1, <1>2 DEF SdmIInv, SdmTypes, SdmOnItsWay

\* Every step of the AMF, the UDM and the changes keeps it.
LEMMA SdmStep ==
    ASSUME SdmIInv, [Sdm!Next]_(Sdm!vars)
    PROVE  SdmIInv'
<1>0. /\ doc \in Nat /\ sent \in Nat /\ ue.id \in Nat /\ DOMAIN ue = {"at", "id", "view"}
      /\ DOMAIN count = {"registrations", "idle", "losses", "restarts"}
      /\ count.idle \in Nat /\ count.losses \in Nat
      /\ count.idle = 0 => ue.at # "idle"
  BY DEF SdmIInv, SdmTypes
<1>1. ASSUME NEW what \in {"registrations", "idle", "losses", "restarts"}, Sdm!Counts(what)
      PROVE  /\ DOMAIN count' = DOMAIN count
             /\ count'.losses = IF what = "losses" THEN count.losses + 1 ELSE count.losses
             /\ count'.idle = IF what = "idle" THEN count.idle + 1 ELSE count.idle
  BY <1>0, <1>1 DEF Sdm!Counts
<1>2. CASE Sdm!Register
  <2>1. Sdm!Counts("registrations")
    BY <1>2 DEF Sdm!Register
  <2>2. /\ change' = change /\ doc' = doc /\ ue'.id = ue.id + 1 /\ ue'.at = "registering" /\ sent' \in Nat
        /\ DOMAIN ue' = DOMAIN ue
    BY <1>0, <1>2 DEF Sdm!Register
  <2>q. QED
    BY <1>0, <1>1, <2>1, <2>2, SdmOthersMove
<1>3. CASE Sdm!Complete \/ Sdm!Deregister \/ Sdm!Resume
  <2>1. /\ change' = change /\ doc' = doc /\ sent' = sent /\ count' = count
        /\ DOMAIN ue' = DOMAIN ue /\ ue'.id = ue.id /\ ue'.at \notin {"registering", "idle"}
        /\ ue'.at = "registered" => ue.at \in {"registering", "idle"}
    BY <1>0, <1>3 DEF Sdm!Complete, Sdm!Deregister, Sdm!Resume
  <2>q. QED
    BY <1>0, <2>1, SdmOthersMove
<1>4. CASE Sdm!GoIdle
  <2>1. Sdm!Counts("idle")
    BY <1>4 DEF Sdm!GoIdle
  <2>2. /\ change' = change /\ doc' = doc /\ sent' = sent
        /\ DOMAIN ue' = DOMAIN ue /\ ue'.id = ue.id /\ ue'.at = "idle"
    BY <1>0, <1>4 DEF Sdm!GoIdle
  <2>3. count'.idle = count.idle + 1 /\ count'.losses = count.losses /\ DOMAIN count' = DOMAIN count
    BY <1>1, <2>1
  <2>q. QED
    BY <1>0, <2>2, <2>3, SdmOthersMove
<1>5. CASE \E c \in calls : Sdm!Subscribed(c) \/ Sdm!Keep(c) \/ Sdm!Unsubscribed(c)
  <2>1. change' = change /\ doc' = doc /\ sent' = sent /\ ue' = ue /\ count' = count
    BY <1>5 DEF Sdm!Subscribed, Sdm!Keep, Sdm!Unsubscribed
  <2>q. QED
    BY <2>1 DEF SdmIInv, SdmTypes, SdmOnItsWay
<1>6. CASE Sdm!UdmRestarts \/ \E c \in calls : Sdm!CallFails(c)
  <2>1. PICK what \in {"losses", "restarts"} : Sdm!Counts(what)
    BY <1>6 DEF Sdm!CallFails, Sdm!UdmRestarts
  <2>2. change' = change /\ doc' = doc /\ sent' = sent /\ ue' = ue
    BY <1>6 DEF Sdm!CallFails, Sdm!UdmRestarts
  <2>3. /\ DOMAIN count' = DOMAIN count /\ count'.idle = count.idle
        /\ count'.losses \in Nat /\ count.losses <= count'.losses
    BY <1>0, <1>1, <2>1
  <2>4. ue'.at = "registered" => ue.at \in {"registered", "idle", "registering"}
    BY <2>2
  <2>q. QED
    BY <1>0, <2>2, <2>3, <2>4, SdmOthersMove
<1>7. CASE Sdm!Apply
  <2>1. /\ change' = change /\ doc' = doc /\ sent' = sent /\ count' = count
        /\ DOMAIN ue' = DOMAIN ue /\ ue'.id = ue.id /\ ue'.at = ue.at
    BY <1>0, <1>7 DEF Sdm!Apply
  <2>q. QED
    BY <1>0, <2>1, SdmOthersMove
<1>8. ASSUME NEW p \in Puts, Sdm!Change(p) \/ Sdm!NotifyFails(p)
      PROVE  SdmIInv'
  <2> PICK d : d = change[p]
    OBVIOUS
  <2>0. /\ change = [q \in Puts |-> change[q]] /\ DOMAIN d = SdmFields /\ d = [f \in SdmFields |-> d[f]]
        /\ d.ver \in Nat /\ d.ver <= doc /\ SdmGood(d, ue, sent, count)
    BY DEF SdmIInv, SdmTypes, SdmOnItsWay
  <2>1. CASE Sdm!Store(p)
    <3> PICK c : c = change'[p]
      OBVIOUS
    <3>0. change' = [q \in Puts |-> change'[q]] /\ \A q \in Puts \ {p} : change'[q] = change[q]
      BY <2>0, <2>1 DEF Sdm!Store
    <3>1. /\ DOMAIN c = SdmFields /\ c = [f \in SdmFields |-> c[f]]
          /\ c.at = "stored" /\ c.ver = doc + 1 /\ c.owed = d.owed
      BY <2>0, <2>1 DEF SdmFields, Sdm!Store
    <3>2. SdmMoves(p, c) /\ sent' = sent /\ count' = count
      <4>1. doc' = doc + 1 /\ sent' = sent /\ count' = count /\ ue' = ue
        BY <2>1 DEF Sdm!Store
      <4>2. doc + 1 \in Nat /\ doc <= doc + 1 /\ doc + 1 <= doc + 1 /\ sent <= sent
        BY <1>0
      <4>q. QED
        BY <1>0, <3>0, <3>1, <4>1, <4>2 DEF SdmMoves
    <3>3. SdmGood(c, ue, sent', count')
      BY <2>0, <2>1, <3>1, <3>2 DEF Sdm!Store, SdmGood
    <3>q. QED
      BY <1>0, <3>2, <3>3, SdmChangeMoves
  <2>2. CASE Sdm!FanOut(p)
    <3> PICK x, o :
          /\ x = IF sdmSubs = {} THEN "done" ELSE "calling"
          /\ o = IF sdmSubs # {} /\ ue.at = "registered" THEN ue.id ELSE None
      OBVIOUS
    <3> PICK c : c = change'[p]
      OBVIOUS
    <3>0. change' = [q \in Puts |-> change'[q]] /\ \A q \in Puts \ {p} : change'[q] = change[q]
      BY <2>0, <2>2 DEF Sdm!FanOut
    <3>1. /\ DOMAIN c = SdmFields /\ c = [f \in SdmFields |-> c[f]]
          /\ c.at = x /\ c.ver = d.ver /\ c.owed = o
      BY <2>0, <2>2 DEF SdmFields, Sdm!FanOut
    <3>2. SdmMoves(p, c) /\ sent' = sent /\ count' = count
      <4>1. doc' = doc /\ sent' = sent /\ count' = count /\ ue' = ue
        BY <2>2 DEF Sdm!FanOut
      <4>q. QED
        BY <1>0, <2>0, <3>0, <3>1, <4>1 DEF SdmMoves
    <3>3. SdmGood(c, ue, sent', count')
      <4>1. o # None => o = ue.id /\ ue.at = "registered" /\ x = "calling"
        OBVIOUS
      <4>2. ue.id <= ue.id
        BY <1>0
      <4>q. QED
        BY <1>0, <3>1, <3>2, <4>1, <4>2 DEF SdmGood
    <3>q. QED
      BY <1>0, <3>2, <3>3, SdmChangeMoves
  <2>3. CASE Sdm!NotifyFails(p)
    <3> PICK x \in {"done", "calling"} : x = IF change[p].todo > 1 THEN "calling" ELSE "done"
      OBVIOUS
    <3> PICK c : c = change'[p]
      OBVIOUS
    <3>0. change' = [q \in Puts |-> change'[q]] /\ \A q \in Puts \ {p} : change'[q] = change[q]
      BY <2>0, <2>3 DEF Sdm!NotifyFails
    <3>1. /\ DOMAIN c = SdmFields /\ c = [f \in SdmFields |-> c[f]]
          /\ c.at = x /\ c.ver = d.ver /\ c.owed = d.owed
      BY <2>0, <2>3 DEF SdmFields, Sdm!NotifyFails
    <3>2. SdmMoves(p, c) /\ sent' = sent
      BY <1>0, <2>0, <2>3, <3>0, <3>1 DEF Sdm!NotifyFails, SdmMoves
    <3>3. /\ DOMAIN count' = DOMAIN count /\ count'.idle = count.idle
          /\ count'.losses = count.losses + 1
      BY <1>1, <2>3 DEF Sdm!NotifyFails
    <3>4. count'.losses \in Nat /\ count'.losses # 0 /\ count.losses <= count'.losses
      BY <1>0, <3>3
    <3>5. SdmGood(c, ue, sent', count')
      BY <2>0, <3>1, <3>4 DEF SdmGood
    <3>q. QED
      BY <3>2, <3>3, <3>4, <3>5, SdmChangeMoves
  <2>4. CASE Sdm!Lookup(p) /\ Sdm!Listed
    <3> PICK c : c = change'[p]
      OBVIOUS
    <3>0. change' = [q \in Puts |-> change'[q]] /\ \A q \in Puts \ {p} : change'[q] = change[q]
      BY <2>0, <2>4 DEF Sdm!Lookup
    <3>1. /\ DOMAIN c = SdmFields /\ c = [f \in SdmFields |-> c[f]]
          /\ c.at = "fetching" /\ c.ver = d.ver /\ c.owed = d.owed /\ c.id = ue.id
      BY <2>0, <2>4 DEF SdmFields, Sdm!Lookup
    <3>2. SdmMoves(p, c) /\ sent' = sent /\ count' = count
      <4>1. doc' = doc /\ sent' = sent /\ count' = count /\ ue' = ue
        BY <2>4 DEF Sdm!Lookup
      <4>q. QED
        BY <1>0, <2>0, <3>0, <3>1, <4>1 DEF SdmMoves
    <3>3. SdmGood(c, ue, sent', count')
      BY <2>0, <3>1, <3>2 DEF SdmGood
    <3>q. QED
      BY <1>0, <3>2, <3>3, SdmChangeMoves
  <2>5. CASE Sdm!Lookup(p) /\ ~Sdm!Listed
    <3> PICK c : c = Sdm!CallbackDone(d)
      OBVIOUS
    <3>1. /\ DOMAIN c = SdmFields /\ c = [f \in SdmFields |-> c[f]]
          /\ c.at \in {"calling", "done"} /\ c.ver = d.ver /\ c.owed = d.owed
      BY <2>0 DEF SdmFields, Sdm!CallbackDone
    <3>2. SdmMoves(p, c) /\ sent' = sent /\ count' = count
      BY <1>0, <2>0, <2>5, <3>1 DEF Sdm!Lookup, SdmMoves
    <3>3. ue.at # "registered"
      BY <2>5 DEF Sdm!Listed
    <3>4. SdmGood(c, ue, sent', count')
      BY <2>0, <3>1, <3>2, <3>3 DEF SdmGood
    <3>q. QED
      BY <1>0, <3>2, <3>4, SdmChangeMoves
  <2>6. CASE Sdm!Fetch(p)
    <3> PICK c : c = change'[p]
      OBVIOUS
    <3>0. change' = [q \in Puts |-> change'[q]] /\ \A q \in Puts \ {p} : change'[q] = change[q]
      BY <2>0, <2>6 DEF Sdm!Fetch
    <3>1. /\ DOMAIN c = SdmFields /\ c = [f \in SdmFields |-> c[f]]
          /\ c.at = "sending" /\ c.ver = d.ver /\ c.owed = d.owed /\ c.id = d.id /\ c.got = doc
      BY <2>0, <2>6 DEF SdmFields, Sdm!Fetch
    <3>2. SdmMoves(p, c) /\ sent' = sent /\ count' = count /\ d.at = "fetching"
      BY <1>0, <2>0, <2>6, <3>0, <3>1 DEF Sdm!Fetch, SdmMoves
    <3>3. doc >= d.ver
      BY <1>0, <2>0
    <3>4. SdmGood(c, ue, sent', count')
      BY <1>0, <2>0, <3>1, <3>2, <3>3 DEF SdmGood
    <3>q. QED
      BY <1>0, <3>2, <3>4, SdmChangeMoves
  <2>7. CASE Sdm!Send(p)
    <3> PICK c : c = Sdm!CallbackDone(d)
      OBVIOUS
    <3>1. /\ DOMAIN c = SdmFields /\ c = [f \in SdmFields |-> c[f]]
          /\ c.at \in {"calling", "done"} /\ c.ver = d.ver /\ c.owed = d.owed
      BY <2>0 DEF SdmFields, Sdm!CallbackDone
    <3>2. /\ change' = [change EXCEPT ![p] = c] /\ doc' = doc /\ ue' = ue /\ count' = count /\ d.at = "sending"
          /\ sent' = IF d.id = ue.id /\ d.got > sent THEN d.got ELSE sent
      BY <2>7 DEF Sdm!Send
    <3>3. d.got \in Nat /\ sent' \in Nat /\ sent <= sent'
      BY <1>0, <2>0, <3>2 DEF SdmGood
    <3>4. SdmMoves(p, c)
      BY <1>0, <2>0, <2>7, <3>1, <3>2, <3>3 DEF SdmMoves
    <3>5. SdmGood(c, ue, sent', count')
      BY <1>0, <2>0, <3>1, <3>2, <3>3 DEF SdmGood
    <3>q. QED
      BY <1>0, <3>2, <3>4, <3>5, SdmChangeMoves
  <2>q. QED
    BY <1>8, <2>1, <2>2, <2>3, <2>4, <2>5, <2>6, <2>7 DEF Sdm!Change
<1>9. CASE UNCHANGED Sdm!vars
  BY <1>9 DEF Sdm!vars, SdmIInv, SdmTypes, SdmOnItsWay
<1>q. QED
  BY <1>2, <1>3, <1>4, <1>5, <1>6, <1>7, <1>8, <1>9 DEF Sdm!Next

\* "awaited so the change is delivered before the PUT returns" (put_am_data,
\* sdm_notify_change, sdm_notify): for any changes, registrations, subscriptions and restarts
\* of the UDM, unless a call is lost or the UE has been idle.
THEOREM ChangesAreDelivered == Sdm!Spec => []Sdm!DeliveredBeforeReturn
<1>1. SdmIInv /\ [Sdm!Next]_(Sdm!vars) => SdmIInv'
  BY SdmStep
<1>2. SdmIInv => Sdm!DeliveredBeforeReturn
  BY DEF SdmIInv, SdmOnItsWay, SdmGood, Sdm!DeliveredBeforeReturn
<1>3. QED
  BY SdmInitIInv, <1>1, <1>2, PTL DEF Sdm!Spec
=============================================================================
