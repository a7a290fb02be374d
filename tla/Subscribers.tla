---------------------------- MODULE Subscribers -----------------------------
(***************************************************************************)
(* The functions behind the service-based interface: authentication,       *)
(* subscription data and its store, traffic influence, the registry of NFs *)
(* and its tokens, each with the environment its module gives it. The      *)
(* parts share no variable: part names the one a behaviour explores, and   *)
(* v1 .. v10 are that part's variables in the order its module declares    *)
(* them.  SubscriberProofs' theorems, applied to the parts, give the       *)
(* properties of the whole.                                                *)
(***************************************************************************)
EXTENDS Integers, Sequences, FiniteSets, TLC, TLAPS

CONSTANTS
    Parts,      \* the parts explored
    None, a, b, p, q, r

VARIABLES part, v1, v2, v3, v4, v5, v6, v7, v8, v9, v10

subscribersVars == <<part, v1, v2, v3, v4, v5, v6, v7, v8, v9, v10>>

\* The three procedures of a part, and the two clients, changes or calls of another, are
\* interchangeable.
Interchangeable == Permutations({a, b}) \cup Permutations({p, q, r})

\* Rows of the document tables.
StoreRows == {<<"am_data", "imsi-1", "99970">>, <<"smf_registrations", "imsi-1", "5">>, <<"influence_data", "", "i1">>}
PolicyRows == {<<"sm_data", "imsi-1", "99970">>, <<"policy_data", "imsi-1", "">>}

\* What AFs ask for, and their contracts.
HomeUe == <<"imsi", "99970", "1">>
OtherUe == <<"imsi", "00101", "1">>
Influence(af, dnn, gid, anyUe, dnais) ==
    [af |-> af, key |-> af, dnn |-> dnn, gid |-> gid, anyUe |-> anyUe, ues |-> {HomeUe}, prefix |-> "p", dnais |-> dnais]
OneUe == Influence("af2", "d", None, FALSE, {"e1", "e2"})
Members == Influence("af3", "d", "g", FALSE, {"e2"})

\* Two of any UE or one under a contract for everything but edges; two under narrow contracts;
\* and these with one thing in them wrong.
AfContents ==
    {Influence("af1", None, None, TRUE, {"e1"}), Influence("af1", "x", None, FALSE, {"e1"})}
      \cup UNION {{c, [c EXCEPT !.key = "af1"], [c EXCEPT !.af = "af4", !.key = "af4"],
                   [c EXCEPT !.dnn = "x"], [c EXCEPT !.dnn = None],
                   [c EXCEPT !.dnais = {"e2", "e3"}], [c EXCEPT !.dnais = {}],
                   [c EXCEPT !.ues = {OtherUe}], [c EXCEPT !.ues = {}],
                   [c EXCEPT !.anyUe = TRUE], [c EXCEPT !.prefix = None]} : c \in {OneUe, Members}}
AfSla ==
    [af1 |-> [dnns |-> {"*"}, dnais |-> {"e1"}, ues |-> {<<"*">>}, group |-> TRUE],
     af2 |-> [dnns |-> {"d"}, dnais |-> {"e1", "e2"}, ues |-> {<<"imsi", "99970">>}, group |-> FALSE],
     af3 |-> [dnns |-> {"d"}, dnais |-> {"e2"}, ues |-> {<<"imsi", "99970">>, <<"imsi", "99971">>}, group |-> TRUE]]

\* What NFs offer, and what consumers look for.
Pair(snssai, dnn) == [snssai |-> snssai, dnn |-> dnn]
NfProfiles ==
    [smf |-> [type |-> "SMF", serves |-> {Pair("embb", "internet"), Pair("iot", "ims")}],
     ausf |-> [type |-> "AUSF", serves |-> {}]]
Query(type, snssai, dnn) == [type |-> type, snssai |-> snssai, dnn |-> dnn]
NfQueries == {Query("AUSF", None, None), Query("SMF", None, "ims"), Query("SMF", "embb", "internet")}

-----------------------------------------------------------------------------
(* SubscriberProofs has the modules of all parts as instances. *)

Plain == INSTANCE SubscriberProofs WITH
    \* RedbStore: two clients of a store under one master key
    Supis <- {"imsi-1"}, Keys <- {"k1"}, Clients <- {a, b}, Rows <- StoreRows, Docs <- {"doc"},
    SqnMod <- 3, Keks <- {"m1"}, DemoSupi <- "imsi-1", ServingPlmn <- "99970",
    \* AkaSqn: three authentications of one subscriber side by side, a USIM ahead of the UDR
    Procedures <- {p, q, r}, Presents <- [x \in {p, q, r} |-> "supi"], Drift <- 2, KekConfigured <- TRUE,
    MaxFailures <- 0, MaxAkaRestarts <- 0,
    \* SdmNotify: two changes of the am-data around two registrations
    Puts <- {a, b}, MaxRegistrations <- 2, MaxIdle <- 0, MaxLosses <- 0, MaxUdmRestarts <- 0,
    \* NrfRegistry: two NFs with heartbeats, two lost requests and a restart of the NRF
    Nfs <- {"smf", "ausf"}, Profiles <- NfProfiles, Queries <- NfQueries, Period <- 2, Latency <- 1,
    MaxLost <- 2, MaxRestarts <- 1,
    \* SbiTokens: two calls at a time around a change of the signing key
    Tasks <- {a, b}, Services <- [UDM |-> {"sdm"}, PCF |-> {"am"}], Allowed <- {"UDM"}, Asymmetric <- TRUE,
    ScopeOf <- [sdm |-> {"sdm", "uecm"}, am |-> {"am"}], Lifetime <- 3, Margin <- 1,
    MaxTokRestarts <- 1, MaxTokFailures <- 1,
    \* NefInfluence: three requests of four AFs, one of them without a contract
    Afs <- {"af1", "af2", "af3", "af4"}, Requests <- {p, q, r}, Contents <- AfContents, Sla <- AfSla,
    MaxNefFailures <- 1, MaxSessions <- 1,
    \* RedbStore
    creds <- v1, auth <- v2, rows <- v3, holder <- v4, kek <- v5, todo <- v6, req <- v7, taken <- v8,
    answer <- v9,
    \* AkaSqn
    cred <- v1, sqn <- v2, usim <- v3, ctxs <- v4, proc <- v5, epoch <- v6, issued <- v7, failures <- v8,
    udrRestarts <- v9,
    \* NrfRegistry
    entries <- v1, age <- v2, nf <- v3, wait <- v4, overdue <- v5, found <- v6, gone <- v7, missed <- v8,
    lost <- v9, restarts <- v10,
    \* SbiTokens
    nrfKey <- v1, registered <- v2, cache <- v3, jwks <- v4, call <- v5, tokRestarts <- v6, tokFailures <- v7,
    \* NefInfluence
    at <- v1, applied <- v2, subs <- v3, docs <- v4, apps <- v5, breakout <- v6, withdrawing <- v7,
    nefFailures <- v8, sessions <- v9, asked <- v10,
    \* SdmNotify
    doc <- v1, change <- v2, sdmSubs <- v3, nextId <- v4, held <- v5, calls <- v6, ue <- v7, queue <- v8,
    sent <- v9, count <- v10

\* The same with more going wrong.
Faulty == INSTANCE SubscriberProofs WITH
    \* RedbStore: programs started with either of two master keys
    Supis <- {"imsi-1"}, Keys <- {"k1", "k2"}, Clients <- {a, b}, Rows <- PolicyRows, Docs <- {"doc"},
    SqnMod <- 2, Keks <- {"m1", "m2"}, DemoSupi <- "imsi-1", ServingPlmn <- "99970",
    \* AkaSqn: two authentications, with a call that fails or a withdrawal, and a restart of the UDR
    Procedures <- {a, b}, Presents <- [x \in {a, b} |-> "supi"], Drift <- 2, KekConfigured <- TRUE,
    MaxFailures <- 1, MaxAkaRestarts <- 1,
    \* SdmNotify: one change, with idleness, a lost call and a restart of the UDM
    Puts <- {"put"}, MaxRegistrations <- 2, MaxIdle <- 1, MaxLosses <- 1, MaxUdmRestarts <- 1,
    \* The others have the values above.
    \* NrfRegistry
    Nfs <- {"smf", "ausf"}, Profiles <- NfProfiles, Queries <- NfQueries, Period <- 2, Latency <- 1,
    MaxLost <- 2, MaxRestarts <- 1,
    \* SbiTokens
    Tasks <- {a, b}, Services <- [UDM |-> {"sdm"}, PCF |-> {"am"}], Allowed <- {"UDM"}, Asymmetric <- TRUE,
    ScopeOf <- [sdm |-> {"sdm", "uecm"}, am |-> {"am"}], Lifetime <- 3, Margin <- 1,
    MaxTokRestarts <- 1, MaxTokFailures <- 1,
    \* NefInfluence
    Afs <- {"af1", "af2", "af3", "af4"}, Requests <- {p, q, r}, Contents <- AfContents, Sla <- AfSla,
    MaxNefFailures <- 1, MaxSessions <- 1,
    \* RedbStore
    creds <- v1, auth <- v2, rows <- v3, holder <- v4, kek <- v5, todo <- v6, req <- v7, taken <- v8,
    answer <- v9,
    \* AkaSqn
    cred <- v1, sqn <- v2, usim <- v3, ctxs <- v4, proc <- v5, epoch <- v6, issued <- v7, failures <- v8,
    udrRestarts <- v9,
    \* NrfRegistry
    entries <- v1, age <- v2, nf <- v3, wait <- v4, overdue <- v5, found <- v6, gone <- v7, missed <- v8,
    lost <- v9, restarts <- v10,
    \* SbiTokens
    nrfKey <- v1, registered <- v2, cache <- v3, jwks <- v4, call <- v5, tokRestarts <- v6, tokFailures <- v7,
    \* NefInfluence
    at <- v1, applied <- v2, subs <- v3, docs <- v4, apps <- v5, breakout <- v6, withdrawing <- v7,
    nefFailures <- v8, sessions <- v9, asked <- v10,
    \* SdmNotify
    doc <- v1, change <- v2, sdmSubs <- v3, nextId <- v4, held <- v5, calls <- v6, ue <- v7, queue <- v8,
    sent <- v9, count <- v10

\* None is nothing else a variable holds.
ASSUME SubscribersAssumption ==
    /\ Plain!RedbAssumption /\ Plain!RedbNone /\ Faulty!RedbAssumption /\ Faulty!RedbNone
    /\ Plain!AkaAssumption /\ Faulty!AkaAssumption /\ Plain!Nrf!NrfAssumption
    /\ Plain!Nef!ContentAssumption /\ Plain!NefNone /\ Plain!Tok!TokenAssumption /\ Plain!TokNone

-----------------------------------------------------------------------------
(* The variables a part leaves unused. *)

Past7 == <<v8, v9, v10>>
Past9 == <<v10>>
Blank9 == v10 = None
Blank7 == v8 = None /\ v9 = None /\ Blank9

SubscribersInit ==
    /\ part \in Parts
    /\ \/ part = "aka" /\ Plain!Aka!Init /\ Blank9
       \/ part = "aka faults" /\ Faulty!Aka!Init /\ Blank9
       \/ part = "sdm" /\ Plain!Sdm!Init
       \/ part = "sdm faults" /\ Faulty!Sdm!Init
       \/ part = "store" /\ Plain!Init /\ Blank9
       \/ part = "keys" /\ Faulty!Init /\ Blank9
       \/ part = "nef" /\ Plain!Nef!Init
       \/ part = "nrf" /\ Plain!Nrf!Init
       \/ part = "tokens" /\ Plain!Tok!Init /\ Blank7

SubscribersNext ==
    \/ part = "aka" /\ Plain!Aka!Next /\ UNCHANGED <<part, Past9>>
    \/ part = "aka faults" /\ Faulty!Aka!Next /\ UNCHANGED <<part, Past9>>
    \/ part = "sdm" /\ Plain!Sdm!Next /\ UNCHANGED part
    \/ part = "sdm faults" /\ Faulty!Sdm!Next /\ UNCHANGED part
    \/ part = "store" /\ Plain!Next /\ UNCHANGED <<part, Past9>>
    \/ part = "keys" /\ Faulty!Next /\ UNCHANGED <<part, Past9>>
    \/ part = "nef" /\ Plain!Nef!Next /\ UNCHANGED part
    \/ part = "nrf" /\ Plain!Nrf!Next /\ UNCHANGED part
    \/ part = "tokens" /\ Plain!Tok!Next /\ UNCHANGED <<part, Past7>>

SubscribersSpec == SubscribersInit /\ [][SubscribersNext]_subscribersVars

-----------------------------------------------------------------------------
(* Properties *)

\* No sequence number is given out twice, one resynchronisation is enough, and what the UE
\* has accepted can still be confirmed, with authentications of one subscriber side by side
\* (UDM, AUSF); and the store has a number for every subscriber it has credentials of, which
\* moves only under the master key they can be read with, wherever a process is killed.
VectorsAreFresh ==
    /\ [](part = "aka" => Plain!Aka!SqnNotReused /\ Plain!Aka!OneResyncSuffices /\ Plain!Aka!AcceptedIsConfirmable)
    /\ [](part = "aka faults" =>
           Faulty!Aka!SqnNotReused /\ Faulty!Aka!OneResyncSuffices /\ Faulty!Aka!AcceptedIsConfirmable)
    /\ [](part = "keys" => Faulty!CredentialsHaveSqn)
    /\ [][part = "keys" => Faulty!UnreadableUntouched]_subscribersVars

\* The redb store does what the traits promise, as InMemoryStore does it under one mutex:
\* with requests between their transactions, withdrawals and crashes, every step is one
\* operation of SubscriberStore or invisible.
ImplementsStore ==
    /\ part = "store" => Plain!Store!Init
    /\ [][part = "store" => [Plain!Store!Next]_(Plain!Store!storeVars)]_subscribersVars

\* What is in effect is wanted by someone.  NEF: nothing is in effect, at UDR, PCF or SMF,
\* for a DNN, an edge, a UE or a group outside the contract of the AF whose key asked for it,
\* nor, as long as no call is lost and no discovery leaves it with nobody to call, after every
\* subscription was deleted; and an influence by an app-session of the PCF is in effect until
\* its own AF deletes it.  (A group's document and a breakout may go before, and with a failure
\* something may stay: the divergences in NefInfluence.)  NRF: no discovery returns an NF that
\* crashed long ago.
WhatStandsIsWanted ==
    /\ part = "nef" => Plain!Nef!WithinSla /\ Plain!Nef!NothingLeftBehind /\ Plain!Nef!PcfInfluenceStands
    /\ part = "nrf" => Plain!Nrf!NoLingering

\* Who behaves is served: an NF that reaches the NRF in every round is discoverable all the
\* time, a token from the cache lives through its call and one of the key in force is
\* accepted, and a UE's AMF has a change of its subscription when the request returns.
WhoBehavesIsServed ==
    /\ part = "nrf" => Plain!Nrf!KeptWhileHeard
    /\ part = "tokens" => Plain!Tok!CacheIsConservative /\ Plain!Tok!CurrentTokenAccepted
    /\ part = "sdm" => Plain!Sdm!DeliveredBeforeReturn
    /\ part = "sdm faults" => Faulty!Sdm!DeliveredBeforeReturn

-----------------------------------------------------------------------------
(* What SubscriberProofs proves of a module holds of the part it is. *)

\* Authentications side by side.
LEMMA AkaPart ==
    SubscribersSpec => [](part = "aka" =>
            Plain!Aka!SqnNotReused /\ Plain!Aka!OneResyncSuffices
            /\ Plain!Aka!AcceptedIsConfirmable)
<1>1. part = "aka" /\ SubscribersInit => Plain!Aka!Init
  BY DEF SubscribersInit
<1>2. part = "aka" /\ [SubscribersNext]_subscribersVars =>
        (part = "aka")' /\ [Plain!Aka!Next]_(Plain!Aka!vars)
  BY DEF SubscribersNext, subscribersVars, Plain!Aka!vars, Past9
<1>3. ~(part = "aka") /\ [SubscribersNext]_subscribersVars => ~(part = "aka")'
  BY DEF SubscribersNext, subscribersVars
<1>a. Plain!AllSupi
  BY DEF Plain!AllSupi
<1>4. Plain!Aka!Spec =>
        [](Plain!Aka!SqnNotReused /\ Plain!Aka!OneResyncSuffices /\ Plain!Aka!AcceptedIsConfirmable)
  <2>1. Plain!Aka!Spec =>
          [](Plain!Aka!SqnNotReused /\ Plain!Aka!AcceptedIsConfirmable
              /\ (Plain!AllSupi => Plain!Aka!OneResyncSuffices))
    BY Plain!AkaSound, SubscribersAssumption DEF SubscribersAssumption
  <2>q. QED
    BY <1>a, <2>1, PTL
<1>q. QED
  BY <1>1, <1>2, <1>3, <1>4, PTL DEF SubscribersSpec, Plain!Aka!Spec

\* Authentications side by side, with faults.
LEMMA AkaFaultsPart ==
    SubscribersSpec => [](part = "aka faults" =>
            Faulty!Aka!SqnNotReused /\ Faulty!Aka!OneResyncSuffices
            /\ Faulty!Aka!AcceptedIsConfirmable)
<1>1. part = "aka faults" /\ SubscribersInit => Faulty!Aka!Init
  BY DEF SubscribersInit
<1>2. part = "aka faults" /\ [SubscribersNext]_subscribersVars =>
        (part = "aka faults")' /\ [Faulty!Aka!Next]_(Faulty!Aka!vars)
  BY DEF SubscribersNext, subscribersVars, Faulty!Aka!vars, Past9
<1>3. ~(part = "aka faults") /\ [SubscribersNext]_subscribersVars => ~(part = "aka faults")'
  BY DEF SubscribersNext, subscribersVars
<1>a. Faulty!AllSupi
  BY DEF Faulty!AllSupi
<1>4. Faulty!Aka!Spec =>
        [](Faulty!Aka!SqnNotReused /\ Faulty!Aka!OneResyncSuffices /\ Faulty!Aka!AcceptedIsConfirmable)
  <2>1. Faulty!Aka!Spec =>
          [](Faulty!Aka!SqnNotReused /\ Faulty!Aka!AcceptedIsConfirmable
              /\ (Faulty!AllSupi => Faulty!Aka!OneResyncSuffices))
    BY Faulty!AkaSound, SubscribersAssumption DEF SubscribersAssumption
  <2>q. QED
    BY <1>a, <2>1, PTL
<1>q. QED
  BY <1>1, <1>2, <1>3, <1>4, PTL DEF SubscribersSpec, Faulty!Aka!Spec

\* Changes of the am-data.
LEMMA SdmPart ==
    SubscribersSpec => [](part = "sdm" => Plain!Sdm!DeliveredBeforeReturn)
<1>1. part = "sdm" /\ SubscribersInit => Plain!Sdm!Init
  BY DEF SubscribersInit
<1>2. part = "sdm" /\ [SubscribersNext]_subscribersVars =>
        (part = "sdm")' /\ [Plain!Sdm!Next]_(Plain!Sdm!vars)
  BY DEF SubscribersNext, subscribersVars, Plain!Sdm!vars
<1>3. ~(part = "sdm") /\ [SubscribersNext]_subscribersVars => ~(part = "sdm")'
  BY DEF SubscribersNext, subscribersVars
<1>4. Plain!Sdm!Spec => []Plain!Sdm!DeliveredBeforeReturn
  BY Plain!ChangesAreDelivered
<1>q. QED
  BY <1>1, <1>2, <1>3, <1>4, PTL DEF SubscribersSpec, Plain!Sdm!Spec

\* Changes of the am-data, with faults.
LEMMA SdmFaultsPart ==
    SubscribersSpec => [](part = "sdm faults" => Faulty!Sdm!DeliveredBeforeReturn)
<1>1. part = "sdm faults" /\ SubscribersInit => Faulty!Sdm!Init
  BY DEF SubscribersInit
<1>2. part = "sdm faults" /\ [SubscribersNext]_subscribersVars =>
        (part = "sdm faults")' /\ [Faulty!Sdm!Next]_(Faulty!Sdm!vars)
  BY DEF SubscribersNext, subscribersVars, Faulty!Sdm!vars
<1>3. ~(part = "sdm faults") /\ [SubscribersNext]_subscribersVars => ~(part = "sdm faults")'
  BY DEF SubscribersNext, subscribersVars
<1>4. Faulty!Sdm!Spec => []Faulty!Sdm!DeliveredBeforeReturn
  BY Faulty!ChangesAreDelivered
<1>q. QED
  BY <1>1, <1>2, <1>3, <1>4, PTL DEF SubscribersSpec, Faulty!Sdm!Spec

\* Influences.
LEMMA NefPart ==
    SubscribersSpec => [](part = "nef" =>
            Plain!Nef!WithinSla /\ Plain!Nef!NothingLeftBehind
            /\ Plain!Nef!PcfInfluenceStands)
<1>1. part = "nef" /\ SubscribersInit => Plain!Nef!Init
  BY DEF SubscribersInit
<1>2. part = "nef" /\ [SubscribersNext]_subscribersVars =>
        (part = "nef")' /\ [Plain!Nef!Next]_(Plain!Nef!vars)
  BY DEF SubscribersNext, subscribersVars, Plain!Nef!vars
<1>3. ~(part = "nef") /\ [SubscribersNext]_subscribersVars => ~(part = "nef")'
  BY DEF SubscribersNext, subscribersVars
<1>4. Plain!Nef!Spec =>
        [](Plain!Nef!WithinSla /\ Plain!Nef!NothingLeftBehind /\ Plain!Nef!PcfInfluenceStands)
  BY Plain!InfluenceIsPermitted, SubscribersAssumption DEF SubscribersAssumption
<1>q. QED
  BY <1>1, <1>2, <1>3, <1>4, PTL DEF SubscribersSpec, Plain!Nef!Spec

\* The registry.
LEMMA NrfPart ==
    SubscribersSpec => [](part = "nrf" => Plain!Nrf!KeptWhileHeard /\ Plain!Nrf!NoLingering)
<1>1. part = "nrf" /\ SubscribersInit => Plain!Nrf!Init
  BY DEF SubscribersInit
<1>2. part = "nrf" /\ [SubscribersNext]_subscribersVars =>
        (part = "nrf")' /\ [Plain!Nrf!Next]_(Plain!Nrf!vars)
  BY DEF SubscribersNext, subscribersVars, Plain!Nrf!vars, Plain!Nrf!nrfVars, Plain!Nrf!nfVars
<1>3. ~(part = "nrf") /\ [SubscribersNext]_subscribersVars => ~(part = "nrf")'
  BY DEF SubscribersNext, subscribersVars
<1>4. Plain!Nrf!Init /\ [][Plain!Nrf!Next]_(Plain!Nrf!vars) =>
        [](Plain!Nrf!KeptWhileHeard /\ Plain!Nrf!NoLingering)
  BY Plain!HeardIsListed, SubscribersAssumption DEF SubscribersAssumption
<1>q. QED
  BY <1>1, <1>2, <1>3, <1>4, PTL DEF SubscribersSpec

\* Tokens.
LEMMA TokenPart ==
    SubscribersSpec => [](part = "tokens" => Plain!Tok!CacheIsConservative /\ Plain!Tok!CurrentTokenAccepted)
<1>1. part = "tokens" /\ SubscribersInit => Plain!Tok!Init
  BY DEF SubscribersInit
<1>2. part = "tokens" /\ [SubscribersNext]_subscribersVars =>
        (part = "tokens")' /\ [Plain!Tok!Next]_(Plain!Tok!vars)
  BY DEF SubscribersNext, subscribersVars, Plain!Tok!vars, Past7
<1>3. ~(part = "tokens") /\ [SubscribersNext]_subscribersVars => ~(part = "tokens")'
  BY DEF SubscribersNext, subscribersVars
<1>4. Plain!Tok!Init /\ [][Plain!Tok!Next]_(Plain!Tok!vars) =>
        [](Plain!Tok!CacheIsConservative /\ Plain!Tok!CurrentTokenAccepted)
  BY Plain!TokensAreAccepted, SubscribersAssumption DEF SubscribersAssumption
<1>q. QED
  BY <1>1, <1>2, <1>3, <1>4, PTL DEF SubscribersSpec

\* The store under two master keys.
LEMMA KeysPart ==
    SubscribersSpec => /\ [](part = "keys" => Faulty!CredentialsHaveSqn)
                       /\ [][part = "keys" => Faulty!UnreadableUntouched]_subscribersVars
<1>1. part = "keys" /\ SubscribersInit => Faulty!Init
  BY DEF SubscribersInit
<1>2. part = "keys" /\ [SubscribersNext]_subscribersVars =>
        (part = "keys")' /\ [Faulty!Next]_(Faulty!vars)
  BY DEF SubscribersNext, subscribersVars, Faulty!vars, Faulty!tables, Faulty!clients, Past9
<1>3. ~(part = "keys") /\ [SubscribersNext]_subscribersVars => ~(part = "keys")'
  BY DEF SubscribersNext, subscribersVars
<1>0. (part = "keys" => [Faulty!UnreadableUntouched]_(Faulty!vars)) =>
        [part = "keys" => Faulty!UnreadableUntouched]_subscribersVars
  BY DEF Faulty!UnreadableUntouched, Faulty!vars, Faulty!tables, Faulty!clients, Faulty!read_key
<1>4. Faulty!Spec => []Faulty!CredentialsHaveSqn /\ [][Faulty!UnreadableUntouched]_(Faulty!vars)
  BY Faulty!UnreadableStays, SubscribersAssumption DEF SubscribersAssumption
<1>q. QED
  BY <1>1, <1>2, <1>3, <1>0, <1>4, PTL DEF SubscribersSpec, Faulty!Spec

\* UDM, AUSF, RedbStore: the theorems AkaSound and UnreadableStays, of the parts that
\* authenticate and the one whose programs are started with either key.
THEOREM VectorsStayFresh == SubscribersSpec => VectorsAreFresh
BY AkaPart, AkaFaultsPart, KeysPart, PTL DEF VectorsAreFresh

\* RedbStore, InMemoryStore: every step of the store is one of the traits' operations or
\* invisible (RedbIsTheStore).
THEOREM StoreIsImplemented == SubscribersSpec => ImplementsStore
<1>1. part = "store" /\ SubscribersInit => Plain!Init
  BY DEF SubscribersInit
<1>2. part = "store" /\ [SubscribersNext]_subscribersVars =>
        (part = "store")' /\ [Plain!Next]_(Plain!vars)
  BY DEF SubscribersNext, subscribersVars, Plain!vars, Plain!tables, Plain!clients, Past9
<1>3. ~(part = "store") /\ [SubscribersNext]_subscribersVars => ~(part = "store")'
  BY DEF SubscribersNext, subscribersVars
<1>a. Plain!OneKek
  BY DEF Plain!OneKek
<1>b. (part = "store" => [Plain!Store!Next]_(Plain!Store!storeVars)) =>
        [part = "store" => [Plain!Store!Next]_(Plain!Store!storeVars)]_subscribersVars
  OBVIOUS
<1>4. Plain!Spec => Plain!Store!Init /\ [][Plain!Store!Next]_(Plain!Store!storeVars)
  BY <1>a, Plain!RedbIsTheStore, SubscribersAssumption
     DEF SubscribersAssumption, Plain!Store!Spec, Plain!ImplementsStore
<1>q. QED
  BY <1>1, <1>2, <1>3, <1>4, <1>b, PTL DEF SubscribersSpec, Plain!Spec, ImplementsStore

\* NEF and NRF: InfluenceIsPermitted (the contract in all its dimensions; the clean-up with no
\* failure only) and HeardIsListed.
THEOREM WantedStands == SubscribersSpec => []WhatStandsIsWanted
BY NefPart, NrfPart, PTL DEF WhatStandsIsWanted

\* NRF, TokenSource and require_token, UDR, UDM and AMF: HeardIsListed, TokensAreAccepted and
\* ChangesAreDelivered.
THEOREM Served == SubscribersSpec => []WhoBehavesIsServed
BY NrfPart, TokenPart, SdmPart, SdmFaultsPart, PTL DEF WhoBehavesIsServed
=============================================================================
