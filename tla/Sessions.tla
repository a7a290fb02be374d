------------------------------ MODULE Sessions ------------------------------
(***************************************************************************)
(* A PDU session from its authorization over its path, its policy and its  *)
(* rules at the UPF to the bill, each step with the environment its module *)
(* gives it. The parts share no variable: part names the one a behaviour   *)
(* explores, and v1 .. v16 are that part's variables in the order its      *)
(* module declares them.                                                   *)
(***************************************************************************)
EXTENDS Integers, Sequences, FiniteSets, TLC

CONSTANTS
    Parts,      \* the parts explored
    None, Null, Garbled, a, b,
    \* authorization: the requests, what they ask, operators' slices and documents, addresses left
    Requests, Asks, Typed, SelectDocs, SmDocs, Pool4, Pool6, DocChanges,
    \* binding and refresh: keys of rules, the decisions taken on, those one follows another of
    RuleIds, MadeDecisions, LaterDecisions, DecisionChanges,
    \* policy: sessions of a subscriber, updates, AF requests, policy data
    PolicySessions, Updates, Influences, PolicyDocs, Default, UdrFails, PolicyChanges, MaxUpdates,
    MaxLosses,
    \* traffic: what the N4 peer may ask of the UPF, which packets come, and how many of each
    Peers, Ues, Tunnels, FlowQfis, Filters, Gates, Rates, BranchFilters, Thresholds, Packets, Kinds,
    MaxSessions, DlBufferCap, MaxSeid, MaxCalls, MaxTraffic,
    \* charging: what the session is granted and carries, releases and failing calls
    Threshold, Quota, MaxVolume, MaxReleases, ChargingFaults

VARIABLES part, v1, v2, v3, v4, v5, v6, v7, v8, v9, v10, v11, v12, v13, v14, v15, v16

sessionsVars == <<part, v1, v2, v3, v4, v5, v6, v7, v8, v9, v10, v11, v12, v13, v14, v15, v16>>

\* The two callers, requests or updates of a part are interchangeable.
Interchangeable == Permutations({a, b})

\* S-NSSAIs as operators and the AMF write them, what UEs ask for, and subscription documents.
Slice(sst, sd, upper) == [sst |-> sst, sd |-> sd, upper |-> upper]
Lower == Slice(1, "abcdef", FALSE)
Upper == Slice(1, "abcdef", TRUE)
Other == Slice(2, "none", FALSE)
Ask(slice, dnn, type) == [slice |-> slice, dnn |-> dnn, type |-> type]
SomeAsks == {Ask(Lower, "internet", "IPV4V6"), Ask(Lower, "ims", "IPV4"), Ask(Other, "internet", "IPV6"),
             Ask(None, "internet", None)}
Conf(default, allowed) == [default |-> default, allowed |-> allowed]
SomeTyped == {Lower, Other}
SomeSelectDocs == {{[key |-> Lower, dnns |-> {"internet", "ims"}]},
                   {[key |-> Lower, dnns |-> {"internet"}], [key |-> Other, dnns |-> {"ims", "internet"}]}}
SomeSmDocs == {<<[snssai |-> Upper, conf |-> [d \in {"internet", "ims"} |->
                     IF d = "ims" THEN Conf("IPV6", {}) ELSE Conf("IPV4", {"IPV6"})]]>>,
               <<[snssai |-> Other, conf |-> [d \in {"internet"} |-> Conf("IPV4", {"IPV4V6"})]],
                 [snssai |-> Lower, conf |-> [d \in {"internet"} |-> Conf("IPV6", {"IPV6"})]]>>}

\* PCF decisions: all over two rules and two QoS decisions, and some that differ in one
\* attribute of a flow from another.
Rule(p, f, q, c, g) == [precedence |-> p, flow_info |-> f, ref_qos_data |-> q, ref_chg_data |-> c, flow_status |-> g]
Decision(r, q, m) == [rules |-> r, qos |-> q, chg |-> [c \in {"a", "b"} |-> IF c = "a" THEN 100 ELSE 200], ambr |-> m]
QosMaps == UNION {[D -> [qfi : {1, 2}, gbr : {None, 7}]] : D \in SUBSET {"q1", "q2"}}
Rules == {Rule(p, f, q, c, TRUE) : p \in {1, 2}, f \in {"f1", None}, q \in {"q1", "q2"}, c \in {None, "a"}}
EveryDecision == {Decision(r, q, 1) : r \in UNION {[D -> Rules] : D \in SUBSET {1, 2}}, q \in QosMaps}
One == {Rule(1, f, "q1", "a", TRUE) : f \in {"f1", "f2", None}} \cup {Rule(1, "f1", "q1", "a", FALSE)}
Two == [r \in {2} |-> Rule(2, "f2", "q2", None, TRUE)]
Qos(x) == [q \in {"q1", "q2"} |-> IF q = "q1" THEN [qfi |-> 1, gbr |-> x] ELSE [qfi |-> 2, gbr |-> 9]]
RuleSets == {[i \in {1} |-> o] : o \in One} \cup {Two} \cup {[i \in {1} |-> o] @@ Two : o \in One}
SomeDecisions == {Decision(r, Qos(x), 1) : r \in RuleSets, x \in {None, 7, 8}}
                 \cup {Decision(r, Qos(7), m) : r \in RuleSets, m \in {2, Garbled}}

\* A subscriber's policy data, and the local configuration.
SomePolicyDocs == {[q |-> 1], [q |-> 2, r |-> 1]}
LocalDefault == [q |-> 3]

\* Packet filters and gates, a UE of two address families and a packet of it.
Filter(proto, dst) == [proto |-> proto, dst |-> dst]
Gate(open) == [uplink |-> open, downlink |-> open]
SomeUes == {[id |-> "ue", fams |-> {"v4", "v6"}]}
UdpOnly == {Filter("udp", None)}
ToTheEdge == {Filter(None, "edge")}
AlwaysOpen == {Gate(TRUE)}
SomePackets == {[fam |-> "v4", ue |-> "ue", proto |-> "udp", dst |-> "core"]}

-----------------------------------------------------------------------------
\* The AMF's requests beside those of two other callers, handovers included.
Tasks == INSTANCE SmfChain WITH
    Others <- {a, b}, Gnbs <- {"g1"}, Routes <- {"route"}, StaticRoute <- {FALSE},
    Serial <- FALSE, Forwarding <- TRUE, MaxOps <- 4, MaxFaults <- 0, ctx <- v1,
    n4 <- v2, branch <- v3, pcf <- v4, static <- v5, task <- v6, seids <- v7, ops <- v8,
    faults <- v9, astray <- v10

\* Requests one after another, with any two N4 exchanges that fail.
Faults == INSTANCE SmfChain WITH
    Others <- {a}, Gnbs <- {"g1", "g2"}, Routes <- {"route"}, StaticRoute <- BOOLEAN,
    Serial <- TRUE, Forwarding <- FALSE, MaxOps <- 6, MaxFaults <- 2, ctx <- v1, n4 <- v2,
    branch <- v3, pcf <- v4, static <- v5, task <- v6, seids <- v7, ops <- v8, faults <- v9,
    astray <- v10

\* Every graph of four nodes with one access network, and every fixed setting.
Paths == INSTANCE Topology WITH
    N <- 4, AccessSets <- {{1}}, topo <- v1, queue <- v2, seen <- v3, prev <- v4, result <- v5

\* Requests against documents that change, few addresses left in each pool.
Authorization == INSTANCE SessionAuthorization WITH
    MaxChanges <- DocChanges, select <- v1, sm <- v2, profile <- v3, req <- v4, free4 <- v5,
    free6 <- v6, changes <- v7

\* Every decision over some rules and QoS decisions.
Bound == INSTANCE PolicyBinding WITH
    Decisions <- MadeDecisions, MaxChanges <- 0, MaxLosses <- 0, pcf <- v1, policy <- v2, upf <- v3,
    upf_ambr <- v4, told <- v5, missed <- v6, changes <- v7, losses <- v8

\* Changes of the decision, each flow attribute among them.
Refreshed == INSTANCE PolicyBinding WITH
    Decisions <- LaterDecisions, MaxChanges <- DecisionChanges, MaxLosses <- 0, pcf <- v1, policy <- v2, upf <- v3, upf_ambr <- v4, told <- v5,
    missed <- v6, changes <- v7, losses <- v8

\* Updates of an association, influences, lost answers, a UDR that may fail.
Policies == INSTANCE PcfPolicy WITH
    Sessions <- PolicySessions, Policies <- PolicyDocs, MaxChanges <- PolicyChanges, base <- v1,
    infl <- v2, assoc <- v3, held <- v4, creating <- v5, made <- v6, upd <- v7, af <- v8,
    unsettled <- v9, count <- v10

\* Three N4 requests of every kind by two control planes.
Control == INSTANCE UpfSession WITH
    Peers <- {"smf1", "smf2"}, Ues <- SomeUes, Tunnels <- {1, 2},
    Qfis <- {2}, Filters <- UdpOnly, Gates <- {Gate(TRUE), Gate(FALSE)},
    Rates <- {0}, BranchFilters <- ToTheEdge, Thresholds <- {None}, Packets <- {},
    Kinds <- {"anchor", "chain", "forwarding", "idle", "qos", "query"}, MaxSessions <- 2,
    DlBufferCap <- 2, MaxSeid <- 3, MaxCalls <- 3, MaxTraffic <- 0, sessions <- v1,
    nextTeid <- v2, nextSeid <- v3, smf <- v4, n4 <- v5, n6 <- v6, n3 <- v7, intent <- v8,
    carried <- v9, charged <- v10, paged <- v11, ended <- v12, late <- v13, strayed <- v14,
    traffic <- v15, calls <- v16

\* Packets of sessions that become idle and active and are measured.
Traffic == INSTANCE UpfSession WITH
    Qfis <- FlowQfis, sessions <- v1, nextTeid <- v2, nextSeid <- v3, smf <- v4, n4 <- v5, n6 <- v6, n3 <- v7,
    intent <- v8, carried <- v9, charged <- v10, paged <- v11, ended <- v12, late <- v13,
    strayed <- v14, traffic <- v15, calls <- v16

\* A metered session released by quota, by the AMF, or by both.
Charged == INSTANCE Charging WITH
    MaxFaults <- ChargingFaults, upf <- v1, queue <- v2, ctx <- v3, task <- v4, amf <- v5,
    sent <- v6, cdr <- v7, carried <- v8, volume <- v9, releases <- v10, faults <- v11

ASSUME SessionsAssumption ==
    /\ Tasks!ChainAssumption /\ Faults!ChainAssumption /\ Paths!TopologyAssumption
    /\ Authorization!AuthorizationAssumption /\ Authorization!AuthorizationNone /\ Authorization!AuthorizationInputs
    /\ Bound!BindingAssumption /\ Bound!BindingData
    /\ Refreshed!BindingAssumption /\ Refreshed!BindingData /\ \A d \in LaterDecisions : Refreshed!WellFormed(d)
    /\ Policies!PolicyNone /\ Policies!PolicyData
    /\ Control!UpfAssumption /\ Traffic!UpfAssumption /\ Charged!ChargingAssumption

-----------------------------------------------------------------------------
(* The variables a part leaves unused. *)

Past5 == <<v6, v7, v8, v9, v10, v11, v12, v13, v14, v15, v16>>
Past7 == <<v8, v9, v10, v11, v12, v13, v14, v15, v16>>
Past8 == <<v9, v10, v11, v12, v13, v14, v15, v16>>
Past10 == <<v11, v12, v13, v14, v15, v16>>
Past11 == <<v12, v13, v14, v15, v16>>
Blank11 == v12 = None /\ v13 = None /\ v14 = None /\ v15 = None /\ v16 = None
Blank10 == v11 = None /\ Blank11
Blank9 == v10 = None /\ Blank10
Blank8 == v9 = None /\ Blank9
Blank7 == v8 = None /\ Blank8
Blank5 == v6 = None /\ v7 = None /\ Blank7

SessionsInit ==
    /\ part \in Parts
    /\ \/ part = "chain" /\ Tasks!Init /\ Blank10
       \/ part = "faults" /\ Faults!Init /\ Blank10
       \/ part = "topology" /\ Paths!Init /\ Blank5
       \/ part = "authorization" /\ Authorization!Init /\ Blank7
       \/ part = "binding" /\ Bound!Init /\ Blank8
       \/ part = "refresh" /\ Refreshed!Init /\ Blank8
       \/ part = "policy" /\ Policies!Init /\ Blank10
       \/ part = "control" /\ Control!Init
       \/ part = "traffic" /\ Traffic!Init
       \/ part = "charging" /\ Charged!Init /\ Blank11

\* (The binding part is about every decision as it is taken on: no step follows.)
SessionsNext ==
    \/ part = "chain" /\ Tasks!Next /\ UNCHANGED <<part, Past10>>
    \/ part = "faults" /\ Faults!Next /\ UNCHANGED <<part, Past10>>
    \/ part = "topology" /\ Paths!Next /\ UNCHANGED <<part, Past5>>
    \/ part = "authorization" /\ Authorization!Next /\ UNCHANGED <<part, Past7>>
    \/ part = "refresh" /\ Refreshed!Next /\ UNCHANGED <<part, Past8>>
    \/ part = "policy" /\ Policies!Next /\ UNCHANGED <<part, Past10>>
    \/ part = "control" /\ Control!Next /\ UNCHANGED part
    \/ part = "traffic" /\ Traffic!Next /\ UNCHANGED part
    \/ part = "charging" /\ Charged!Next /\ UNCHANGED <<part, Past11>>

SessionsSpec == SessionsInit /\ [][SessionsNext]_sessionsVars

-----------------------------------------------------------------------------
(* Properties *)

\* The user plane of a session is sound.  Beside two other callers that insert and remove
\* breakouts, every exchange answered: a classifier's branch leads to an anchor that is there,
\* an active session is connected through every hop, anchor and intermediate UPF are not
\* forgotten, and an address is freed only when no anchor uses it.  With one caller at a time
\* and any two exchanges of any request lost or unheard: the branch leads to an anchor, every
\* leg is one the context names, and a freed address is unused, except what the code gives up
\* without an answer (astray in SmfChain; AddressGoesUnused and NoHalfBuiltChain there are the
\* divergences).  And the path was laid over the nearest anchor, breakouts where there is a
\* classifier (SMF).
PathIsSound ==
    /\ part = "chain" =>
         Tasks!BranchIsServed /\ Tasks!ActiveIsConnected /\ Tasks!ChainIsNamed /\ Tasks!FreedAddressIsFree
    /\ part = "faults" =>
         Faults!BranchIsServed /\ Faults!ActiveIsConnected /\ Faults!LegsAreNamed /\ Faults!FreedAddressIsFree
    /\ part = "topology" => Paths!NearestAnchor /\ Paths!BreakoutIsClassified

\* A session that was granted is one the subscription in force at one of its two reads
\* allowed, in the DNN, slice and type asked for; every address is free or leased once, also
\* when a request is refused halfway; what an operator provisions is what UEs are served.
SessionsAreAuthorized ==
    part = "authorization" =>
        /\ Authorization!AskedPairIsAuthorized /\ Authorization!TypeIsAllowed
        /\ Authorization!LeasesAccounted /\ Authorization!ProvisionedIsServed

\* The decision the PCF made is the one in force: its flows do not depend on the order of a
\* map, the UPF polices them after any change the SMF sends as a difference, and PCF and SMF
\* have the same decision on record when updates do not overlap, a deleted entry not back.
PolicyIsInForce ==
    /\ part = "binding" => Bound!BindingIsStable /\ Bound!FlowsRoundTrip
    /\ part = "refresh" => Refreshed!UpfFollowsPolicy
    /\ part = "policy" => Policies!MergedIsOnRecord /\ Policies!DeletedStaysDeleted

\* After any sequence of N4 requests the UPF's table has the flows, branches and downlink the
\* control plane last asked for, and a tunnel id names one session and one direction.
UpfHasWhatSmfAsked == part = "control" => Control!UpfHasWhatSmfAsked /\ Control!TeidsUnambiguous

\* No unit is billed twice, whatever the order of reports, the release by quota, the one by
\* the AMF and calls to the CHF that fail.
NeverOverbilled == part = "charging" => Charged!NeverOverbilled

\* The UPF's session measurement is the ledger charging counts on: what a session carries is
\* billed once, by threshold reports and the final one together.  (Outside the part the
\* ledger is empty.)
Metered == part = "traffic"
Sums == INSTANCE UsageLedger WITH
    Ids <- Traffic!Ids,
    open <- IF Metered THEN DOMAIN v1 ELSE {},
    unbilled <- [i \in Traffic!Ids |-> IF Metered /\ i \in DOMAIN v1 THEN Traffic!Unreported(v1[i]) ELSE 0],
    billed <- [i \in Traffic!Ids |-> IF Metered THEN v10[i].session ELSE 0]

BilledOnce == Sums!Spec
=============================================================================
