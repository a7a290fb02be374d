------------------------------ MODULE Progress ------------------------------
(***************************************************************************)
(* What must eventually happen, in the parts of the system where something *)
(* must: small instances of the modules under the fairness their tasks,    *)
(* timers and peers justify. The parts share no variable: part names the   *)
(* one a behaviour explores, and v1 .. v19 are that part's variables in    *)
(* the order its module declares them.                                     *)
(***************************************************************************)
EXTENDS Integers, Sequences, FiniteSets

CONSTANTS
    Parts,      \* the parts explored
    None

VARIABLES part, v1, v2, v3, v4, v5, v6, v7, v8, v9, v10, v11, v12, v13, v14, v15, v16, v17, v18, v19

progressVars == <<part, v1, v2, v3, v4, v5, v6, v7, v8, v9, v10, v11, v12, v13, v14, v15, v16, v17, v18, v19>>

\* The TACs, and the TA lists a gNB may broadcast.
UeTacs == {1, 2}
TaLists == [g \in {"g1", "g2"} |-> IF g = "g1" THEN {<<1, 2>>, <<2>>} ELSE {<<2>>}]

-----------------------------------------------------------------------------
\* One registration with every kind of refusal, then a withdrawal.
Registration == INSTANCE AmfRegistration WITH
    Supis <- {"supi"}, Assocs <- {"assoc"}, MaxIds <- 1, MaxRegistrations <- 1, MaxSends <- 2,
    MaxAnReleases <- 0, MaxWithdrawals <- 1, MaxUpdates <- 0, MaxLosses <- 0,
    Refusals <- {"auth", "synch", "nssai", "error"}, ues <- v1, directory <- v2, guti <- v3,
    retained <- v4, evicted <- v5, nextId <- v6, timers <- v7, inbox <- v8, uecmTasks <- v9,
    pcf <- v10, smf <- v11, uecm <- v12, who <- v13, at <- v14, up <- v15, current <- v16,
    known <- v17, replies <- v18, spent <- v19

\* One handover and one path switch of a UE.
Handover == INSTANCE AmfHandover WITH
    UEs <- {"ue"}, Gnbs <- {"g1", "g2"}, InitNcc <- 7, MaxHandovers <- 1, MaxPathSwitches <- 1,
    MaxSlow <- 0, ues <- v1, chain <- v2, directory <- v3, handovers <- v4, timers <- v5,
    inbox <- v6, busy <- v7, answer <- v8, tunnel <- v9, uplink <- v10, role <- v11,
    camped <- v12, aim <- v13, attempt <- v14, switches <- v15, slow <- v16, given <- v17

\* One PDU session, released by the network.
Release == INSTANCE AmfSessions WITH
    Psis <- {1}, Returns <- {"service", "update"}, UeMay <- {}, MaxEstablish <- 1,
    MaxNetwork <- 1, MaxConnections <- 1, MaxLost <- 1, MaxFailed <- 1, MaxForgets <- 0,
    ctx <- v1, smf <- v2, gnb <- v3, ue <- v4, up <- v5, down <- v6, cmds <- v7, guards <- v8,
    sbi <- v9, astray <- v10, stale <- v11, spent <- v12

\* A UE that connects twice over F1, around a new N2 association.
Setup == INSTANCE GnbSplit WITH
    UEs <- {"ue"}, Split <- TRUE, CuIds <- 1000, Resume <- FALSE, MaxConnects <- 2, MaxNas <- 1,
    MaxUplinks <- 1, MaxSessions <- 0, MaxPackets <- 0, MaxPages <- 0, MaxLosses <- 0,
    MaxAssociations <- 2, MaxQueue <- 2, ue <- v1, up <- v2, down <- v3, f1 <- v4, du <- v5,
    gnb <- v6, n2 <- v7, amf <- v8, n3 <- v9, spent <- v10

\* One NF, two lost requests and a restart of the NRF.
Nrf == INSTANCE NrfRegistry WITH
    Nfs <- {"smf"}, Profiles <- [smf |-> [type |-> "SMF", serves |-> {}]], Queries <- {},
    Period <- 2, Latency <- 1, MaxLost <- 2, MaxRestarts <- 1, entries <- v1, age <- v2,
    nf <- v3, wait <- v4, overdue <- v5, found <- v6, gone <- v7, missed <- v8, lost <- v9,
    restarts <- v10

\* Calls one after another around a change of the signing key.
Tokens == INSTANCE SbiTokens WITH
    Tasks <- {"t1"}, Services <- [UDM |-> {"sdm"}, PCF |-> {"am"}], Allowed <- {"UDM"},
    Asymmetric <- TRUE, ScopeOf <- [sdm |-> {"sdm", "uecm"}, am |-> {"am"}], Lifetime <- 3,
    Margin <- 1, MaxRestarts <- 1, MaxFailures <- 1, key <- v1, registered <- v2, cache <- v3,
    jwks <- v4, call <- v5, restarts <- v6, failures <- v7

\* An AMF on record, a crash, a stop of the NRF, a withdrawal, a lost call.
Uecm == INSTANCE UecmRegistry WITH
    Amfs <- {"amf"}, Smfs <- {}, PduSessions <- {}, MaxServes <- 1, MaxCrashes <- 1,
    MaxNrfStops <- 1, MaxWithdrawals <- 1, MaxLosses <- 1, known <- v1, reg <- v2,
    serving <- v3, tasks <- v4, up <- v5, nrf <- v6, wd <- v7, sweep <- v8, count <- v9

\* Every graph of three nodes, the ones with cycles among them.
Paths == INSTANCE Topology WITH
    N <- 3, AccessSets <- {{1}}, topo <- v1, queue <- v2, seen <- v3, prev <- v4, result <- v5

\* One paging request over two gNBs that fail and change their plans.
Paging == INSTANCE AmfPaging WITH
    Gnbs <- {"g1", "g2"}, Tacs <- UeTacs, DefaultTac <- 1, Plans <- TaLists, AreaCap <- 3,
    MaxSends <- 2, MaxCalls <- 1, MaxUpdates <- 1, MaxFaults <- 1, links <- v1, served <- v2,
    ue <- v3, ctx <- v4, loops <- v5, air <- v6, updates <- v7, faults <- v8

\* Three packets over two idle periods.
Wakeup == INSTANCE DownlinkWakeup WITH
    DlBufferCap <- 2, MaxSends <- 2, MaxPackets <- 3, MaxReleases <- 2, MaxFaults <- 2,
    Updates <- TRUE, upf <- v1, wire <- v2, asked <- v3, amf <- v4, round <- v5, gap <- v6,
    packets <- v7, releases <- v8, faults <- v9

\* The idle clocks with the times of the code.
Reach == INSTANCE MobileReachable WITH
    T3512Secs <- 3240, ImplicitDeregSecs <- 3480, SweepSecs <- 60, Step <- 60, ue <- v1,
    told <- v2, ueClock <- v3, ctx <- v4, idleFor <- v5, sinceSweep <- v6

\* Three packets of a session that becomes idle and active and is measured.
Traffic == INSTANCE UpfSession WITH
    Peers <- {"smf1"}, Ues <- {[id |-> "ue", fams |-> {"v4"}]}, Tunnels <- {1}, Qfis <- {},
    Filters <- {}, Gates <- {}, Rates <- {0}, BranchFilters <- {}, Thresholds <- {2},
    Packets <- {[fam |-> "v4", ue |-> "ue", proto |-> "udp", dst |-> "core"]},
    Kinds <- {"anchor", "idle"}, MaxSessions <- 1, DlBufferCap <- 2, MaxSeid <- 1,
    MaxCalls <- 5, MaxTraffic <- 3, sessions <- v1, nextTeid <- v2, nextSeid <- v3, smf <- v4,
    n4 <- v5, n6 <- v6, n3 <- v7, intent <- v8, carried <- v9, charged <- v10, paged <- v11,
    ended <- v12, late <- v13, strayed <- v14, traffic <- v15, calls <- v16

\* A metered session that reaches its quota.
Charged == INSTANCE Charging WITH
    Threshold <- 2, Quota <- 4, MaxVolume <- 5, MaxReleases <- 2, MaxFaults <- 1, upf <- v1,
    queue <- v2, ctx <- v3, task <- v4, amf <- v5, sent <- v6, cdr <- v7, carried <- v8,
    volume <- v9, releases <- v10, faults <- v11

ASSUME ProgressAssumption ==
    /\ Release!SessionBounds /\ Setup!BoundsAssumption /\ Nrf!NrfAssumption /\ Tokens!TokenAssumption
    /\ Uecm!UecmAssumption /\ Paths!TopologyAssumption /\ Paging!PagingAssumption
    /\ Wakeup!WakeupAssumption /\ Traffic!UpfAssumption /\ Charged!ChargingAssumption

-----------------------------------------------------------------------------
(* The variables a part leaves unused. *)

Past5 == <<v6, v7, v8, v9, v10, v11, v12, v13, v14, v15, v16, v17, v18, v19>>
Past6 == <<v7, v8, v9, v10, v11, v12, v13, v14, v15, v16, v17, v18, v19>>
Past7 == <<v8, v9, v10, v11, v12, v13, v14, v15, v16, v17, v18, v19>>
Past8 == <<v9, v10, v11, v12, v13, v14, v15, v16, v17, v18, v19>>
Past9 == <<v10, v11, v12, v13, v14, v15, v16, v17, v18, v19>>
Past10 == <<v11, v12, v13, v14, v15, v16, v17, v18, v19>>
Past11 == <<v12, v13, v14, v15, v16, v17, v18, v19>>
Past12 == <<v13, v14, v15, v16, v17, v18, v19>>
Past16 == <<v17, v18, v19>>
Past17 == <<v18, v19>>
Blank17 == v18 = None /\ v19 = None
Blank16 == v17 = None /\ Blank17
Blank12 == v13 = None /\ v14 = None /\ v15 = None /\ v16 = None /\ Blank16
Blank11 == v12 = None /\ Blank12
Blank10 == v11 = None /\ Blank11
Blank9 == v10 = None /\ Blank10
Blank8 == v9 = None /\ Blank9
Blank7 == v8 = None /\ Blank8
Blank6 == v7 = None /\ Blank7
Blank5 == v6 = None /\ Blank6

ProgressInit ==
    /\ part \in Parts
    /\ \/ part = "registration" /\ Registration!Init
       \/ part = "handover" /\ Handover!Init /\ Blank17
       \/ part = "release" /\ Release!Init /\ Blank12
       \/ part = "setup" /\ Setup!Init /\ Blank10
       \/ part = "nrf" /\ Nrf!Init /\ Blank10
       \/ part = "tokens" /\ Tokens!Init /\ Blank7
       \/ part = "uecm" /\ Uecm!Init /\ Blank9
       \/ part = "topology" /\ Paths!Init /\ Blank5
       \/ part = "paging" /\ Paging!Init /\ Blank8
       \/ part = "wakeup" /\ Wakeup!Init /\ Blank9
       \/ part = "reach" /\ Reach!ReachInit /\ Blank6
       \/ part = "traffic" /\ Traffic!Init /\ Blank16
       \/ part = "charging" /\ Charged!Init /\ Blank11

ProgressNext ==
    \/ part = "registration" /\ Registration!Next /\ UNCHANGED part
    \/ part = "handover" /\ Handover!Next /\ UNCHANGED <<part, Past17>>
    \/ part = "release" /\ Release!Next /\ UNCHANGED <<part, Past12>>
    \/ part = "setup" /\ Setup!Next /\ UNCHANGED <<part, Past10>>
    \/ part = "nrf" /\ Nrf!Next /\ UNCHANGED <<part, Past10>>
    \/ part = "tokens" /\ Tokens!Next /\ UNCHANGED <<part, Past7>>
    \/ part = "uecm" /\ Uecm!Next /\ UNCHANGED <<part, Past9>>
    \/ part = "topology" /\ Paths!Next /\ UNCHANGED <<part, Past5>>
    \/ part = "paging" /\ Paging!Next /\ UNCHANGED <<part, Past8>>
    \/ part = "wakeup" /\ Wakeup!Next /\ UNCHANGED <<part, Past9>>
    \/ part = "reach" /\ Reach!ReachNext /\ UNCHANGED <<part, Past6>>
    \/ part = "traffic" /\ Traffic!Next /\ UNCHANGED <<part, Past16>>
    \/ part = "charging" /\ Charged!Next /\ UNCHANGED <<part, Past11>>

\* The tasks, timers and peers of each part that go on running, one of each part to a group:
\* a behaviour has one part throughout, so fairness to a group is fairness to that part's
\* member of it.
Task1 ==
    \/ part = "registration" /\ Registration!OnNasRetxExpiry(1, "Identity") /\ UNCHANGED part
    \/ part = "handover" /\ Handover!AssociationStep("g1") /\ UNCHANGED <<part, Past17>>
    \/ part = "release" /\ Release!N2Step /\ UNCHANGED <<part, Past12>>
    \/ part = "setup" /\ Setup!CuN2 /\ UNCHANGED <<part, Past10>>
    \/ part = "nrf" /\ Nrf!Tick /\ UNCHANGED <<part, Past10>>
    \/ part = "tokens" /\ Tokens!Tick /\ UNCHANGED <<part, Past7>>
    \/ part = "uecm" /\ Uecm!Answer /\ UNCHANGED <<part, Past9>>
    \/ part = "topology" /\ Paths!Next /\ UNCHANGED <<part, Past5>>
    \/ part = "paging" /\ Paging!SendRound(1) /\ UNCHANGED <<part, Past8>>
    \/ part = "wakeup" /\ Wakeup!Report /\ UNCHANGED <<part, Past9>>
    \/ part = "reach" /\ Reach!Elapse /\ UNCHANGED <<part, Past6>>
    \/ part = "traffic" /\ Traffic!N4Send /\ UNCHANGED <<part, Past16>>
    \/ part = "charging" /\ Charged!ReportUsage /\ UNCHANGED <<part, Past11>>
Task2 ==
    \/ part = "registration" /\ Registration!OnNasRetxExpiry(1, "Auth") /\ UNCHANGED part
    \/ part = "handover" /\ Handover!AssociationStep("g2") /\ UNCHANGED <<part, Past17>>
    \/ part = "release" /\ Release!CommandStep /\ UNCHANGED <<part, Past12>>
    \/ part = "setup" /\ Setup!CuF1 /\ UNCHANGED <<part, Past10>>
    \/ part = "nrf" /\ Nrf!Keeps("smf") /\ UNCHANGED <<part, Past10>>
    \/ part = "tokens" /\ Tokens!Reregister /\ UNCHANGED <<part, Past7>>
    \/ part = "uecm" /\ Uecm!WithdrawRemove /\ UNCHANGED <<part, Past9>>
    \/ part = "paging" /\ Paging!Wake(1) /\ UNCHANGED <<part, Past8>>
    \/ part = "wakeup" /\ Wakeup!handle_dl_data_report /\ UNCHANGED <<part, Past9>>
    \/ part = "reach" /\ Reach!Sweep /\ UNCHANGED <<part, Past6>>
    \/ part = "traffic" /\ Traffic!N6Send /\ UNCHANGED <<part, Past16>>
    \/ part = "charging" /\ Charged!update /\ UNCHANGED <<part, Past11>>
Task3 ==
    \/ part = "registration" /\ Registration!OnNasRetxExpiry(1, "Smc") /\ UNCHANGED part
    \/ part = "handover" /\ Handover!TimerStep /\ UNCHANGED <<part, Past17>>
    \/ part = "release" /\ Release!GnbStep /\ UNCHANGED <<part, Past12>>
    \/ part = "setup" /\ Setup!DuF1 /\ UNCHANGED <<part, Past10>>
    \/ part = "tokens" /\ Tokens!Step("t1") /\ UNCHANGED <<part, Past7>>
    \/ part = "uecm" /\ Uecm!Sweep /\ UNCHANGED <<part, Past9>>
    \/ part = "paging" /\ Paging!GnbConnects("g1") /\ UNCHANGED <<part, Past8>>
    \/ part = "wakeup" /\ Wakeup!page_ue /\ UNCHANGED <<part, Past9>>
    \/ part = "traffic" /\ Traffic!N3Send /\ UNCHANGED <<part, Past16>>
    \/ part = "charging" /\ Charged!release /\ UNCHANGED <<part, Past11>>
Task4 ==
    \/ part = "registration" /\ Registration!OnNasRetxExpiry(1, "Accept") /\ UNCHANGED part
    \/ part = "release" /\ Release!SbiStep /\ UNCHANGED <<part, Past12>>
    \/ part = "setup" /\ Setup!AmfRelease /\ UNCHANGED <<part, Past10>>
    \/ part = "uecm" /\ Uecm!NrfStarts /\ UNCHANGED <<part, Past9>>
    \/ part = "paging" /\ Paging!GnbConnects("g2") /\ UNCHANGED <<part, Past8>>
    \/ part = "wakeup" /\ Wakeup!Retain /\ UNCHANGED <<part, Past9>>
    \/ part = "traffic" /\ Traffic!TakeDueReport(1) /\ UNCHANGED <<part, Past16>>
    \/ part = "charging" /\ Charged!Receive /\ UNCHANGED <<part, Past11>>
Task5 ==
    \/ part = "registration" /\ Registration!OnT3522Expiry(1) /\ UNCHANGED part
    \/ part = "release" /\ (\E g \in v8 : Release!GuardFires(g)) /\ UNCHANGED <<part, Past12>>
    \/ part = "setup" /\ Setup!UeReceive("ue") /\ UNCHANGED <<part, Past10>>
    \/ part = "uecm" /\ Uecm!NrfExpires("amf") /\ UNCHANGED <<part, Past9>>
    \/ part = "paging" /\ Paging!NgSetup("g1") /\ UNCHANGED <<part, Past8>>
    \/ part = "wakeup" /\ Wakeup!Activate /\ UNCHANGED <<part, Past9>>
    \/ part = "traffic" /\ Traffic!TakeDlDataReport(1) /\ UNCHANGED <<part, Past16>>
    \/ part = "charging" /\ Charged!TeardownByQuota /\ UNCHANGED <<part, Past11>>
Task6 ==
    \/ part = "registration" /\ Registration!OnRegistrationGuardExpiry(1) /\ UNCHANGED part
    \/ part = "setup" /\ Setup!DuUplink("ue") /\ UNCHANGED <<part, Past10>>
    \/ part = "paging" /\ Paging!NgSetup("g2") /\ UNCHANGED <<part, Past8>>
    \/ part = "wakeup" /\ (v5 > 0 /\ (Wakeup!ServiceRequest \/ Wakeup!NextRound)) /\ UNCHANGED <<part, Past9>>
    \/ part = "charging" /\ Charged!QuotaDeletes /\ UNCHANGED <<part, Past11>>
Task7 ==
    \/ part = "registration" /\ Registration!Command("assoc") /\ UNCHANGED part
    \/ part = "setup" /\ Setup!CuUu("ue") /\ UNCHANGED <<part, Past10>>
    \/ part = "paging" /\ (\E g \in {"g1", "g2"}, t \in UeTacs : v1[v3.gnb] = None /\ Paging!UeMoves(g, t)) /\ UNCHANGED <<part, Past8>>
    \/ part = "charging" /\ Charged!AmfDeletes /\ UNCHANGED <<part, Past11>>
Task8 ==
    \/ part = "paging" /\ Paging!RegistrationUpdate(TRUE) /\ UNCHANGED <<part, Past8>>
Task9 ==
    \/ part = "paging" /\ (\E x \in v6 : Paging!PageUnheard(x) \/ Paging!PageAnswered(x)) /\ UNCHANGED <<part, Past8>>

\* A client that goes on calling a service is served between the other things it does.
Call == part = "tokens" /\ Tokens!Call("t1", "UDM", "sdm") /\ UNCHANGED <<part, Past7>>

\* Tasks run, timers fire, messages that arrived are taken, calls end: the fairness each
\* module states for itself.
ProgressFairness ==
    /\ WF_progressVars(Task1) /\ WF_progressVars(Task2) /\ WF_progressVars(Task3)
    /\ WF_progressVars(Task4) /\ WF_progressVars(Task5) /\ WF_progressVars(Task6)
    /\ WF_progressVars(Task7) /\ WF_progressVars(Task8) /\ WF_progressVars(Task9)
    /\ SF_progressVars(Call)

ProgressSpec == ProgressInit /\ [][ProgressNext]_progressVars /\ ProgressFairness

-----------------------------------------------------------------------------
(* Properties *)

\* What the AMF and the gNB begin they end: a registration, a withdrawal, a handover, the
\* source's wait for its answer, a network release of a session, a context setup, each by the
\* peer's answer or by a timer (RegistrationEnds, WithdrawalEnds, PendingEnds, SourceAnswered,
\* ReleaseEnds, ContextSetupIsResolved); and a handover at rest leaves gNB, UE and AMF of one
\* mind (RanAgreesWithAmf).
Open ==
    \/ part = "registration" /\ Registration!Unfinished(1)
    \/ part = "handover" /\ Handover!InFlight("ue")
    \/ part = "setup" /\ Setup!Unanswered(1)
OpenToo ==
    \/ part = "handover" /\ Handover!Preparing("ue", "g1")
    \/ part = "setup" /\ Setup!Unanswered(2)
Ending ==
    \/ part = "registration" /\ Registration!Withdrawn(1)
    \/ part = "release" /\ Release!ReleaseSent(1)
Over ==
    /\ part = "registration" => v1[1] = None
    /\ part = "release" => Release!ReleaseOver(1)

ProceduresEnd ==
    /\ (Open ~> ~Open) /\ (OpenToo ~> ~OpenToo) /\ (Ending ~> Over)
    /\ [](part = "handover" => Handover!RanAgreesWithAmf)

\* After faults the service comes back: an NF that runs is listed again (ListedAgain), a
\* permitted service can be called again after a restart of the NRF (ServedAgain), the record
\* of an NF that died goes away (StaleGoesAway), a withdrawn subscriber is deregistered
\* (WithdrawnIsDeregistered), and a search of the topology ends (SearchEnds).
Unserved ==
    \/ part = "nrf" /\ Nrf!Missing("smf")
    \/ part = "tokens" /\ ~Tokens!Served("sdm")
    \/ part = "uecm" /\ Uecm!StaleRecord(Uecm!Access, "amf")
    \/ part = "topology" /\ ~Paths!Ended
Withdrawing == part = "uecm" /\ Uecm!Withdraws("amf")
Deregistered == part = "uecm" => Uecm!Deregistered("amf")

ServiceReturns == []<>~Unserved /\ (Withdrawing ~> Deregistered)

\* Traffic gets its due: a UE in its area is reached by a page (PagedIsReached), what is
\* buffered for it is delivered or lost in one of the known gaps (DeliveredUnlessGap), the UPF
\* reports what it buffers and what crosses a threshold (IdleUeIsPaged, ThresholdIsReported), a
\* spent quota ends the session (QuotaEnds), and a UE that is gone is evicted (GoneIsEvicted).
Due ==
    \/ part = "wakeup" /\ Wakeup!Held
    \/ part = "traffic" /\ Traffic!Unpaged(1)
    \/ part = "charging" /\ Charged!OverQuota
Reportable == part = "traffic" /\ Traffic!Crossed(1)
Sought ==
    \/ part = "paging" /\ Paging!Paged(1)
    \/ part = "reach" /\ v1 = "gone"
Settled ==
    /\ part = "paging" => Paging!Reached(1)
    /\ part = "reach" => v4 = "none"

TrafficGetsItsDue == (Due ~> ~Due) /\ (Reportable ~> ~Reportable) /\ (Sought ~> Settled)
=============================================================================
