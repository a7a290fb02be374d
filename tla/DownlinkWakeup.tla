--------------------------- MODULE DownlinkWakeup ---------------------------
(***************************************************************************)
(* Downlink data for an idle UE, across three programs: the UPF buffers it *)
(* and reports the first packet (buffer_downlink, take_dl_data_report in   *)
(* crates/pfcp, report_usage in nf-upf), the SMF asks the AMF to page     *)
(* (handle_dl_data_report in nf-smf), and the AMF pages and re-activates   *)
(* the session when the UE returns (release_ue_context, page_ue,           *)
(* on_service_request in nf-amf).  AmfPaging has the paging rounds in      *)
(* detail; here a round is heard or not.                                   *)
(*                                                                         *)
(* One UE with one session.  gap records why what is buffered now has no   *)
(* one left who will see to it, as far as the code knows of that case.     *)
(***************************************************************************)
EXTENDS Integers

CONSTANTS
    DlBufferCap,  \* DL_BUFFER_CAP
    MaxSends,     \* T3513_MAX_SENDS
    MaxPackets,   \* bound: downlink packets
    MaxReleases,  \* bound: AN releases
    MaxFaults,    \* bound: messages lost and calls that fail
    Updates       \* whether the UE sends registration updates

WakeupAssumption ==
    /\ {DlBufferCap, MaxSends} \subseteq Nat \ {0} /\ {MaxPackets, MaxReleases, MaxFaults} \subseteq Nat
    /\ Updates \in BOOLEAN

VARIABLES
    upf,      \* [tunnel, buffer, due]
    wire,     \* Downlink Data Reports on N4
    asked,    \* the SMF's request to page is on its way
    amf,      \* where the context is: "connected", "deactivated", "retained", "resuming"
    round,    \* of page_with_retx; 0 without a task
    gap, packets, releases, faults

vars == <<upf, wire, asked, amf, round, gap, packets, releases, faults>>

Init ==
    /\ upf = [tunnel |-> TRUE, buffer |-> 0, due |-> FALSE]
    /\ wire = 0 /\ asked = FALSE /\ amf = "connected" /\ round = 0 /\ gap = {}
    /\ packets = 0 /\ releases = 0 /\ faults = 0

Fault == faults < MaxFaults /\ faults' = faults + 1
Because(why) == gap' = IF upf.buffer > 0 THEN gap \cup {why} ELSE gap

----------------------------------------------------------------------------
(* The UPF *)

\* Forwarded if there is a tunnel; else buffered, and due to be reported if it is the first.
Packet ==
    /\ packets < MaxPackets /\ packets' = packets + 1
    /\ upf' = IF upf.tunnel THEN upf
              ELSE [upf EXCEPT !.buffer = IF @ < DlBufferCap THEN @ + 1 ELSE @, !.due = @ \/ upf.buffer = 0]
    /\ UNCHANGED <<wire, asked, amf, round, gap, releases, faults>>

\* The report task: the flag is taken whether or not the report arrives.
Report ==
    /\ upf.due /\ upf' = [upf EXCEPT !.due = FALSE]
    /\ \/ wire' = wire + 1 /\ UNCHANGED <<gap, faults>>
       \/ Fault /\ Because("lost") /\ UNCHANGED wire
    /\ UNCHANGED <<asked, amf, round, packets, releases>>

\* set_downlink: the tunnel is installed and the buffer flushed.
InstalledKeepsBuffer == [tunnel |-> TRUE, buffer |-> upf.buffer, due |-> FALSE]
Installed == [tunnel |-> TRUE, buffer |-> 0, due |-> FALSE]

----------------------------------------------------------------------------
(* The SMF *)

\* The report is acknowledged, and the AMF asked once.
handle_dl_data_report ==
    /\ wire > 0 /\ ~asked /\ wire' = wire - 1
    /\ \/ asked' = TRUE /\ UNCHANGED <<gap, faults>>
       \/ Fault /\ Because("lost") /\ UNCHANGED asked
    /\ UNCHANGED <<upf, amf, round, packets, releases>>

----------------------------------------------------------------------------
(* The AMF *)

\* release_ue_context: first the user plane is deactivated, call by call ...
Deactivate ==
    /\ amf = "connected" /\ releases < MaxReleases /\ releases' = releases + 1 /\ amf' = "deactivated"
    /\ \/ upf' = [upf EXCEPT !.tunnel = FALSE] /\ UNCHANGED faults
       \/ Fault /\ UNCHANGED upf
    /\ UNCHANGED <<wire, asked, round, gap, packets>>

\* ... then the context is retained.
Retain ==
    /\ amf = "deactivated" /\ amf' = "retained"
    /\ UNCHANGED <<upf, wire, asked, round, gap, packets, releases, faults>>

\* page_ue: 404 unless the context is retained.
page_ue ==
    /\ asked /\ asked' = FALSE
    /\ IF amf = "retained"
       THEN round' = (IF round = 0 THEN 1 ELSE round) /\ UNCHANGED gap
       ELSE Because("refused") /\ UNCHANGED round
    /\ UNCHANGED <<upf, wire, amf, packets, releases, faults>>

\* page_with_retx: it ends when the context is gone, or with the last round unheard.
NextRound ==
    /\ round > 0
    /\ IF amf # "retained" THEN round' = 0 /\ UNCHANGED <<gap, faults>>
       ELSE /\ Fault /\ round' = IF round = MaxSends THEN 0 ELSE round + 1
            /\ IF round = MaxSends THEN Because("unheard") ELSE UNCHANGED gap
    /\ UNCHANGED <<upf, wire, asked, amf, packets, releases>>

\* on_service_request, Service Request: every session is to be re-activated ...
ServiceRequest ==
    /\ amf = "retained" /\ amf' = "resuming"
    /\ UNCHANGED <<upf, wire, asked, round, gap, packets, releases, faults>>

\* ... and the gNB's answer installs its tunnel, or the session stays without one.
Activate ==
    /\ amf = "resuming" /\ amf' = "connected"
    /\ \/ upf' = Installed /\ gap' = {} /\ UNCHANGED faults
       \/ Fault /\ Because("failed") /\ UNCHANGED upf
    /\ UNCHANGED <<wire, asked, round, packets, releases>>

\* on_service_request, registration update without Uplink Data Status: no session is
\* re-activated.
RegistrationUpdate ==
    /\ Updates /\ amf = "retained" /\ amf' = "connected" /\ Because("update")
    /\ UNCHANGED <<upf, wire, asked, round, packets, releases, faults>>

Next ==
    \/ Packet \/ Report \/ handle_dl_data_report \/ Deactivate \/ Retain \/ page_ue \/ NextRound
    \/ ServiceRequest \/ Activate \/ RegistrationUpdate

Spec == Init /\ [][Next]_vars

\* Tasks run, calls end, and a UE that is paged answers or the round counts as unheard.
Fairness ==
    /\ WF_vars(Report) /\ WF_vars(handle_dl_data_report) /\ WF_vars(page_ue)
    /\ WF_vars(Retain) /\ WF_vars(Activate)
    /\ WF_vars(round > 0 /\ (ServiceRequest \/ NextRound))

FairSpec == Spec /\ Fairness

----------------------------------------------------------------------------
(* Properties *)

\* What is buffered is flushed to the UE, in every idle period and not only in the first,
\* unless the session was re-activated in vain, a message was lost, every round went
\* unheard, the UE came for something else or the request met a UE that is not retained:
\* there is no other way for the wake-up to get lost between UPF, SMF and AMF.
Held == upf.buffer > 0 /\ gap = {}
DeliveredUnlessGap == Held ~> ~Held

(* Refuted *)

\* "Ask the serving AMF to page the CM-IDLE UE ...  The UE answers with a Service Request,
\* which re-activates the session - and the UPF flushes the buffered downlink onto the
\* restored tunnel" (handle_dl_data_report): also for the first packet of an idle period.
BufferedIsFlushed == (upf.buffer > 0) ~> (upf.buffer = 0)
=============================================================================
