----------------------------- MODULE UpfSession -----------------------------
(***************************************************************************)
(* The UPF: the session table the N4 task writes (crates/pfcp), the        *)
(* forwarding decisions of the N3 and N6 tasks (crates/n6) and the report  *)
(* task (nf-upf).  A task decides under the table's lock and sends after it*)
(* let go of the lock, so what is about to be sent is state of its own.    *)
(* A packet is one unit of volume.  Whether a policer lets a packet pass is*)
(* left open here (TokenBucket is exact about it).  What the control plane *)
(* asked for, what was carried and what was charged are kept as history.   *)
(***************************************************************************)
EXTENDS Integers, FiniteSets, Sequences, SequencesExt

CONSTANTS None,
          Peers,        \* N4 addresses of control planes
          Ues,          \* [id, fams]: an address and the families assigned
          Tunnels,      \* downlink tunnels of gNBs and N9 peers
          Qfis, Filters, Gates, Rates,
          BranchFilters,
          Thresholds,
          Packets,      \* [fam, ue, proto, dst]
          Kinds,        \* which control-plane operations happen
          MaxSessions, DlBufferCap, MaxSeid, MaxCalls, MaxTraffic

UpfAssumption == DlBufferCap \in Nat \ {0} /\ {MaxSessions, MaxSeid, MaxCalls, MaxTraffic} \subseteq Nat

VARIABLES sessions, nextTeid, nextSeid, smf,
          n4,           \* what the N4 task still sends: flushed packets, End Markers, RAs
          n6, n3,       \* what the N6 and the N3 task are about to send on N3
          intent, carried, charged, paged, ended, late, strayed, traffic, calls

table == <<sessions, nextTeid, nextSeid, smf>>
history == <<intent, carried, charged, paged, ended, late, strayed>>
vars == <<table, n4, n6, n3, history, traffic, calls>>

-----------------------------------------------------------------------------
(* The PFCP requests an SMF builds and what a UPF reads out of them        *)
(* (crates/pfcp).  A request is a record of IE sets; rules refer to each   *)
(* other by id, and the id bands say what a rule is for: the session's own *)
(* rules, one rule set per GBR flow, one per uplink-classifier branch.     *)
(* The TLV layout is rs-pfcp's (external); SDF filters keep their transport*)
(* protocol and destination prefix, the two kinds of match that are used.  *)

AMBR_QER_ID == 1
UPLINK_FAR_ID == 1
DOWNLINK_FAR_ID == 2
DOWNLINK_PDR_ID == 2
PER_FLOW_QER_BASE == 1000
PER_FLOW_PDR_BASE == 100
ULCL_PDR_BASE == 400
ULCL_FAR_BASE == 3
DEFAULT_QFI == 1
SESSION_URR_ID == 1
PER_FLOW_URR_BASE == 2000

-----------------------------------------------------------------------------
(* Filters and gates *)

Transport(proto) == [proto |-> proto, dst |-> None]
\* FlowFilter::to_flow_description and back: absent components are left out, and
\* an empty description is the filter that matches everything.
FlowDescription(f) == {<<k, f[k]>> : k \in {k \in DOMAIN f : f[k] # None}}
FromFlowDescription(d) ==
    [k \in {"proto", "dst"} |-> IF \E p \in d : p[1] = k THEN (CHOOSE p \in d : p[1] = k)[2] ELSE None]

Matches(f, pkt) == f.proto \in {None, pkt.proto} /\ f.dst \in {None, pkt.dst}

Open == [uplink |-> TRUE, downlink |-> TRUE]
IsRestricted(gate) == gate # Open

-----------------------------------------------------------------------------
(* The SMF's requests *)

NoIes == [createPdr |-> {}, createFar |-> {}, createQer |-> {}, createUrr |-> {}, updateFar |-> {},
          updateQer |-> {}, removePdr |-> {}, removeQer |-> {}, queryUrr |-> {}, sndem |-> FALSE]

Pdr(id, sdf, far, qer, ue, fteid) == [id |-> id, sdf |-> sdf, far |-> far, qer |-> qer, ue |-> ue, fteid |-> fteid]
Far(id, ohc) == [id |-> id, ohc |-> ohc]

\* Mutant: an update of a flow leaves an open gate out, as a creation does.
FlowUpdateIesRestricted(f) ==
    [id |-> PER_FLOW_QER_BASE + f.qfi, mbr |-> f.mfbr, gate |-> IF IsRestricted(f.gate) THEN f.gate ELSE None]

\* flow_create_ies: a QER, a classifier PDR and a URR with ids fixed by the QFI;
\* an open gate is left out.
FlowQer(f) == [id |-> PER_FLOW_QER_BASE + f.qfi, mbr |-> f.mfbr, gate |-> IF IsRestricted(f.gate) THEN f.gate ELSE None]
FlowPdr(f) ==
    Pdr(PER_FLOW_PDR_BASE + f.qfi, FlowDescription(f.filter), UPLINK_FAR_ID, PER_FLOW_QER_BASE + f.qfi, None, FALSE)
FlowUrr(f) == [id |-> PER_FLOW_URR_BASE + f.qfi, threshold |-> None]

\* An update always states the gate.
FlowUpdateIes(f) == [id |-> PER_FLOW_QER_BASE + f.qfi, mbr |-> f.mfbr, gate |-> f.gate]

BranchPdr(i, filter) == Pdr(ULCL_PDR_BASE + i, FlowDescription(filter), ULCL_FAR_BASE + i, None, None, FALSE)

SessionEstablishmentRequest(ue, ambr, flows, threshold) ==
    LET qer == IF ambr = None THEN None ELSE AMBR_QER_ID
    IN [NoIes EXCEPT
          !.createPdr = {Pdr(1, None, UPLINK_FAR_ID, qer, None, TRUE), Pdr(DOWNLINK_PDR_ID, None, DOWNLINK_FAR_ID, qer, ue, FALSE)}
                        \cup {FlowPdr(f) : f \in flows},
          !.createFar = {Far(UPLINK_FAR_ID, None), Far(DOWNLINK_FAR_ID, None)},
          !.createQer = (IF ambr = None THEN {} ELSE {[id |-> AMBR_QER_ID, mbr |-> ambr, gate |-> None]})
                        \cup {FlowQer(f) : f \in flows},
          !.createUrr = {[id |-> SESSION_URR_ID, threshold |-> threshold]} \cup {FlowUrr(f) : f \in flows}]

SessionEstablishmentRequestViaPeer(ue, peer, branches) ==
    [NoIes EXCEPT
       !.createPdr = {Pdr(1, None, UPLINK_FAR_ID, None, ue, TRUE), Pdr(DOWNLINK_PDR_ID, None, DOWNLINK_FAR_ID, None, None, TRUE)}
                     \cup {BranchPdr(i - 1, branches[i].filter) : i \in DOMAIN branches},
       !.createFar = {Far(UPLINK_FAR_ID, peer), Far(DOWNLINK_FAR_ID, None)}
                     \cup {Far(ULCL_FAR_BASE + i - 1, branches[i].egress) : i \in DOMAIN branches}]

SessionEstablishmentRequestIndirectForwarding(target) ==
    [NoIes EXCEPT !.createPdr = {Pdr(1, None, UPLINK_FAR_ID, None, None, TRUE)},
                  !.createFar = {Far(UPLINK_FAR_ID, target)}]

SessionQerUpdateRequest(ambr) == [NoIes EXCEPT !.updateQer = {[id |-> AMBR_QER_ID, mbr |-> ambr, gate |-> None]}]

SessionUrrQueryRequest(ids) == [NoIes EXCEPT !.queryUrr = ids]

SessionFlowModificationRequest(create, update, remove) ==
    [NoIes EXCEPT !.createQer = {FlowQer(f) : f \in create},
                  !.createPdr = {FlowPdr(f) : f \in create},
                  !.createUrr = {FlowUrr(f) : f \in create},
                  !.updateQer = {FlowUpdateIes(f) : f \in update},
                  !.removeQer = {PER_FLOW_QER_BASE + q : q \in remove},
                  !.removePdr = {PER_FLOW_PDR_BASE + q : q \in remove}]

SessionModificationAddBranch(i, filter, egress) ==
    [NoIes EXCEPT !.createPdr = {BranchPdr(i, filter)}, !.createFar = {Far(ULCL_FAR_BASE + i, egress)}]

SessionModificationRemoveBranch(i) == [NoIes EXCEPT !.removePdr = {ULCL_PDR_BASE + i}]

SessionDeactivateRequest(far) ==
    [NoIes EXCEPT !.updateFar = {[id |-> far, ohc |-> None, action |-> {"BUFF", "NOCP"}]}]

SessionModificationRequest(far, tunnel, sndem) ==
    [NoIes EXCEPT !.updateFar = {[id |-> far, ohc |-> tunnel, action |-> {"FORW"}]}, !.sndem = sndem]

-----------------------------------------------------------------------------
(* What the UPF reads *)

\* The IEs of a set that are there, in the order of their ids.
InOrder(ies) == SetToSortSeq(ies, LAMBDA x, y : x.id < y.id)

UeAddr(msg) ==
    LET with == {p \in msg.createPdr : p.ue # None}
    IN IF with = {} THEN None ELSE (CHOOSE p \in with : TRUE).ue

SessionAmbr(msg) ==
    LET q == {q \in msg.createQer : q.id = AMBR_QER_ID} IN IF q = {} THEN None ELSE (CHOOSE x \in q : TRUE).mbr

UsageThreshold(msg) ==
    LET u == {u \in msg.createUrr : u.id = SESSION_URR_ID} IN IF u = {} THEN None ELSE (CHOOSE x \in u : TRUE).threshold

UplinkEgress(msg) ==
    LET f == {f \in msg.createFar : f.id = UPLINK_FAR_ID} IN IF f = {} THEN None ELSE (CHOOSE x \in f : TRUE).ohc

WantsDlIngress(msg) == \E p \in msg.createPdr : p.id = DOWNLINK_PDR_ID /\ p.fteid

\* parse_created_flows: a classifier PDR linked to a QER that came with it.
ParseCreatedFlows(msg) ==
    LET linked(p) == p.sdf # None /\ p.qer # None /\ \E q \in msg.createQer : q.id = p.qer
        pdrs == InOrder({p \in msg.createPdr : linked(p)})
        qer(p) == CHOOSE q \in msg.createQer : q.id = p.qer
    IN [i \in DOMAIN pdrs |->
          [qfi |-> pdrs[i].qer - PER_FLOW_QER_BASE, filter |-> FromFlowDescription(pdrs[i].sdf),
           mfbr |-> qer(pdrs[i]).mbr,
           gate |-> IF qer(pdrs[i]).gate = None THEN Open ELSE qer(pdrs[i]).gate]]

\* parse_branches: a PDR of the branch band with the egress of the FAR it names.
ParseBranches(msg) ==
    LET far(p) == {f \in msg.createFar : f.id = p.far}
        pdrs == InOrder({p \in msg.createPdr : p.id >= ULCL_PDR_BASE /\ p.sdf # None /\ far(p) # {}})
    IN [i \in DOMAIN pdrs |->
          [id |-> pdrs[i].id, filter |-> FromFlowDescription(pdrs[i].sdf),
           egress |-> (CHOOSE f \in far(pdrs[i]) : TRUE).ohc]]

-----------------------------------------------------------------------------
Ids == 1..MaxSeid
Flow == [qfi : Qfis, filter : Filters, mfbr : Rates, gate : Gates]
FlowSets == {F \in SUBSET Flow : \A f, g \in F : f.qfi = g.qfi => f = g}

Init ==
    /\ sessions = <<>> /\ nextTeid = 1 /\ nextSeid = 1 /\ smf = None
    /\ n4 = <<>> /\ n6 = None /\ n3 = None
    /\ intent = <<>> /\ carried = [i \in Ids |-> 0] /\ charged = [i \in Ids |-> [session |-> 0, flows |-> 0]]
    /\ paged = {} /\ ended = {} /\ late = FALSE /\ strayed = {}
    /\ traffic = 0 /\ calls = 0

-----------------------------------------------------------------------------
(* The session table *)

Enforcer(f) == [qfi |-> f.qfi, filter |-> f.filter, mfbr |-> f.mfbr, gate |-> f.gate, bytes |-> 0]

Without(flows, qfi) == SelectSeq(flows, LAMBDA e : e.qfi # qfi)

AddFlow(flows, f) == Append(Without(flows, f.qfi), Enforcer(f))

UpdateFlow(flows, q) ==
    [i \in DOMAIN flows |->
        IF flows[i].qfi # q.id - PER_FLOW_QER_BASE THEN flows[i]
        ELSE [flows[i] EXCEPT !.mfbr = IF q.mbr = None THEN @ ELSE q.mbr,
                              !.gate = IF q.gate = None THEN @ ELSE q.gate]]

AddBranch(branches, b) ==
    SortSeq(Append(SelectSeq(branches, LAMBDA x : x.id # b.id), b), LAMBDA x, y : x.id < y.id)

\* The part of a modification that re-points or clears the downlink.  Buffered
\* packets leave as they are: they are classified for their QFI and nothing else.
SetDownlink(s, t) ==
    [s EXCEPT !.downlink = t, !.buffering = FALSE, !.dldr = FALSE, !.buffer = <<>>]

ClearDownlink(s) == [s EXCEPT !.downlink = None, !.buffering = TRUE]

\* First installed flow whose filter matches, 0 for the session itself.
Classify(s, pkt) ==
    LET m == {i \in DOMAIN s.flows : Matches(s.flows[i].filter, pkt)}
    IN IF m = {} THEN 0 ELSE CHOOSE i \in m : \A j \in m : i <= j

DownlinkQfi(s, pkt) == IF Classify(s, pkt) = 0 THEN DEFAULT_QFI ELSE s.flows[Classify(s, pkt)].qfi

\* Session::admit: gate, policer, and the packet counted under one URR.
Admits(s, pkt, up, pass) ==
    LET i == Classify(s, pkt)
        rate == IF i = 0 THEN s.ambr ELSE s.flows[i].mfbr
    IN /\ i # 0 => s.flows[i].gate[up]
       /\ rate \in {None, 0} => pass
       /\ pass

Counted(s, pkt) ==
    LET i == Classify(s, pkt)
    IN IF i # 0 THEN [s EXCEPT !.flows[i].bytes = @ + 1]
       ELSE [s EXCEPT !.bytes = @ + 1,
                      !.due = @ \/ (s.threshold # None /\ s.bytes + 1 - s.reported >= s.threshold)]

Buffered(s, pkt) ==
    [s EXCEPT !.dldr = @ \/ s.buffer = <<>>,
              !.buffer = Append(IF Len(@) >= DlBufferCap THEN Tail(@) ELSE @, pkt)]

Unreported(s) == s.bytes - s.reported

-----------------------------------------------------------------------------
(* The N4 task: one datagram, its answer, then what the table asks to send *)

Idle4 == n4 = <<>> /\ calls < MaxCalls

Received(p) == smf' = p /\ calls' = calls + 1 /\ UNCHANGED <<n6, n3, traffic, late, strayed>>

Full == Cardinality(DOMAIN sessions) >= MaxSessions

TeidsTaken(msg) == IF WantsDlIngress(msg) THEN 2 ELSE 1

\* A new session: its rules as the request has them, nothing measured or buffered yet.
Session(p, msg) ==
    LET flows == ParseCreatedFlows(msg)
    IN [teid |-> nextTeid, peer |-> p, ue |-> UeAddr(msg), downlink |-> None,
        uplink |-> UplinkEgress(msg), branches |-> ParseBranches(msg),
        dlIngress |-> IF WantsDlIngress(msg) THEN nextTeid + 1 ELSE None,
        ambr |-> SessionAmbr(msg), flows |-> [i \in DOMAIN flows |-> Enforcer(flows[i])],
        bytes |-> 0, reported |-> 0, threshold |-> UsageThreshold(msg), due |-> FALSE,
        buffering |-> FALSE, buffer |-> <<>>, dldr |-> FALSE]

\* handle_n4_from, Session Establishment Request.
Establish(p, msg, want) ==
    /\ Idle4 /\ Received(p) /\ UNCHANGED <<n4, carried, charged, paged, ended>>
    /\ IF Full
       THEN UNCHANGED <<sessions, nextTeid, nextSeid, intent>>
       ELSE /\ nextSeid <= MaxSeid
            /\ nextSeid' = nextSeid + 1
            /\ nextTeid' = nextTeid + TeidsTaken(msg)
            /\ sessions' = [i \in DOMAIN sessions \cup {nextSeid} |->
                              IF i = nextSeid THEN Session(p, msg) ELSE sessions[i]]
            /\ intent' = intent @@ (nextSeid :> want)

\* Update FAR of the downlink: the session after it, and what is queued to be sent.
DownlinkUpdate(msg) == {f \in msg.updateFar : f.id = DOWNLINK_FAR_ID}

FarApplied(s, msg) ==
    IF DownlinkUpdate(msg) = {} THEN s
    ELSE LET f == CHOOSE f \in DownlinkUpdate(msg) : TRUE
         IN IF f.ohc # None THEN SetDownlink(s, f.ohc)
            ELSE IF f.action \cap {"BUFF", "DROP"} # {} THEN ClearDownlink(s) ELSE s

FarQueued(s, msg) ==
    LET f == CHOOSE f \in DownlinkUpdate(msg) : TRUE
    IN IF DownlinkUpdate(msg) = {} \/ f.ohc = None THEN <<>>
       ELSE [i \in DOMAIN s.buffer |-> [kind |-> "flush", to |-> f.ohc, qfi |-> DownlinkQfi(s, s.buffer[i])]]
            \o (IF msg.sndem /\ s.downlink \notin {None, f.ohc}
                THEN <<[kind |-> "end", to |-> s.downlink, qfi |-> 0]>> ELSE <<>>)
            \o (IF s.ue # None /\ "v6" \in s.ue.fams
                THEN <<[kind |-> "ra", to |-> f.ohc, qfi |-> DEFAULT_QFI]>> ELSE <<>>)

\* Remove QER, then the created flows, then Update QER: the flows after it,
FlowsAfter(flows, msg) ==
    LET kept == SelectSeq(flows, LAMBDA e : PER_FLOW_QER_BASE + e.qfi \notin msg.removeQer)
        with == FoldLeft(AddFlow, kept, ParseCreatedFlows(msg))
    IN FoldLeft(UpdateFlow, with, InOrder({q \in msg.updateQer : q.id # AMBR_QER_ID}))

\* and the rate of the session, which is Update QER's AMBR rule.
AmbrAfter(ambr, msg) ==
    LET rated == {q \in msg.updateQer : q.id = AMBR_QER_ID /\ q.mbr # None}
    IN IF rated = {} THEN ambr ELSE (CHOOSE q \in rated : TRUE).mbr

QersApplied(s, msg) == [s EXCEPT !.flows = FlowsAfter(@, msg), !.ambr = AmbrAfter(@, msg)]

BranchesAfter(branches, msg) ==
    LET kept == SelectSeq(branches, LAMBDA b : b.id < ULCL_PDR_BASE \/ b.id \notin msg.removePdr)
    IN FoldLeft(AddBranch, kept, ParseBranches(msg))

BranchesApplied(s, msg) == [s EXCEPT !.branches = BranchesAfter(@, msg)]

\* handle_n4_from, Session Modification Request.  Another peer's request is refused;
\* one for a session that is not there is answered as accepted.
Modify(p, id, msg, want) ==
    /\ Idle4 /\ Received(p) /\ UNCHANGED <<nextTeid, nextSeid, charged>>
    /\ IF id \in DOMAIN sessions /\ sessions[id].peer = p
       THEN LET s == sessions[id]
                queued == FarQueued(s, msg)
                flushed == Len(SelectSeq(queued, LAMBDA o : o.kind = "flush"))
                t == FarApplied(s, msg)
            IN /\ sessions' = [sessions EXCEPT ![id] = BranchesApplied(QersApplied(t, msg), msg)]
               /\ n4' = queued
               /\ intent' = [intent EXCEPT ![id] = want]
               /\ carried' = [carried EXCEPT ![id] = @ + flushed]
               /\ paged' = IF t.buffering THEN paged ELSE paged \ {id}
               /\ ended' = IF t.downlink = s.downlink THEN ended ELSE ended \ {t.downlink}
       ELSE UNCHANGED <<sessions, n4, intent, carried, paged, ended>>

\* The final usage: the session URR's that no report covered, and every flow URR's.
FlowUsage(s) == FoldLeft(LAMBDA sum, f : sum + f.bytes, 0, s.flows)
FinalUsage(s) == [session |-> Unreported(s), flows |-> FlowUsage(s)]

\* handle_n4_from, Session Deletion Request: the answer carries the final usage.
Delete(p, id) ==
    /\ Idle4 /\ Received(p) /\ UNCHANGED <<n4, nextTeid, nextSeid, carried, intent, ended>>
    /\ IF id \in DOMAIN sessions /\ sessions[id].peer = p
       THEN /\ charged' = [charged EXCEPT ![id].session = @ + FinalUsage(sessions[id]).session,
                                      ![id].flows = FinalUsage(sessions[id]).flows]
            /\ sessions' = [j \in DOMAIN sessions \ {id} |-> sessions[j]]
            /\ paged' = paged \ {id}
       ELSE UNCHANGED <<charged, sessions, paged>>

\* Association Setup and Heartbeat: answered, and the sender becomes "the SMF".
Heartbeat(p) ==
    /\ Idle4 /\ Received(p) /\ smf # p
    /\ UNCHANGED <<sessions, nextTeid, nextSeid, n4, intent, carried, charged, paged, ended>>

-----------------------------------------------------------------------------
(* What control planes ask *)

Quiet == [flows |-> {}, branches |-> {}, downlink |-> None]
Known == 1..(nextSeid - 1)
Wanted(id) == IF id \in DOMAIN intent THEN intent[id] ELSE Quiet

Ask(p) ==
    \/ \E u \in Ues, F \in FlowSets, r \in Rates \cup {None}, th \in Thresholds :
          "anchor" \in Kinds /\ Establish(p, SessionEstablishmentRequest(u, r, F, th), [Quiet EXCEPT !.flows = F])
    \/ \E u \in Ues, t \in Tunnels, f \in BranchFilters, e \in Tunnels \cup {None} :
          /\ "chain" \in Kinds
          /\ Establish(p, SessionEstablishmentRequestViaPeer(u, t, <<[filter |-> f, egress |-> e]>>),
                       [Quiet EXCEPT !.branches = {[id |-> ULCL_PDR_BASE, filter |-> f, egress |-> e]}])
    \/ \E t \in Tunnels :
          "forwarding" \in Kinds /\ Establish(p, SessionEstablishmentRequestIndirectForwarding(t), Quiet)

\* What a flow modification means: removals, then the new flows by QFI, then the
\* new rate and gate of the flows that are there.
FlowsAsked(F, create, update, remove) ==
    LET kept == {f \in F : f.qfi \notin remove /\ ~\E c \in create : c.qfi = f.qfi} \cup create
    IN {IF \E u \in update : u.qfi = f.qfi
        THEN LET u == CHOOSE u \in update : u.qfi = f.qfi IN [f EXCEPT !.mfbr = u.mfbr, !.gate = u.gate]
        ELSE f : f \in kept}

Change(p, id) ==
    LET w == Wanted(id)
    IN \/ \E t \in Tunnels, em \in BOOLEAN :
             Modify(p, id, SessionModificationRequest(DOWNLINK_FAR_ID, t, em), [w EXCEPT !.downlink = t])
       \/ /\ "idle" \in Kinds
          /\ Modify(p, id, SessionDeactivateRequest(DOWNLINK_FAR_ID), [w EXCEPT !.downlink = None])
       \/ \E r \in Rates : "qos" \in Kinds /\ Modify(p, id, SessionQerUpdateRequest(r), w)
       \/ \E create, update \in FlowSets, remove \in SUBSET Qfis :
             /\ "qos" \in Kinds
             /\ {c.qfi : c \in create} \cap {u.qfi : u \in update} = {}
             /\ Modify(p, id, SessionFlowModificationRequest(create, update, remove),
                       [w EXCEPT !.flows = FlowsAsked(@, create, update, remove)])
       \/ \E f \in BranchFilters, e \in Tunnels \cup {None}, i \in 0..1 :
             /\ "chain" \in Kinds
             /\ Modify(p, id, SessionModificationAddBranch(i, f, e),
                       [w EXCEPT !.branches = {b \in @ : b.id # ULCL_PDR_BASE + i}
                                              \cup {[id |-> ULCL_PDR_BASE + i, filter |-> f, egress |-> e]}])
       \/ \E i \in 0..1 :
             "chain" \in Kinds /\ Modify(p, id, SessionModificationRemoveBranch(i),
                                         [w EXCEPT !.branches = {b \in @ : b.id # ULCL_PDR_BASE + i}])
       \/ "query" \in Kinds /\ Modify(p, id, SessionUrrQueryRequest({SESSION_URR_ID}), w)

-----------------------------------------------------------------------------
(* The data plane *)

Owner(teid) == {i \in DOMAIN sessions : sessions[i].teid = teid}

\* n6::uplink, decided under the lock: a packet back from an anchor, an unknown
\* tunnel, a router solicitation, a source that is not the UE's, the policer.
N3Receive(teid, pkt, rs, pass) ==
    LET back == {i \in DOMAIN sessions : sessions[i].dlIngress = teid /\ sessions[i].downlink # None}
        i == CHOOSE i \in Owner(teid) : TRUE
        s == sessions[i]
        own == s.ue # None => (pkt.ue = s.ue.id /\ pkt.fam \in s.ue.fams)
    IN /\ n3 = None /\ traffic < MaxTraffic /\ traffic' = traffic + 1
       /\ UNCHANGED <<nextTeid, nextSeid, smf, n4, n6, intent, charged, paged, ended, late, strayed, calls>>
       /\ \/ /\ back # {} /\ ~rs /\ pass
             /\ n3' = [to |-> sessions[CHOOSE j \in back : TRUE].downlink, qfi |-> 0]
             /\ UNCHANGED <<sessions, carried>>
          \/ /\ back = {} /\ Owner(teid) # {} /\ rs /\ pass
             /\ s.ue # None /\ "v6" \in s.ue.fams /\ s.downlink # None
             /\ n3' = [to |-> s.downlink, qfi |-> DEFAULT_QFI]
             /\ UNCHANGED <<sessions, carried>>
          \/ /\ back = {} /\ Owner(teid) # {} /\ ~rs /\ own /\ Admits(s, pkt, "uplink", pass)
             /\ sessions' = [sessions EXCEPT ![i] = Counted(s, pkt)]
             /\ carried' = [carried EXCEPT ![i] = @ + 1]
             /\ UNCHANGED n3

\* n6::downlink: to the session that owns the address, or into its buffer.
N6Receive(pkt, pass) ==
    LET owners == {i \in DOMAIN sessions : sessions[i].ue # None /\ sessions[i].ue.id = pkt.ue
                                           /\ pkt.fam \in sessions[i].ue.fams}
    IN \E i \in owners :
        LET s == sessions[i]
        IN /\ n6 = None /\ traffic < MaxTraffic /\ traffic' = traffic + 1
           /\ UNCHANGED <<nextTeid, nextSeid, smf, n4, n3, intent, charged, paged, ended, late, strayed, calls>>
           /\ \/ /\ s.downlink # None /\ Admits(s, pkt, "downlink", pass)
                 /\ n6' = [to |-> s.downlink, qfi |-> DownlinkQfi(s, pkt)]
                 /\ sessions' = [sessions EXCEPT ![i] = Counted(s, pkt)]
                 /\ carried' = [carried EXCEPT ![i] = @ + 1]
              \/ /\ s.downlink = None /\ s.buffering /\ pkt.fam = "v4" /\ pass
                 /\ sessions' = [sessions EXCEPT ![i] = Buffered(s, pkt)]
                 /\ UNCHANGED <<n6, carried>>

-----------------------------------------------------------------------------
(* Sending after the lock was let go *)

Sent(o) == late' = (late \/ o.to \in ended)

N6Send == n6 # None /\ Sent(n6) /\ n6' = None
          /\ UNCHANGED <<table, n4, n3, intent, carried, charged, paged, ended, strayed, traffic, calls>>
N3Send == n3 # None /\ Sent(n3) /\ n3' = None
          /\ UNCHANGED <<table, n4, n6, intent, carried, charged, paged, ended, strayed, traffic, calls>>
N4Send ==
    /\ n4 # <<>> /\ n4' = Tail(n4)
    /\ IF Head(n4).kind = "end" THEN ended' = ended \cup {Head(n4).to} /\ UNCHANGED late
       ELSE Sent(Head(n4)) /\ UNCHANGED ended
    /\ UNCHANGED <<table, n6, n3, intent, carried, charged, paged, strayed, traffic, calls>>

-----------------------------------------------------------------------------
(* The report task: everything that is due, to the last N4 peer *)

\* Mutant: the watermark stays where it was.
ReportedKeepsWatermark(s) == [s EXCEPT !.due = FALSE]

Reported(s) == [s EXCEPT !.due = FALSE, !.reported = s.bytes]

TakeDueReport(i) ==
    /\ i \in DOMAIN sessions /\ sessions[i].due
    /\ sessions' = [sessions EXCEPT ![i] = Reported(@)]
    /\ charged' = [charged EXCEPT ![i].session = @ + Unreported(sessions[i])]
    /\ strayed' = IF sessions[i].peer = smf THEN strayed ELSE strayed \cup {i}
    /\ UNCHANGED <<nextTeid, nextSeid, smf, n4, n6, n3, intent, carried, paged, ended, late, traffic, calls>>

TakeDlDataReport(i) ==
    /\ i \in DOMAIN sessions /\ sessions[i].dldr
    /\ sessions' = [sessions EXCEPT ![i].dldr = FALSE]
    /\ paged' = paged \cup {i}
    /\ strayed' = IF sessions[i].peer = smf THEN strayed ELSE strayed \cup {i}
    /\ UNCHANGED <<nextTeid, nextSeid, smf, n4, n6, n3, intent, carried, charged, ended, late, traffic, calls>>

Control == \E p \in Peers :
    \/ Ask(p)
    \/ \E id \in Known : Change(p, id)
    \/ \E id \in Known : Delete(p, id)
    \/ Heartbeat(p)

Data ==
    \/ \E pkt \in Packets, pass \in BOOLEAN : N6Receive(pkt, pass)
    \/ \E teid \in 1..(nextTeid - 1), pkt \in Packets, rs, pass \in BOOLEAN : N3Receive(teid, pkt, rs, pass)

Next ==
    \/ Control \/ Data \/ N4Send \/ N6Send \/ N3Send
    \/ \E i \in Ids : TakeDueReport(i) \/ TakeDlDataReport(i)

\* The tasks keep running, and the report task empties what is due on every tick.
Spec == Init /\ [][Next]_vars /\ WF_vars(N4Send) /\ WF_vars(N6Send) /\ WF_vars(N3Send)
             /\ \A i \in Ids : WF_vars(TakeDueReport(i)) /\ WF_vars(TakeDlDataReport(i))

-----------------------------------------------------------------------------
(* Properties *)

TypeOK ==
    /\ DOMAIN sessions \subseteq Ids /\ nextSeid \in 1..(MaxSeid + 1)
    /\ Cardinality(DOMAIN sessions) <= MaxSessions
    /\ \A i \in DOMAIN sessions : Len(sessions[i].buffer) <= DlBufferCap /\ sessions[i].reported <= sessions[i].bytes

\* After any sequence of establishments and modifications the table holds the flows
\* (with their rate and gate), the branches and the downlink the control plane last
\* asked for: what the builders write, handle_n4_from reads back and applies in order.
UpfHasWhatSmfAsked ==
    \A i \in DOMAIN sessions :
        LET s == sessions[i]
        IN /\ {[qfi |-> f.qfi, filter |-> f.filter, mfbr |-> f.mfbr, gate |-> f.gate] : f \in Range(s.flows)}
                = intent[i].flows
           /\ Len(s.flows) = Cardinality(intent[i].flows)
           /\ Range(s.branches) = intent[i].branches
           /\ s.downlink = intent[i].downlink

\* The tunnel ids the N3 task tells packets apart by belong to one session and one
\* direction each.
TeidsUnambiguous ==
    \A i, j \in DOMAIN sessions :
        /\ sessions[i].teid # sessions[j].dlIngress
        /\ i # j => /\ sessions[i].teid # sessions[j].teid
                    /\ sessions[i].dlIngress # None => sessions[i].dlIngress # sessions[j].dlIngress

\* A packet held for an idle UE has the control plane told: buffer_downlink raises a
\* Downlink Data Report with the first packet of every idle period, not only of the first.
Unpaged(i) == i \in DOMAIN sessions /\ sessions[i].buffer # <<>> /\ i \notin paged
IdleUeIsPaged == \A i \in Ids : Unpaged(i) ~> ~Unpaged(i)

\* Volume that crosses the session URR's threshold is reported while the session lives,
\* however packets and the report task interleave.
Crossed(i) ==
    i \in DOMAIN sessions /\ sessions[i].threshold # None /\ Unreported(sessions[i]) >= sessions[i].threshold
ThresholdIsReported == \A i \in Ids : Crossed(i) ~> ~Crossed(i)

\* Session::admit, take_due_report and remove as a ledger: the session URR bills every
\* unit once, in threshold reports and the final one together.
Ledger == INSTANCE UsageLedger WITH
    open <- DOMAIN sessions,
    unbilled <- [i \in Ids |-> IF i \in DOMAIN sessions THEN Unreported(sessions[i]) ELSE 0],
    billed <- [i \in Ids |-> charged[i].session]

BilledOnce == Ledger!Spec

\* "so a charging system summing all rating groups sees the true total": when a
\* session is gone, its reports add up to what it carried.
ChargedIsCarried == \A i \in Known \ DOMAIN sessions : charged[i].session + charged[i].flows = carried[i]

\* "the UPF marks the end of the old path before switching, so the target gNB delivers
\* downlink in order": nothing follows an End Marker on its tunnel.
EndMarkerIsLast == ~late

\* A report goes to the control plane whose session it is about.
ReportsReachOwner == strayed = {}
=============================================================================
