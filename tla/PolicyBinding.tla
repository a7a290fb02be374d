---------------------------- MODULE PolicyBinding ----------------------------
(***************************************************************************)
(* From a PCF's decision to the flows of a session (SmPolicyDecision in    *)
(* sbi-core/src/npcf.rs; flow_qers, diff_flows, decision_gfbr, ambr_bps,   *)
(* container_for and refresh_sm_policy in nf/nf-smf/src/pdu_session.rs).   *)
(* PCC rules name a QoS decision and a charging decision by key; the rules *)
(* that name one QoS decision make up one QoS flow.  The SMF keeps the     *)
(* UPF's per-flow rules in step by sending what differs between the policy *)
(* it holds and the next one, and tells the AMF the flows and the QFIs     *)
(* released.                                                               *)
(*                                                                         *)
(* The maps are HashMaps: what they yield first is any order of their      *)
(* keys, and may differ from one evaluation to the next.                   *)
(***************************************************************************)
EXTENDS Integers, FiniteSets

CONSTANTS
    Decisions,    \* the policies the PCF may decide on
    RuleIds,      \* keys of PCC rules
    MaxChanges,   \* bound: policy changes
    MaxLosses,    \* bound: N4 exchanges that are not accepted
    Garbled,      \* a rate that does not parse or overflows 64 bits
    None

BindingAssumption == {MaxChanges, MaxLosses} \subseteq Nat /\ IsFiniteSet(RuleIds)

\* A PCC rule has a key of its own and a precedence.
BindingData ==
    \A d \in Decisions :
        /\ DOMAIN d.rules \subseteq RuleIds /\ IsFiniteSet(DOMAIN d.qos)
        /\ \A r \in DOMAIN d.rules : d.rules[r].precedence \in Nat

VARIABLES
    pcf,       \* the PCF's decision
    policy,    \* SmContext.policy
    upf,       \* per-flow rules installed at the anchor
    upf_ambr,  \* the rate of the session's QER there
    told,      \* the last message to the AMF: flows and released QFIs
    missed,    \* an N4 exchange of a refresh was not accepted
    changes, losses

vars == <<pcf, policy, upf, upf_ambr, told, missed, changes, losses>>

----------------------------------------------------------------------------
(* SmPolicyDecision: [rules, qos, chg, ambr] *)

\* The orders in which a map may yield its keys.
Orders == {s \in [1 .. Cardinality(RuleIds) -> RuleIds] : \A i, j \in DOMAIN s : s[i] = s[j] => i = j}
Pos(o, r) == CHOOSE i \in DOMAIN o : o[i] = r

Bound(d, q) == {r \in DOMAIN d.rules : d.rules[r].ref_qos_data = q}

\* The rule of the lowest precedence number, the first of them the map yields (min_by_key).
Representative(d, q, o) ==
    CHOOSE r \in Bound(d, q) : \A s \in Bound(d, q) :
        \/ d.rules[r].precedence < d.rules[s].precedence
        \/ d.rules[r].precedence = d.rules[s].precedence /\ Pos(o, r) <= Pos(o, s)

\* A flow per QoS decision that a rule is bound to, with that rule's filter, charging, gate.
qos_flows(d, o) ==
    {LET r == d.rules[Representative(d, q, o)] IN
     [qfi |-> d.qos[q].qfi, gbr |-> d.qos[q].gbr, filter |-> r.flow_info,
      ref_chg_data |-> r.ref_chg_data, gate |-> r.flow_status] :
        q \in {q \in DOMAIN d.qos : Bound(d, q) # {}}}

\* The demo's and sm-data's flat list of flows: a rule and a QoS decision for each.
set_flows(flows) ==
    [qos |-> [q \in {f.qfi : f \in flows} |-> LET f == CHOOSE f \in flows : f.qfi = q IN [qfi |-> q, gbr |-> f.gbr]],
     rules |-> [q \in {f.qfi : f \in flows} |-> LET f == CHOOSE f \in flows : f.qfi = q IN
        [precedence |-> q, flow_info |-> f.filter, ref_qos_data |-> q, ref_chg_data |-> f.ref_chg_data,
         flow_status |-> f.gate]]]

\* The rating groups usage of a QFI may be charged under: the charging decision of the first
\* bound rule, in the map's order, that names one; None is the fallback, the QFI itself.
rating_group_for(d, qfi) ==
    LET ids == {q \in DOMAIN d.qos : d.qos[q].qfi = qfi}
        named(q) == {r \in Bound(d, q) : d.rules[r].ref_chg_data # None}
        group(c) == IF c \in DOMAIN d.chg THEN d.chg[c] ELSE None
    IN UNION {IF named(q) = {} THEN {None} ELSE {group(d.rules[r].ref_chg_data) : r \in named(q)} : q \in ids}
       \cup (IF ids = {} THEN {None} ELSE {})

\* The rating groups one report on a flow may be charged under.
container_for(d, qfi) == {IF g = None THEN qfi ELSE g : g \in rating_group_for(d, qfi)}

----------------------------------------------------------------------------
(* The SMF's view *)

bitrate_to_bps(rate) == IF rate = Garbled THEN None ELSE rate
ambr_bps(d) == bitrate_to_bps(d.ambr)

\* The flows policed one by one: guaranteed rates that parse, with a filter.
flow_qers(d, o) ==
    {[qfi |-> f.qfi, filter |-> f.filter, mfbr |-> bitrate_to_bps(f.gbr), gate |-> f.gate] :
        f \in {f \in qos_flows(d, o) : bitrate_to_bps(f.gbr) # None /\ f.filter # None}}

Qfis(flows) == {f.qfi : f \in flows}

\* What is new or has another filter is created, another rate or gate updated, and what is
\* gone or has another filter removed.
diff_flowsKeepsRefiltered(old, new) ==
    [create |-> {n \in new : \A x \in old : x.qfi = n.qfi => x.filter # n.filter},
     update |-> {n \in new : \E x \in old : x.qfi = n.qfi /\ x.filter = n.filter /\ x # n},
     remove |-> Qfis(old) \ Qfis(new)]
diff_flows(old, new) ==
    [create |-> {n \in new : \A x \in old : x.qfi = n.qfi => x.filter # n.filter},
     update |-> {n \in new : \E x \in old : x.qfi = n.qfi /\ x.filter = n.filter /\ x # n},
     remove |-> {x.qfi : x \in {x \in old : \A n \in new : n.qfi = x.qfi => n.filter # x.filter}}]

\* The UPF: remove, then create, then update the rates and gates of a QFI.
Modified(flows, m) ==
    LET made == {f \in flows : f.qfi \notin m.remove} \cup m.create
        changed(f) == CHOOSE u \in m.update : u.qfi = f.qfi
    IN {IF f.qfi \in Qfis(m.update) THEN [f EXCEPT !.mfbr = changed(f).mfbr, !.gate = changed(f).gate] ELSE f :
            f \in made}

Init ==
    /\ pcf \in Decisions /\ policy = pcf
    /\ \E o \in Orders : upf = flow_qers(pcf, o)
    /\ upf_ambr = ambr_bps(pcf)
    /\ told = [flows |-> {}, released |-> {}] /\ missed = FALSE /\ changes = 0 /\ losses = 0

PcfChanges(d) ==
    /\ changes < MaxChanges /\ changes' = changes + 1 /\ d # pcf /\ pcf' = d
    /\ UNCHANGED <<policy, upf, upf_ambr, told, missed, losses>>

\* The gNB and the UE are told of the flows in force and of the ones that are released.
spawn_amf_pdu_modify(flows, old, new) == [flows |-> Qfis(flows), released |-> Qfis(old) \ Qfis(new)]

\* refresh_sm_policy: the policy is stored whether or not the UPF accepted; a decision without
\* an AMBR leaves the QER as it is.
refresh_sm_policy ==
    \E o, p \in Orders, okAmbr, okFlows \in BOOLEAN :
        LET old == flow_qers(policy, o)
            new == flow_qers(pcf, p)
            m == diff_flows(old, new)
            ambrSent == ambr_bps(pcf) # ambr_bps(policy) /\ ambr_bps(pcf) # None
            flowsSent == m.create # {} \/ m.update # {} \/ m.remove # {}
            lost == (ambrSent /\ ~okAmbr) \/ (flowsSent /\ ~okFlows)
        IN /\ policy # pcf
           /\ (~ambrSent => okAmbr) /\ (~flowsSent => okFlows)
           /\ lost => losses < MaxLosses
           /\ losses' = losses + (IF lost THEN 1 ELSE 0) /\ missed' = (missed \/ lost)
           /\ upf_ambr' = IF ambrSent /\ okAmbr THEN ambr_bps(pcf) ELSE upf_ambr
           /\ upf' = IF flowsSent /\ okFlows THEN Modified(upf, m) ELSE upf
           /\ told' = spawn_amf_pdu_modify(qos_flows(pcf, p), old, new)
           /\ policy' = pcf /\ UNCHANGED <<pcf, changes>>

Next == refresh_sm_policy \/ \E d \in Decisions : PcfChanges(d)
Spec == Init /\ [][Next]_vars

----------------------------------------------------------------------------
(* Properties *)

\* Every rule of a flow has its own precedence, and every QoS decision its own QFI.
WellFormed(d) ==
    /\ \A q \in DOMAIN d.qos : \A r, s \in Bound(d, q) : d.rules[r].precedence = d.rules[s].precedence => r = s
    /\ \A p, q \in DOMAIN d.qos : d.qos[p].qfi = d.qos[q].qfi => p = q

\* A session's flows do not depend on the order of a HashMap: the SMF, the UPF and the AMF
\* see the same filter, gate and charging for a QFI, and no QFI twice (qos_flows), where
\* the policy is well formed.
BindingIsStable ==
    WellFormed(policy) =>
        \A o, p \in Orders : LET fs == qos_flows(policy, o) IN
            fs = qos_flows(policy, p) /\ Cardinality(Qfis(fs)) = Cardinality(fs)

\* A flat list of flows comes back from the decision made of it (set_flows, qos_flows): a
\* session without a PCF gets the flows of its subscription.
FlowsRoundTrip ==
    WellFormed(policy) =>
        \A o, p \in Orders : LET fs == qos_flows(policy, o) IN
            Qfis(fs) \subseteq RuleIds => qos_flows(set_flows(fs), p) = fs

\* As long as the UPF accepts what it is sent, it polices the flows and the session at the
\* rates of the policy on record (diff_flows against remove, create, update at the UPF),
\* whichever attributes of which flows changed.
UpfFollowsPolicy ==
    ~missed /\ WellFormed(policy) =>
        \A o \in Orders : upf = flow_qers(policy, o)
            /\ (ambr_bps(policy) # None => upf_ambr = ambr_bps(policy))

\* What it follows from, for decisions that are all well formed.
BindingIInv == {pcf, policy} \subseteq Decisions /\ UpfFollowsPolicy

(* Refuted *)

\* "Charged under the rating group of its flow's PCF charging decision
\* (QosFlowPolicy.ref_chg_data -> charging_descs), falling back ... when the flow has no
\* charging decision" (container_for).
ChargedAsBound ==
    WellFormed(policy) =>
        \A o \in Orders : \A f \in qos_flows(policy, o) :
            container_for(policy, f.qfi) =
                {IF f.ref_chg_data \in DOMAIN policy.chg THEN policy.chg[f.ref_chg_data] ELSE f.qfi}

\* "GBR flows fully gone from the new policy - released toward the RAN/UE"
\* (refresh_sm_policy): a QFI told to be released is not one of the flows told at the same time.
ReleasedIsGone == told.flows \cap told.released = {}

\* "Add/re-rate/remove the UPF's per-flow QERs to match the new decision"
\* (refresh_sm_policy): after a refresh whose exchanges were accepted the UPF matches, also
\* when those of an earlier one were not.
RefreshRepairs ==
    [][policy' # policy /\ losses' = losses /\ WellFormed(policy') =>
        \A o \in Orders : upf' = flow_qers(policy', o)]_vars
=============================================================================
