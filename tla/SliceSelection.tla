--------------------------- MODULE SliceSelection ---------------------------
(***************************************************************************)
(* What a registered UE may use: the slices the NSSF selects from what it  *)
(* requested, the subscription and its tracking area; the UE-AMBR and RFSP *)
(* from the subscription and the PCF's AM policy; and how changes of these *)
(* reach the UE's context, the RAN and the UE, connected or CM-IDLE.       *)
(*                                                                         *)
(* One UE.  A rate, an RFSP is a number, 0 for none.  A notification reads *)
(* the subscription when it is handled, and posts what it read.            *)
(***************************************************************************)
EXTENDS Integers, Sequences, FiniteSets

CONSTANTS
    Slices, Tacs, Rates,
    MaxProvisions, MaxPolicies, MaxTables, MaxIdle, MaxSessions, MaxUnreachable

SelectionBounds ==
    /\ Rates \subseteq Nat \ {0} /\ Rates # {}
    /\ {MaxProvisions, MaxPolicies, MaxTables, MaxIdle, MaxSessions, MaxUnreachable} \subseteq Nat

VARIABLES
    udm,        \* am-data: the subscribed slices and UE-AMBR
    pcf,        \* the AM policy: UE-AMBR override and RFSP
    nssf,       \* the slices each provisioned tracking area deploys
    ctx,        \* the UE context
    ran, ue,    \* what the RAN enforces, what the UE was told
    notes,      \* SDM notifications being handled
    cmds, n2,   \* the association's commands, its downlink
    spent

vars == <<udm, pcf, nssf, ctx, ran, ue, notes, cmds, n2, spent>>

-----------------------------------------------------------------------------
Unknown == {"unknown"}          \* no allowed NSSAI: the am-data could not be read
Spend(what) == spent' = [spent EXCEPT ![what] = @ + 1]
Keep == [do |-> "keep"]
Set(v) == [do |-> "set", v |-> v]
Clear == [do |-> "clear"]

\* FieldUpdate::apply.
Apply(d, old) == IF d.do = "keep" THEN old ELSE IF d.do = "clear" THEN 0 ELSE d.v

Policies == [rate : Rates \cup {0}, rfsp : {0, 1}]
NoPolicy == [rate |-> Keep, rfsp |-> Keep]

\* The PCF's override, else the subscribed rate.
recompute_ue_ambr(c) == [c EXCEPT !.rate = IF c.pcfRate # 0 THEN c.pcfRate ELSE c.subRate]

Init ==
    /\ udm = [nssai |-> Slices, rate |-> CHOOSE r \in Rates : TRUE]
    /\ pcf \in Policies
    /\ nssf \in UNION {[T -> SUBSET Slices] : T \in SUBSET Tacs}
    /\ ctx = [cm |-> "none"]
    /\ ran = [rate |-> 0, rfsp |-> 0] /\ ue = {}
    /\ notes = {} /\ cmds = <<>> /\ n2 = <<>>
    /\ spent = [provisions |-> 0, policies |-> 0, tables |-> 0, idle |-> 0, sessions |-> 0,
                unreachable |-> 0, missed |-> 0]

-----------------------------------------------------------------------------
(* The NSSF.                                                                *)

\* A tracking area without an entry deploys every slice.
Available(tac) == IF tac \in DOMAIN nssf THEN nssf[tac] ELSE Slices

select(tac, requested, subscribed) ==
    LET granted == (IF requested = {} THEN subscribed ELSE requested \cap subscribed) \cap Available(tac)
    IN [allowed |-> granted, rejected |-> requested \ granted]

set_availability(tac, S) ==
    /\ spent.tables < MaxTables /\ Spend("tables")
    /\ nssf' = [t \in DOMAIN nssf \cup {tac} |-> IF t = tac THEN S ELSE nssf[t]]
    /\ UNCHANGED <<udm, pcf, ctx, ran, ue, notes, cmds, n2>>

\* The AMF's own intersection, used when no NSSF answers.
compute_nssai(requested, subscribed) ==
    [allowed |-> IF requested = {} THEN subscribed ELSE requested \cap subscribed,
     rejected |-> requested \ subscribed]

-----------------------------------------------------------------------------
(* Registration: on_security_mode_complete.                                 *)

\* The am-data: no subscribed slice reads as no NSSAI.
fetch_am_data == [nssai |-> IF udm.nssai = {} THEN Unknown ELSE udm.nssai, rate |-> udm.rate]
NoData == [nssai |-> Unknown, rate |-> 0]

\* `out` are the functions that do not answer: "udm", "pcf", "nssf".  Without the PCF the
\* subscription is in force alone; without the NSSF every subscribed slice counts as deployed.
create_am_policy(out) == IF "pcf" \in out THEN [rate |-> 0, rfsp |-> 0] ELSE pcf

select_slices(tac, requested, subscribed, out) ==
    IF "nssf" \in out THEN compute_nssai(requested, subscribed) ELSE select(tac, requested, subscribed)

on_security_mode_complete(tac, requested, out) ==
    /\ ctx.cm = "none"
    /\ spent' = [spent EXCEPT !.unreachable = @ + Cardinality(out)]
    /\ spent'.unreachable <= MaxUnreachable
    /\ LET data == IF "udm" \in out THEN NoData ELSE fetch_am_data
           policy == create_am_policy(out)
           decision == IF data.nssai = Unknown THEN [allowed |-> {}, rejected |-> {}]
                       ELSE select_slices(tac, requested, data.nssai, out)
           c == [cm |-> "connected", tac |-> tac, selected |-> "nssf" \notin out,
                 allowed |-> IF data.nssai = Unknown THEN Unknown ELSE decision.allowed,
                 subRate |-> data.rate, pcfRate |-> policy.rate, rate |-> 0, rfsp |-> policy.rfsp,
                 ses |-> {}, releasing |-> {}, pending |-> NoPolicy, policy |-> "pcf" \notin out]
       IN IF data.nssai # Unknown /\ decision.allowed = {}
          THEN UNCHANGED <<ctx, n2>>                        \* Registration Reject #62
          ELSE /\ ctx' = recompute_ue_ambr(c)
               /\ n2' = Append(n2, [k |-> "context", rate |-> ctx'.rate, rfsp |-> c.rfsp,
                                    allowed |-> decision.allowed])
    /\ UNCHANGED <<udm, pcf, nssf, ran, ue, notes, cmds>>

\* A session names its slice; one outside the allowed NSSAI is rejected.
Establish(s) ==
    /\ ctx.cm = "connected" /\ spent.sessions < MaxSessions
    /\ ctx.allowed # Unknown => s \in ctx.allowed
    /\ ctx' = [ctx EXCEPT !.ses = @ \cup {s}]
    /\ Spend("sessions")
    /\ UNCHANGED <<udm, pcf, nssf, ran, ue, notes, cmds, n2>>

\* The network release of a session ends.
Released(s) ==
    /\ ctx.cm = "connected" /\ s \in ctx.releasing
    /\ ctx' = [ctx EXCEPT !.ses = @ \ {s}, !.releasing = @ \ {s}]
    /\ UNCHANGED <<udm, pcf, nssf, ran, ue, notes, cmds, n2, spent>>

-----------------------------------------------------------------------------
(* Changes of the subscription.                                             *)

\* The operator changes the am-data; the UDM notifies the AMF.
Provision(S, r) ==
    /\ spent.provisions < MaxProvisions /\ Spend("provisions")
    /\ ctx.cm # "none"
    /\ udm' = [nssai |-> S, rate |-> r] /\ udm' # udm
    /\ notes' = notes \cup {[n |-> spent'.provisions, at |-> "posted"]}
    /\ UNCHANGED <<pcf, nssf, ctx, ran, ue, cmds, n2>>

\* sdm_notify reads the am-data, if the UE is connected ...
SdmRead(note) ==
    /\ note.at = "posted"
    /\ notes' = (notes \ {note}) \cup
         (IF ctx.cm = "connected" THEN {[n |-> note.n, at |-> "read", data |-> fetch_am_data]} ELSE {})
    /\ UNCHANGED <<udm, pcf, nssf, ctx, ran, ue, cmds, n2, spent>>

\* ... and posts it to the association.
SdmPost(note) ==
    /\ note.at = "read"
    /\ notes' = notes \ {note}
    /\ cmds' = Append(cmds, [k |-> "subscribed", data |-> note.data])
    /\ UNCHANGED <<udm, pcf, nssf, ctx, ran, ue, n2, spent>>

Command(k) == cmds # <<>> /\ Head(cmds).k = k /\ cmds' = Tail(cmds)

ToRelease(c, nssai) == {s \in c.ses : s \notin nssai}

\* A changed effective rate goes to the RAN, a changed NSSAI to the UE; sessions on
\* slices that are no longer allowed are released.  A command for a UE that went idle
\* finds no context.
on_sdm_data_change ==
    /\ Command("subscribed")
    /\ LET d == Head(cmds).data
           c == IF d.rate \in {0, ctx.subRate} THEN ctx
                ELSE recompute_ue_ambr([ctx EXCEPT !.subRate = d.rate])
           changed == d.nssai # Unknown /\ ctx.allowed # d.nssai
           rate == IF c.rate # ctx.rate THEN <<[k |-> "modify", rate |-> c.rate, rfsp |-> c.rfsp]>> ELSE <<>>
           nssai == IF changed THEN <<[k |-> "update", allowed |-> d.nssai]>> ELSE <<>>
       IN IF ctx.cm # "connected" THEN UNCHANGED <<ctx, n2>>
          ELSE /\ n2' = n2 \o rate \o nssai
               /\ ctx' = IF changed
                         THEN [c EXCEPT !.allowed = d.nssai, !.releasing = @ \cup ToRelease(c, d.nssai)]
                         ELSE c
    /\ UNCHANGED <<udm, pcf, nssf, ran, ue, notes, spent>>

-----------------------------------------------------------------------------
(* Changes of the AM policy.                                                *)

Delta(old, new) == IF old = new THEN Keep ELSE IF new = 0 THEN Clear ELSE Set(new)

Updated(c, d) == recompute_ue_ambr([c EXCEPT !.pcfRate = Apply(d.rate, @), !.rfsp = Apply(d.rfsp, @)])

\* The PCF notifies what changed; a CM-IDLE UE's context holds the latest
\* notification until it returns.
am_policy_notify(p) ==
    /\ spent.policies < MaxPolicies /\ Spend("policies")
    /\ ctx.cm # "none" /\ ctx.policy
    /\ p # pcf /\ pcf' = p
    /\ LET d == [rate |-> Delta(pcf.rate, p.rate), rfsp |-> Delta(pcf.rfsp, p.rfsp)] IN
        IF ctx.cm = "connected"
        THEN cmds' = Append(cmds, [k |-> "policy", d |-> d]) /\ UNCHANGED ctx
        ELSE ctx' = [ctx EXCEPT !.pending = d] /\ UNCHANGED cmds
    /\ UNCHANGED <<udm, nssf, ran, ue, notes, n2>>

\* Mutant: the effective rate is not worked out again.
on_am_policy_updateRaw ==
    /\ Command("policy")
    /\ IF ctx.cm # "connected" THEN UNCHANGED <<ctx, n2>>
       ELSE /\ ctx' = [ctx EXCEPT !.pcfRate = Apply(Head(cmds).d.rate, @), !.rfsp = Apply(Head(cmds).d.rfsp, @)]
            /\ n2' = Append(n2, [k |-> "modify", rate |-> ctx'.rate, rfsp |-> ctx'.rfsp])
    /\ UNCHANGED <<udm, pcf, nssf, ran, ue, notes, spent>>

on_am_policy_update ==
    /\ Command("policy")
    /\ IF ctx.cm # "connected" THEN Spend("missed") /\ UNCHANGED <<ctx, n2>>
       ELSE /\ ctx' = Updated(ctx, Head(cmds).d)
            /\ n2' = Append(n2, [k |-> "modify", rate |-> ctx'.rate, rfsp |-> ctx'.rfsp])
            /\ UNCHANGED spent
    /\ UNCHANGED <<udm, pcf, nssf, ran, ue, notes>>

-----------------------------------------------------------------------------
\* AN release, once the downlink is through.
GoIdle ==
    /\ ctx.cm = "connected" /\ n2 = <<>> /\ spent.idle < MaxIdle
    /\ Spend("idle")
    /\ ctx' = [ctx EXCEPT !.cm = "idle"]
    /\ ran' = [rate |-> 0, rfsp |-> 0]
    /\ UNCHANGED <<udm, pcf, nssf, ue, notes, cmds, n2>>

\* The UE returns in `tac`, with a Service Request or a registration update.  The
\* context setup has the context's values, the update's accept its allowed NSSAI; then
\* the held policy change is applied.
on_service_request(tac, update) ==
    /\ ctx.cm = "idle"
    /\ LET c == [ctx EXCEPT !.cm = "connected", !.tac = tac, !.pending = NoPolicy]
           setup == [k |-> IF update /\ c.allowed # Unknown THEN "context" ELSE "service",
                     rate |-> c.rate, rfsp |-> c.rfsp, allowed |-> c.allowed]
       IN IF ctx.pending = NoPolicy THEN ctx' = c /\ n2' = Append(n2, setup)
          ELSE /\ ctx' = Updated(c, ctx.pending)
               /\ n2' = n2 \o <<setup, [k |-> "modify", rate |-> ctx'.rate, rfsp |-> ctx'.rfsp]>>
    /\ UNCHANGED <<udm, pcf, nssf, ran, ue, notes, cmds, spent>>

\* A message carries no value there is none of, and the RAN keeps what it has.
Took(new, old) == IF new = 0 THEN old ELSE new

\* The RAN and the UE take what the AMF sends.
Deliver ==
    /\ n2 # <<>> /\ n2' = Tail(n2)
    /\ LET m == Head(n2) IN
        /\ ran' = IF m.k \in {"context", "service", "modify"}
                  THEN [rate |-> Took(m.rate, ran.rate), rfsp |-> Took(m.rfsp, ran.rfsp)] ELSE ran
        /\ ue' = IF m.k \in {"context", "update"} THEN m.allowed ELSE ue
    /\ UNCHANGED <<udm, pcf, nssf, ctx, notes, cmds, spent>>

Next ==
    \/ \E tac \in Tacs, R \in SUBSET Slices, out \in SUBSET {"udm", "pcf", "nssf"} :
            on_security_mode_complete(tac, R, out)
    \/ \E s \in Slices : Establish(s) \/ Released(s)
    \/ \E tac \in Tacs, S \in SUBSET Slices : set_availability(tac, S)
    \/ \E S \in SUBSET Slices, r \in Rates : Provision(S, r)
    \/ \E note \in notes : SdmRead(note) \/ SdmPost(note)
    \/ \E p \in Policies : am_policy_notify(p)
    \/ \E tac \in Tacs, update \in BOOLEAN : on_service_request(tac, update)
    \/ on_sdm_data_change \/ on_am_policy_update \/ GoIdle \/ Deliver

Spec == Init /\ [][Next]_vars

-----------------------------------------------------------------------------
Settled == ctx.cm = "connected" /\ n2 = <<>> /\ cmds = <<>> /\ notes = {}

Effective == IF ctx.pcfRate # 0 THEN ctx.pcfRate ELSE ctx.subRate

\* When nothing is on its way the RAN enforces the PCF's rate, or without one the
\* subscribed one the AMF knows, and the RFSP in force, whatever changed last,
\* subscription or policy, connected or idle (on_sdm_data_change, on_am_policy_update).
\* Where no rate or no RFSP is in force it says nothing: see WithdrawnIsLifted.
RanEnforcesEffective ==
    Settled => /\ ctx.rfsp # 0 => ran.rfsp = ctx.rfsp
               /\ Effective # 0 => ran.rate = Effective

\* "signal RFSP + UE-AMBR to the RAN": a value the PCF withdrew is lifted there as well
\* (on_am_policy_update).
WithdrawnIsLifted == Settled => (ctx.rfsp = 0 => ran.rfsp = 0) /\ (Effective = 0 => ran.rate = 0)

\* A session's slice is one the AMF allows, or the session is being released
\* (UL NAS Transport, on_sdm_data_change); the UE knows the allowed NSSAI
\* (push_tracked_config_update, Registration Accept).
SlicesAreAllowed ==
    ctx.cm # "none" /\ ctx.allowed # Unknown =>
        /\ ctx.ses \ ctx.releasing \subseteq ctx.allowed
        /\ Settled => ue = ctx.allowed

\* Registration grants slices that are subscribed and deployed where the UE is; every
\* other one it asked for is rejected (select, on_security_mode_complete).
GrantsDeployed ==
    ctx.cm = "none" /\ ctx'.cm = "connected" /\ ctx'.allowed # Unknown /\ ctx'.selected
        => ctx'.allowed # {} /\ ctx'.allowed \subseteq udm.nssai \cap Available(ctx'.tac)

(* The inductive invariant of the two properties above. *)

Nssai == {Unknown} \cup SUBSET Slices
Changes == {Keep, Clear} \cup [do : {"set"}, v : Nat]
Downlink == [k : {"context", "service"}, rate : Nat, rfsp : Nat, allowed : Nssai]
            \cup [k : {"modify"}, rate : Nat, rfsp : Nat] \cup [k : {"update"}, allowed : Nssai]

Contexts == [cm : {"connected", "idle"}, tac : Tacs, selected : BOOLEAN, allowed : Nssai,
             subRate : Nat, pcfRate : Nat, rate : Nat, rfsp : Nat, ses : SUBSET Slices,
             releasing : SUBSET Slices, pending : [rate : Changes, rfsp : Changes], policy : BOOLEAN]
AmData == [nssai : Nssai, rate : Nat]
Commands == [k : {"subscribed"}, data : AmData] \cup [k : {"policy"}, d : [rate : Changes, rfsp : Changes]]

SelectionTypes ==
    /\ udm \in [nssai : SUBSET Slices, rate : Nat] /\ pcf \in [rate : Nat, rfsp : Nat]
    /\ ctx.cm = "none" \/ ctx \in Contexts
    /\ \A note \in notes : note.at = "read" => note.data \in AmData
    /\ cmds \in Seq(Commands) /\ n2 \in Seq(Downlink)

RanHears(m) == m.k \in {"context", "service", "modify"}
UeHears(m) == m.k \in {"context", "update"}

RanTold(m, f) == RanHears(m) /\ m[f] # 0

\* What the RAN enforces is c's once the messages s are through, of the values c has: the
\* last message to tell it says so, or there is none and r is c's already; so with the UE
\* and the allowed NSSAI.
RanFollows(s, r, c) ==
    \A f \in {"rate", "rfsp"} : c[f] # 0 =>
        /\ \A i \in DOMAIN s : RanTold(s[i], f) /\ (\A j \in DOMAIN s : j > i => ~RanTold(s[j], f)) =>
                s[i][f] = c[f]
        /\ (\A i \in DOMAIN s : ~RanTold(s[i], f)) => r[f] = c[f]
UeFollows(s, u, nssai) ==
    /\ \A i \in DOMAIN s : UeHears(s[i]) /\ (\A j \in DOMAIN s : j > i => ~UeHears(s[j])) =>
            s[i].allowed = nssai
    /\ (\A i \in DOMAIN s : ~UeHears(s[i])) => u = nssai

InForce(c) == c.rate = IF c.pcfRate # 0 THEN c.pcfRate ELSE c.subRate

SelectionIInv ==
    /\ SelectionTypes
    /\ ctx.cm = "none" => cmds = <<>> /\ notes = {}
    /\ ctx.cm # "connected" => n2 = <<>>
    /\ ctx.cm = "connected" => RanFollows(n2, ran, ctx)
    /\ ctx.cm # "none" => InForce(ctx)
    /\ ctx.cm # "none" /\ ctx.allowed # Unknown =>
        ctx.ses \ ctx.releasing \subseteq ctx.allowed /\ UeFollows(n2, ue, ctx.allowed)

\* "A slice must be both subscribed and available": what the AMF allows is deployed
\* where the UE registered, while the NSSF's table stays (on_sdm_data_change).
AllowedIsDeployed ==
    ctx.cm # "none" /\ ctx.allowed # Unknown /\ ctx.selected => ctx.allowed \subseteq Available(ctx.tac)

\* A change of the subscription while the UE is CM-IDLE is read at its next
\* registration (sdm_notify).
RefetchedAtRegistration ==
    [][ctx.cm = "idle" /\ ctx'.cm = "connected" /\ n2'[1].k = "context" /\ notes = {} /\ cmds = <<>> =>
        ctx'.subRate = udm.rate]_vars

\* A policy change for a CM-IDLE UE is held, and applied when it resumes
\* (am_policy_notify, on_service_request).
HeldPolicyIsApplied ==
    Settled /\ ctx.policy /\ spent.missed = 0 => ctx.pcfRate = pcf.rate /\ ctx.rfsp = pcf.rfsp

\* With every notification handled the context has the current subscription (sdm_notify).
ViewIsCurrent == Settled /\ spent.unreachable = 0 => ctx.subRate = udm.rate
=============================================================================
