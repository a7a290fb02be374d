------------------------------ MODULE SmfChain ------------------------------
(***************************************************************************)
(* One PDU session over several UPFs: an anchor, an intermediate UPF in    *)
(* front of it that holds the gNB tunnel, and a breakout anchor the        *)
(* intermediate UPF steers one destination prefix to (establish_chain,     *)
(* insert_breakout, remove_breakout, reconcile_influence_breakout,         *)
(* indirect_forwarding and the callers in nf/nf-smf/src/pdu_session.rs).   *)
(*                                                                         *)
(* Every request is a task; contexts is locked only between two awaits, so *)
(* a step is one N4 exchange, or one visit to the context.  A task works   *)
(* on the copy of the context it took when it began.  The AMF asks for one *)
(* thing at a time about a session; OAM, the NEF and the PCF ask on their  *)
(* own.  An N4 exchange is one datagram each way: the request may be lost, *)
(* or done and its answer lost.  A session asked about that the UPF does   *)
(* not have is refused.                                                    *)
(***************************************************************************)
EXTENDS Integers, FiniteSets, Functions, TLC

CONSTANTS
    Others,        \* tasks of callers other than the AMF
    Gnbs,          \* gNB tunnels
    Routes,        \* AF influences: a prefix and the UP node its DNAI names
    StaticRoute,   \* whether the DNN may own a breakout route in the topology: a set of BOOLEAN
    Serial,        \* whether callers wait for one another
    Forwarding,    \* whether handovers with indirect forwarding happen
    MaxOps,        \* bound: requests
    MaxFaults,     \* bound: failed exchanges, any of them
    None

ChainAssumption ==
    /\ {MaxOps, MaxFaults} \subseteq Nat /\ StaticRoute \subseteq BOOLEAN
    /\ {Serial, Forwarding} \subseteq BOOLEAN /\ "amf" \notin Others /\ None \notin Routes \cup Gnbs

VARIABLES
    ctx,       \* the SM context, and whether there is one
    n4,        \* N4 sessions at the UPFs: up_seid -> its role and where its downlink goes
    branch,    \* the session the classifier's branch leads to, 0 if it has none
    pcf,       \* the influence the PCF's decision carries now
    static,    \* the session's DNN owns a breakout route
    task,      \* what each task does
    seids,     \* up_seids given
    ops, faults,
    astray     \* N4 sessions that a task gave up without knowing whether the UPF has them

vars == <<ctx, n4, branch, pcf, static, task, seids, ops, faults, astray>>

Tasks == Others \cup {"amf"}
\* A breakout: its N4 session, the route it serves, and who asked for it, which the code
\* keeps no record of but policy_breakout.
NoBreakout == [id |-> 0, by |-> "none", route |-> None]
NoContext == [st |-> "none", anchor |-> 0, leg |-> 0, breakout |-> NoBreakout, policy |-> None,
              policy_breakout |-> FALSE, gnb |-> None, indirect_fwd |-> 0]
\* A task: the step it is at, for whom, its copy of the context, and what it is building.
Idle == [pc |-> "idle", by |-> "none", c |-> NoContext, new |-> 0, route |-> None, gnb |-> None]
AllIdle == \A t \in Tasks : task[t].pc = "idle"
Live == ctx.st = "live"

Init ==
    /\ ctx = NoContext /\ n4 = <<>> /\ branch = 0 /\ pcf \in Routes \cup {None}
    /\ static \in StaticRoute
    /\ task = [t \in Tasks |-> Idle] /\ seids = 0 /\ ops = 0 /\ faults = 0
    /\ astray = {}

----------------------------------------------------------------------------
(* Tasks and N4 exchanges *)

\* A request comes in: task t starts at step pc with a copy of the context.
Begin(t, pc, by, with) ==
    /\ task[t].pc = "idle" /\ ops < MaxOps /\ (Serial => AllIdle)
    /\ ops' = ops + 1
    /\ task' = [task EXCEPT ![t] = with @@ [Idle EXCEPT !.pc = pc, !.by = by, !.c = ctx]]

At(t, pc) == task[t].pc = pc
\* A task that has answered forgets what it worked with.
Stepped(r, pc) == IF pc = "idle" THEN Idle ELSE [r EXCEPT !.pc = pc]
Goto(t, pc) == task' = [task EXCEPT ![t] = Stepped(@, pc)]

\* transact: it succeeds, its request is lost, or its answer is.
Outcomes == {"ok"} \cup IF faults < MaxFaults THEN {"lost", "unheard"} ELSE {}
Fails(o) == faults' = faults + (IF o = "ok" THEN 0 ELSE 1)
GivesUp(ids) == astray' = astray \cup ids

\* Session Establishment: a new up_seid, or none; one whose answer is lost the SMF never
\* learns of.  The intermediate UPF's comes with the branch of a static route.
Establish(t, role, next, fail) ==
    \E o \in Outcomes :
        /\ Fails(o)
        /\ IF o = "lost" THEN UNCHANGED <<n4, seids>>
           ELSE seids' = seids + 1 /\ n4' = n4 @@ (seids + 1 :> [role |-> role, dl |-> "none"])
        /\ GivesUp(IF o = "unheard" THEN {seids'} ELSE {})
        /\ task' = [task EXCEPT ![t] =
              LET made == CASE role = "anchor" -> [@ EXCEPT !.c.anchor = seids']
                            [] role = "iupf" -> [@ EXCEPT !.c.leg = seids']
                            [] OTHER -> [@ EXCEPT !.new = seids']
              IN IF o = "ok" THEN Stepped(made, next) ELSE Stepped(@, fail)]
        /\ branch' = IF role = "iupf" /\ static /\ o # "lost" THEN task[t].new ELSE branch
        /\ UNCHANGED ctx

\* Session Modification of a downlink FAR (point_downlink_at, deactivation).
Point(t, id, dl, next, fail) ==
    \E o \in Outcomes :
        /\ Fails(o)
        /\ n4' = IF o # "lost" /\ id \in DOMAIN n4 THEN [n4 EXCEPT ![id].dl = dl] ELSE n4
        /\ Goto(t, IF o = "ok" /\ id \in DOMAIN n4 THEN next ELSE fail)
        /\ UNCHANGED <<ctx, branch, seids, astray>>

\* Session Modification of the classifier's one branch.  One that leads to a session which
\* the task takes for not added and deletes is astray with it.
Classify(t, to, next, fail) ==
    \E o \in Outcomes :
        LET there == task[t].c.leg \in DOMAIN n4 IN
        /\ Fails(o)
        /\ branch' = IF o # "lost" /\ there THEN to ELSE branch
        /\ GivesUp(IF o = "unheard" /\ there THEN {to} \ {0} ELSE {})
        /\ Goto(t, IF o = "ok" /\ there THEN next ELSE fail)
        /\ UNCHANGED <<ctx, n4, seids>>

\* Session Deletion; the intermediate UPF's takes its branch with it.  A refusal is an answer:
\* the session is not there.  Without one the task keeps to its copy, or gives the session up.
Delete(t, id, next, fail, unanswered) ==
    \E o \in Outcomes :
        /\ Fails(o)
        /\ n4' = IF o # "lost" THEN Restrict(n4, DOMAIN n4 \ {id}) ELSE n4
        /\ branch' = IF o # "lost" /\ id = task[t].c.leg THEN 0 ELSE branch
        /\ GivesUp(IF o = "ok" THEN {} ELSE unanswered)
        /\ Goto(t, IF o = "ok" THEN next ELSE fail)
        /\ UNCHANGED <<ctx, seids>>

\* A visit to the context, if it is still there.
Store(t, with, next) ==
    /\ ctx' = IF Live THEN with @@ ctx ELSE ctx
    /\ Goto(t, next) /\ UNCHANGED <<n4, branch, seids, faults, astray>>

Kept == UNCHANGED <<pcf, static, ops>>

----------------------------------------------------------------------------
(* create_sm_context: anchor, breakout anchor, intermediate UPF, then both downlinks *)

\* An address is taken for the session, and the anchor is asked first.
create_sm_context ==
    /\ ctx.st = "none"
    /\ Begin("amf", "cEst", "amf", <<>>)
    /\ ctx' = [ctx EXCEPT !.st = "making"]
    /\ UNCHANGED <<n4, branch, pcf, static, seids, faults, astray>>

establish_chainAll ==
    \/ At("amf", "cEst") /\ Establish("amf", "anchor", IF static THEN "cPsa" ELSE "cIupf", "cFree")
    \/ At("amf", "cPsa") /\ Establish("amf", "psa", "cIupf", "cUndo")
    \/ At("amf", "cIupf") /\ Establish("amf", "iupf", "cAnchor", "cUndo")
    \/ At("amf", "cAnchor") /\ Point("amf", task["amf"].c.anchor, "ingress", IF static THEN "cPoint" ELSE "cStore", "cUndo")
    \/ At("amf", "cPoint") /\ Point("amf", task["amf"].new, "ingress", "cStore", "cUndo")

establish_chain == establish_chainAll /\ Kept

\* The anchor alone is rolled back; whether it answers is ignored.
RollBack ==
    LET anchor == task["amf"].c.anchor IN
    At("amf", "cUndo") /\ Delete("amf", anchor, "cFree", "cFree", {anchor}) /\ Kept

\* The lease is dropped: the address goes back to the pool.  What there is of the chain stays.
FreeAddress ==
    /\ At("amf", "cFree") /\ Kept
    /\ ctx' = [ctx EXCEPT !.st = "gone"]
    /\ GivesUp({task["amf"].new, task["amf"].c.leg} \ {0})
    /\ Goto("amf", "idle") /\ UNCHANGED <<n4, branch, seids, faults>>

\* The context is stored with the influence the PCF's decision carried; it is reconciled next.
StoreContext ==
    /\ At("amf", "cStore") /\ Kept
    /\ LET t == task["amf"]
           made == [t.c EXCEPT !.st = "live", !.policy = pcf,
                        !.breakout = IF static THEN [id |-> t.new, by |-> "config", route |-> None] ELSE @]
       IN ctx' = made
    /\ Goto("amf", "decide") /\ UNCHANGED <<n4, branch, seids, faults, astray>>

----------------------------------------------------------------------------
(* A breakout put in and taken out of a live session *)

\* oam_breakout: the caller finds the session and the handler copies it.
oam_breakout(t, r) ==
    /\ Live /\ ctx.breakout.id = 0
    /\ Begin(t, "iEst", "oam", [route |-> r]) /\ UNCHANGED <<ctx, n4, branch, pcf, static, seids, faults, astray>>

oam_remove(t) ==
    /\ Live /\ ctx.breakout.id # 0
    /\ Begin(t, "xBranch", "oam", <<>>) /\ UNCHANGED <<ctx, n4, branch, pcf, static, seids, faults, astray>>

\* Where policy has put a breakout in or taken one out, it records that it owns it, or no more.
AfterInsert(t) == IF task[t].by = "oam" THEN "idle" ELSE "iOwn"
AfterRemove(t) == IF task[t].by = "oam" THEN "idle" ELSE "xOwn"

insert_breakout(t) ==
    \/ At(t, "iEst") /\ Establish(t, "psa", "iPoint", "idle")
    \/ At(t, "iPoint") /\ Point(t, task[t].new, "ingress", "iBranch", "iUndo")
    \/ At(t, "iBranch") /\ Classify(t, task[t].new, "iStore", "iUndo")
    \/ At(t, "iUndo") /\ Delete(t, task[t].new, "idle", "idle", {task[t].new})
    \/ At(t, "iStore") /\ Store(t, [breakout |-> [id |-> task[t].new, by |-> task[t].by, route |-> task[t].route]],
                                AfterInsert(t))

\* Mutant: the breakout anchor goes before the branch that leads to it.
remove_breakoutAnchorFirst(t) ==
    \/ At(t, "xBranch") /\ Delete(t, task[t].c.breakout.id, "xDel", "xDel", {task[t].c.breakout.id})
    \/ At(t, "xDel") /\ Classify(t, 0, "xClear", "idle")
    \/ At(t, "xClear") /\ Store(t, [breakout |-> NoBreakout], AfterRemove(t))

remove_breakout(t) ==
    \/ At(t, "xBranch") /\ Classify(t, 0, "xDel", "idle")
    \/ At(t, "xDel") /\ Delete(t, task[t].c.breakout.id, "xClear", "xClear", {task[t].c.breakout.id})
    \/ At(t, "xClear") /\ Store(t, [breakout |-> NoBreakout], AfterRemove(t))

OwnBreakout(t) ==
    \/ At(t, "iOwn") /\ Store(t, [policy_breakout |-> TRUE], "idle")
    \/ At(t, "xOwn") /\ Store(t, [policy_breakout |-> FALSE], "idle")

----------------------------------------------------------------------------
(* refresh_sm_policy and reconcile_influence_breakout *)

\* The PCF's answer is read at one moment ...
refresh_sm_policy(t) ==
    /\ Live /\ Begin(t, "rStore", "policy", [route |-> pcf])
    /\ UNCHANGED <<ctx, n4, branch, pcf, static, seids, faults, astray>>

\* ... and stored after the N4 exchanges for its QoS.
StorePolicy(t) == At(t, "rStore") /\ Store(t, [policy |-> task[t].route], "decide")

\* The context is copied again; a static route's breakout is left alone.
reconcile_influence_breakout(t) ==
    /\ At(t, "decide") /\ UNCHANGED <<ctx, n4, branch, seids, faults, astray>>
    /\ LET wanted == ctx.policy
           next == IF ~Live \/ static THEN "idle"
                   ELSE IF wanted # None /\ ctx.breakout.id = 0 THEN "iEst"
                   ELSE IF wanted = None /\ ctx.breakout.id # 0 /\ ctx.policy_breakout THEN "xBranch"
                   ELSE "idle"
       IN task' = [task EXCEPT ![t] = Stepped([@ EXCEPT !.by = "policy", !.c = ctx, !.route = wanted], next)]

\* An AF changes its mind (NefInfluence, PcfPolicy).
Influence(r) ==
    /\ ops < MaxOps /\ r # pcf /\ ops' = ops + 1 /\ pcf' = r
    /\ UNCHANGED <<ctx, n4, branch, static, task, seids, faults, astray>>

----------------------------------------------------------------------------
(* The AMF's requests: activation, AN release, indirect forwarding, release *)

AmfAsks(pc, with) == Live /\ Begin("amf", pc, "amf", with) /\ UNCHANGED <<ctx, n4, branch, pcf, static, seids, faults, astray>>

update_sm_context == \E g \in Gnbs : AmfAsks("aIupf", [gnb |-> g])

\* The RAN-facing hop first, then the anchor, then the breakout anchor if the copy has one.
Activate ==
    LET t == task["amf"] IN
    \/ At("amf", "aIupf") /\ Point("amf", t.c.leg, t.gnb, "aAnchor", "idle")
    \/ At("amf", "aAnchor") /\ Point("amf", t.c.anchor, "ingress", IF t.c.breakout.id = 0 THEN "aStore" ELSE "aPsa", "idle")
    \/ At("amf", "aPsa") /\ Point("amf", t.c.breakout.id, "ingress", "aStore", "idle")
    \/ At("amf", "aStore") /\ Store("amf", [gnb |-> t.gnb], "idle")

deactivate_up == AmfAsks("dAnchor", <<>>)

\* A breakout anchor that does not accept is only warned about.
Deactivate ==
    LET t == task["amf"] IN
    \/ At("amf", "dAnchor") /\ Point("amf", t.c.anchor, "parked", IF t.c.breakout.id = 0 THEN "dStore" ELSE "dPsa", "idle")
    \/ At("amf", "dPsa") /\ Point("amf", t.c.breakout.id, "parked", "dStore", "dStore")
    \/ At("amf", "dStore") /\ Store("amf", [gnb |-> None], "idle")

\* Setting a tunnel up; taking one down takes its up_seid out of the context first.
indirect_forwarding == Forwarding /\ AmfAsks("fEst", <<>>)
ForwardingSetup ==
    \/ At("amf", "fEst") /\ Establish("amf", "fwd", "fStore", "idle")
    \/ At("amf", "fStore") /\ Store("amf", [indirect_fwd |-> task["amf"].new], "idle")

ForwardingRelease ==
    /\ Forwarding /\ Live /\ ctx.indirect_fwd # 0 /\ Begin("amf", "fDel", "amf", [new |-> ctx.indirect_fwd])
    /\ ctx' = [ctx EXCEPT !.indirect_fwd = 0]
    /\ UNCHANGED <<n4, branch, pcf, static, seids, faults, astray>>
ForwardingDeleted == At("amf", "fDel") /\ Delete("amf", task["amf"].new, "idle", "idle", {task["amf"].new})

release_sm_context == AmfAsks("tAnchor", <<>>)

\* The context is kept if the anchor does not answer; the other legs are best effort.
teardown_sm_context ==
    LET c == task["amf"].c
        rest == IF c.breakout.id = 0 THEN "tStore" ELSE "tPsa"
    IN
    \/ At("amf", "tAnchor") /\ Delete("amf", c.anchor, "tIupf", "idle", {})
    \/ At("amf", "tIupf") /\ Delete("amf", c.leg, rest, rest, {c.leg})
    \/ At("amf", "tPsa") /\ Delete("amf", c.breakout.id, "tStore", "tStore", {c.breakout.id})
    \/ At("amf", "tStore") /\ Store("amf", [st |-> "gone"], "idle")

----------------------------------------------------------------------------
Next ==
    \/ create_sm_context \/ establish_chain \/ RollBack \/ FreeAddress \/ StoreContext
    \/ \E t \in Others :
        \/ \E r \in Routes : oam_breakout(t, r)
        \/ oam_remove(t) \/ refresh_sm_policy(t)
        \/ StorePolicy(t) /\ Kept
    \/ \E t \in Tasks :
        (insert_breakout(t) \/ remove_breakout(t) \/ OwnBreakout(t) \/ reconcile_influence_breakout(t)) /\ Kept
    \/ \E r \in Routes \cup {None} : Influence(r)
    \/ update_sm_context \/ deactivate_up \/ release_sm_context
    \/ indirect_forwarding \/ ForwardingRelease
    \/ (Activate \/ Deactivate \/ ForwardingSetup \/ ForwardingDeleted \/ teardown_sm_context) /\ Kept

Spec == Init /\ [][Next]_vars

----------------------------------------------------------------------------
(* Properties *)

\* Every variable holds what the code's types allow, and up_seids are the UPF's own.
TypeOK ==
    /\ ctx.st \in {"none", "making", "live", "gone"} /\ ctx.gnb \in Gnbs \cup {None}
    /\ ctx.policy \in Routes \cup {None} /\ ctx.policy_breakout \in BOOLEAN
    /\ DOMAIN n4 \subseteq 1 .. seids /\ branch \in 0 .. seids
    /\ \A i \in DOMAIN n4 : n4[i].role \in {"anchor", "iupf", "psa", "fwd"}
                            /\ n4[i].dl \in {"none", "ingress", "parked"} \cup Gnbs
    /\ pcf \in Routes \cup {None} /\ ops \in 0 .. MaxOps /\ faults \in 0 .. MaxFaults
    /\ astray \subseteq 1 .. seids

\* Uplink the classifier steers away always finds a breakout anchor that is there and whose
\* downlink leads back: insert_breakout adds the branch last and remove_breakout takes it
\* out first, whatever runs at the same time.  Not so while a static chain is being built,
\* where the intermediate UPF or the breakout anchor was given up with no answer about its
\* deletion, and where the Add Branch that put it there was not heard of.
BranchIsServed ==
    branch # 0 /\ ctx.st # "making" =>
        \/ branch \in DOMAIN n4 /\ n4[branch].role = "psa" /\ n4[branch].dl # "none"
        \/ branch \in astray
        \/ \E i \in astray \cap DOMAIN n4 : n4[i].role = "iupf"

\* When the AMF has its answer and the context names a gNB tunnel, the downlink is complete
\* through every hop: anchor and breakout anchor lead to the intermediate UPF, and it to that
\* gNB (update_sm_context, after an AN release, a handover, or beside an insert).  After an
\* exchange that failed it may lead half to the one and half to the other.
ActiveIsConnected ==
    LET open(i) == i \in DOMAIN n4 => n4[i].dl = "ingress" IN
    faults = 0 /\ Live /\ task["amf"].pc = "idle" /\ ctx.gnb # None =>
        /\ n4[ctx.leg].dl = ctx.gnb /\ open(ctx.anchor)
        /\ (ctx.breakout.id # 0 => open(ctx.breakout.id))

Named(i) == Live /\ i \in {ctx.anchor, ctx.leg, ctx.breakout.id, ctx.indirect_fwd}

\* With one caller at a time, and whichever exchange fails, no leg is forgotten but those the
\* SMF gives up without an answer: every N4 session left when nobody is at work is one the
\* live context names, or was established unheard, or its deletion was not answered and the
\* code went on (insert_breakout's undo, remove_breakout, teardown_sm_context's legs behind
\* the anchor, the rollback), or it is what a failed establish_chain leaves behind.
LegsAreNamed == AllIdle => \A i \in DOMAIN n4 : Named(i) \/ i \in astray

\* Whoever runs at the same time, anchor and intermediate UPF are not forgotten.  (Breakout
\* anchors and forwarding tunnels are: BreakoutIsNamed, ForwardingIsNamed.)
ChainIsNamed == AllIdle => \A i \in DOMAIN n4 : n4[i].role \in {"anchor", "iupf"} => Named(i) \/ i \in astray

\* A UE address goes back to the pool while an anchor still uses it only where the session
\* was never made: an establishment or a rollback without an answer.  teardown keeps the
\* context of an anchor that did not answer, whoever inserts or removes meanwhile.
FreedAddressIsFree == ctx.st = "gone" => \A i \in DOMAIN n4 : n4[i].role = "anchor" => i \in astray

(* The following are refuted: what a comment says, and the code does not do. *)

\* An establishment that fails leaves no anchor: "the lease frees the allocated address(es)
\* back to the pool on any early return" (create_sm_context), with the anchor in place.
AddressGoesUnused == ctx.st = "gone" => \A i \in DOMAIN n4 : n4[i].role # "anchor"

\* "Don't leave a half-built chain behind: tear the anchor session down and fail the
\* establishment" (create_sm_context): a refused establishment leaves no N4 session.
NoHalfBuiltChain == AllIdle /\ ctx.st = "gone" => DOMAIN n4 = {}

\* "Park the breakout anchor's downlink too, or it would keep forwarding to an I-UPF still
\* pointed at the released gNB tunnel" (deactivate_up): for an idle UE it does not.
IdleIsParked ==
    Live /\ AllIdle /\ ctx.gnb = None /\ ctx.breakout.id \in DOMAIN n4 /\ n4[ctx.leg].dl \in Gnbs
        => n4[ctx.breakout.id].dl # "ingress"

\* "A breakout installed directly ... is not expressed in the policy, so its absence there
\* says nothing about it" (reconcile_influence_breakout): policy takes out only its own.
DirectIsLeftAlone == \A t \in Tasks : At(t, "xBranch") /\ task[t].by = "policy" => task[t].c.breakout.by # "oam"

\* "Bring the session's live ULCL breakout into line with the AF influence its SM policy
\* carries" (reconcile_influence_breakout): the breakout policy owns is the one it asks for.
BreakoutFollowsPolicy ==
    Live /\ AllIdle /\ ctx.policy # None /\ ctx.breakout.by = "policy" => ctx.breakout.route = ctx.policy

\* "Record the breakout on the context so re-activation / release address it"
\* (insert_breakout): a breakout anchor that is up is the one the context names.
BreakoutIsNamed ==
    AllIdle => \A i \in DOMAIN n4 : n4[i].role = "psa" => Live /\ ctx.breakout.id = i

\* "None when no forwarding is in place; released when the handover completes or fails"
\* (SmContext.indirect_fwd): a forwarding session that is up is the one the context names.
ForwardingIsNamed ==
    AllIdle => \A i \in DOMAIN n4 : n4[i].role = "fwd" => Live /\ ctx.indirect_fwd = i
=============================================================================
