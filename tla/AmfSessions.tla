---------------------------- MODULE AmfSessions ----------------------------
(***************************************************************************)
(* The AMF's PDU session leg for one registered UE: sessions established,  *)
(* modified and released over N1/N2, AN release and NG Reset, the return   *)
(* with its PDU Session Status, and the SMF's requests over the SBI.       *)
(*                                                                         *)
(* An association handles one N2 message or command at a time, its SMF     *)
(* calls included; the SBI release of a CM-IDLE UE's session runs beside   *)
(* it.  An SM context is its number, a gNB tunnel too; 0 is no tunnel.     *)
(***************************************************************************)
EXTENDS Integers, Sequences, FiniteSets, Functions

CONSTANTS
    Psis,               \* PDU session identities
    Returns,            \* what a CM-IDLE UE comes back with: "service", "update"
    UeMay,              \* what else the UE sends: "modified", "repeat"
    MaxEstablish, MaxNetwork, MaxConnections, MaxLost, MaxFailed, MaxForgets

SessionBounds ==
    /\ {MaxEstablish, MaxNetwork, MaxConnections, MaxLost, MaxFailed, MaxForgets} \subseteq Nat
    /\ IsFiniteSet(Psis)

VARIABLES
    ctx,        \* the UE context: CM state, AMF-UE-NGAP-ID, sm_refs, releasing
    smf,        \* the SMF's SM contexts
    gnb,        \* the gNB's UE context, and the last tunnel it made
    ue,         \* the UE
    up, down,   \* N2, both ways, NAS included
    cmds,       \* the association's command channel
    guards,     \* release guards under way
    sbi,        \* a release_session of a CM-IDLE UE under way
    astray,     \* SM contexts the AMF lost hold of, and how
    stale,      \* SM contexts whose last user plane update did not reach the SMF
    spent       \* what the bounds count

vars == <<ctx, smf, gnb, ue, up, down, cmds, guards, sbi, astray, stale, spent>>

-----------------------------------------------------------------------------
Put(f, k, v) == [x \in DOMAIN f \cup {k} |-> IF x = k THEN v ELSE f[x]]
Drop(f, S) == [x \in DOMAIN f \ S |-> f[x]]
Keep(f, S) == Drop(f, DOMAIN f \ S)
Nothing == [x \in {} |-> x]
NoSbi == [at |-> "none"]

Spend(what) == spent' = [spent EXCEPT ![what] = @ + 1]
Failing(n) == spent' = [spent EXCEPT !.failed = @ + n] /\ spent'.failed <= MaxFailed
Refs == {ctx.refs[p] : p \in DOMAIN ctx.refs}
Known(id) == ctx.cm = "connected" /\ ctx.id = id

Init ==
    /\ ctx = [cm |-> "connected", id |-> 1, refs |-> Nothing, releasing |-> {}]
    /\ smf = Nothing /\ astray = Nothing /\ stale = {}
    /\ gnb = [id |-> 1, ses |-> Nothing, made |-> 0]
    /\ ue = [cm |-> "connected", ses |-> {}, asked |-> {}]
    /\ up = <<>> /\ down = <<>> /\ cmds = <<>> /\ guards = {} /\ sbi = NoSbi
    /\ spent = [establish |-> 0, network |-> 0, connections |-> 1, lost |-> 0, failed |-> 0,
                forgets |-> 0, refs |-> 0]

-----------------------------------------------------------------------------
(* Nsmf calls.  A release or an update that fails is logged and passed by.  *)

\* Release the SM contexts `refs`; the calls for `bad` fail.
release_sm_context(refs, bad) ==
    /\ smf' = Drop(smf, refs \ bad)
    /\ astray' = [r \in DOMAIN astray \cup (bad \cap DOMAIN smf) |->
                    IF r \in DOMAIN astray THEN astray[r] ELSE "failed"]

\* Tell the SMF of the tunnels dl[r] (0: deactivated); the calls for `bad` fail.
update_sm_context(dl, bad) ==
    /\ smf' = [r \in DOMAIN smf |-> IF r \in DOMAIN dl \ bad THEN [smf[r] EXCEPT !.dl = dl[r]] ELSE smf[r]]
    /\ stale' = (stale \ DOMAIN dl) \cup (bad \cap DOMAIN smf)

-----------------------------------------------------------------------------
(* The UE.                                                                  *)

UeEstablish(p) ==
    /\ ue.cm = "connected" /\ spent.establish < MaxEstablish
    /\ p \notin ue.ses
    /\ p \in ue.asked => "repeat" \in UeMay
    /\ ue' = [ue EXCEPT !.asked = @ \cup {p}]
    /\ up' = Append(up, [k |-> "establish", id |-> gnb.id, psi |-> p])
    /\ Spend("establish")
    /\ UNCHANGED <<ctx, smf, gnb, down, cmds, guards, sbi, astray, stale>>

\* An idle UE drops a session without a word.
UeForgets(p) ==
    /\ ue.cm = "idle" /\ p \in ue.ses /\ spent.forgets < MaxForgets
    /\ ue' = [ue EXCEPT !.ses = @ \ {p}]
    /\ Spend("forgets")
    /\ UNCHANGED <<ctx, smf, gnb, up, down, cmds, guards, sbi, astray, stale>>

\* A Service Request or a registration update, with the PDU Session Status.
UeReturns(kind, data) ==
    /\ ue.cm = "idle" /\ spent.connections < MaxConnections
    /\ kind = "service" => data = {}
    /\ ue' = [ue EXCEPT !.cm = "returning"]
    /\ up' = Append(up, [k |-> "return", id |-> 0, kind |-> kind, status |-> ue.ses, data |-> data])
    /\ Spend("connections")
    /\ UNCHANGED <<ctx, smf, gnb, down, cmds, guards, sbi, astray, stale>>

-----------------------------------------------------------------------------
(* The gNB takes a message; the NAS in it reaches the UE or is lost.        *)

Take(k) == down # <<>> /\ Head(down).k = k /\ down' = Tail(down)
MayLose(lost) == IF lost THEN spent.lost < MaxLost /\ Spend("lost") ELSE UNCHANGED spent

\* The session's resources are set up, or refused: then the response has no F-TEID.
GnbSetsUp(lost) ==
    /\ Take("setup")
    /\ LET m == Head(down) t == gnb.made + 1 IN
        IF m.id # gnb.id THEN UNCHANGED <<gnb, ue, up, spent>>
        ELSE /\ gnb' = [gnb EXCEPT !.ses = Put(@, m.psi, t), !.made = t]
             /\ up' = Append(up, [k |-> "setupResponse", id |-> m.id, psi |-> m.psi, teid |-> t])
             /\ MayLose(lost)
             /\ ue' = IF lost THEN ue ELSE [ue EXCEPT !.ses = @ \cup {m.psi}, !.asked = @ \ {m.psi}]
    /\ UNCHANGED <<ctx, smf, cmds, guards, sbi, astray, stale>>

GnbRejects ==
    /\ Take("reject")
    /\ ue' = [ue EXCEPT !.asked = @ \ {Head(down).psi}]
    /\ UNCHANGED <<ctx, smf, gnb, up, cmds, guards, sbi, astray, stale, spent>>

GnbReleases(lost) ==
    /\ Take("release")
    /\ LET m == Head(down)
           told == ~lost /\ m.psi \in ue.ses
           done == IF told THEN <<[k |-> "complete", id |-> m.id, psi |-> m.psi]>> ELSE <<>> IN
        IF m.id # gnb.id THEN UNCHANGED <<gnb, ue, up, spent>>
        ELSE /\ gnb' = [gnb EXCEPT !.ses = Drop(@, {m.psi})]
             /\ up' = Append(up, [k |-> "releaseResponse", id |-> m.id, psi |-> m.psi]) \o done
             /\ MayLose(lost)
             /\ ue' = IF told THEN [ue EXCEPT !.ses = @ \ {m.psi}] ELSE ue
    /\ UNCHANGED <<ctx, smf, cmds, guards, sbi, astray, stale>>

\* The UE may answer a Modification Command with a Modification Complete.
GnbModifies ==
    /\ Take("modify")
    /\ LET m == Head(down) IN
        up' = IF m.id = gnb.id /\ m.psi \in ue.ses /\ "modified" \in UeMay
              THEN Append(up, [k |-> "modified", id |-> m.id, psi |-> m.psi]) ELSE up
    /\ UNCHANGED <<ctx, smf, gnb, ue, cmds, guards, sbi, astray, stale, spent>>

\* A context setup with sessions inline, `refused` of which the gNB cannot set up.
\* The accept's status tells the UE which sessions are left.
GnbResumes(refused) ==
    /\ Take("context")
    /\ LET m == Head(down)
           taken == m.psis \ refused
           made == gnb.made + Cardinality(taken) IN
        /\ refused \subseteq m.psis
        /\ \E ses \in Injection(taken, gnb.made + 1 .. made) : gnb' = [id |-> m.id, ses |-> ses, made |-> made]
        /\ up' = Append(up, [k |-> "contextResponse", id |-> m.id, ses |-> gnb'.ses, refused |-> refused])
        /\ ue' = [ue EXCEPT !.cm = "connected", !.ses = @ \cap m.active]
    /\ UNCHANGED <<ctx, smf, cmds, guards, sbi, astray, stale, spent>>

GnbIdle ==
    /\ gnb' = [gnb EXCEPT !.id = 0, !.ses = Nothing]
    /\ ue' = [ue EXCEPT !.cm = "idle", !.asked = {}]

GnbLetsGo ==
    /\ Take("contextRelease")
    /\ IF Head(down).id = gnb.id THEN GnbIdle ELSE UNCHANGED <<gnb, ue>>
    /\ UNCHANGED <<ctx, smf, up, cmds, guards, sbi, astray, stale, spent>>

\* Inactivity: the gNB asks for the release of the UE's context.
GnbAsksRelease ==
    /\ gnb.id # 0 /\ ue.cm = "connected"
    /\ ~\E i \in DOMAIN up : up[i].k = "releaseRequest"
    /\ up' = Append(up, [k |-> "releaseRequest", id |-> gnb.id])
    /\ UNCHANGED <<ctx, smf, gnb, ue, down, cmds, guards, sbi, astray, stale, spent>>

\* The gNB restarts its contexts and resets the interface.
GnbResets ==
    /\ gnb.id # 0 /\ spent.lost < MaxLost
    /\ GnbIdle
    /\ up' = Append(up, [k |-> "reset", id |-> 0])
    /\ Spend("lost")
    /\ UNCHANGED <<ctx, smf, down, cmds, guards, sbi, astray, stale>>

-----------------------------------------------------------------------------
(* N2 at the AMF.                                                           *)

Handle(k) == up # <<>> /\ Head(up).k = k /\ up' = Tail(up)

Established(m, how) ==
    LET r == spent.refs + 1 IN
    IF how = "refused"
    THEN /\ down' = Append(down, [k |-> "reject", id |-> m.id, psi |-> m.psi])
         /\ UNCHANGED <<ctx, smf, astray, spent>>
    ELSE /\ smf' = Put(smf, r, [psi |-> m.psi, dl |-> 0])
         /\ IF how = "created"
            THEN /\ ctx' = [ctx EXCEPT !.refs = Put(@, m.psi, r)]
                 /\ down' = Append(down, [k |-> "setup", id |-> m.id, psi |-> m.psi])
                 /\ astray' = IF m.psi \in DOMAIN ctx.refs /\ ctx.refs[m.psi] \in DOMAIN smf
                              THEN Put(astray, ctx.refs[m.psi], "overwritten") ELSE astray
                 /\ spent' = [spent EXCEPT !.refs = r]
            ELSE /\ spent.failed < MaxFailed
                 /\ down' = Append(down, [k |-> "reject", id |-> m.id, psi |-> m.psi])
                 /\ astray' = Put(astray, r, "unanswered")
                 /\ spent' = [spent EXCEPT !.refs = r, !.failed = @ + 1]
                 /\ UNCHANGED ctx

\* UL NAS Transport: whatever is not a Release Complete goes to CreateSMContext.  The
\* SMF creates the context, refuses, or creates it and its answer is lost.
OnUlNasTransport(how) ==
    /\ up # <<>> /\ Head(up).k \in {"establish", "modified"} /\ up' = Tail(up)
    /\ LET m == Head(up) IN
        IF Known(m.id) THEN Established(m, how)
        ELSE how = "refused" /\ UNCHANGED <<ctx, smf, astray, down, spent>>
    /\ UNCHANGED <<gnb, ue, cmds, guards, sbi, stale>>

\* Mutant: the SM context is not released.
finalize_releaseLocal(id, p, ok) ==
    /\ UNCHANGED <<smf, astray, stale, spent>>
    /\ ctx' = IF Known(id) /\ p \in ctx.releasing
              THEN [ctx EXCEPT !.refs = Drop(@, {p}), !.releasing = @ \ {p}] ELSE ctx

\* Only a session whose release is awaited; at the SMF, then in the context.
finalize_release(id, p, ok) ==
    IF Known(id) /\ p \in ctx.releasing
    THEN LET refs == {ctx.refs[q] : q \in {p} \cap DOMAIN ctx.refs} IN
         /\ release_sm_context(refs, IF ok THEN {} ELSE refs)
         /\ Failing(IF ok THEN 0 ELSE 1)
         /\ ctx' = [ctx EXCEPT !.refs = Drop(@, {p}), !.releasing = @ \ {p}]
         /\ UNCHANGED stale
    ELSE ok /\ UNCHANGED <<ctx, smf, astray, stale, spent>>

OnReleaseComplete(ok) ==
    /\ Handle("complete")
    /\ finalize_release(Head(up).id, Head(up).psi, ok)
    /\ UNCHANGED <<gnb, ue, down, cmds, guards, sbi>>

\* The resources are free; the session waits for the UE's complete.
on_release_response ==
    /\ Handle("releaseResponse")
    /\ UNCHANGED <<ctx, smf, gnb, ue, down, cmds, guards, sbi, astray, stale, spent>>

on_pdu_session_setup_response(ok) ==
    /\ Handle("setupResponse")
    /\ LET m == Head(up) IN
        IF Known(m.id) /\ m.psi \in DOMAIN ctx.refs
        THEN update_sm_context([r \in {ctx.refs[m.psi]} |-> m.teid], IF ok THEN {} ELSE {ctx.refs[m.psi]})
        ELSE ok /\ UNCHANGED <<smf, stale>>
    /\ Failing(IF ok THEN 0 ELSE 1)
    /\ UNCHANGED <<ctx, gnb, ue, down, cmds, guards, sbi, astray>>

\* The tunnels of the sessions set up inline; the refused ones are released and dropped.
on_initial_context_setup_response ==
    /\ Handle("contextResponse")
    /\ LET m == Head(up)
           known == IF Known(m.id) THEN DOMAIN ctx.refs ELSE {}
           gone == {ctx.refs[p] : p \in m.refused \cap known}
           dl == [r \in {ctx.refs[p] : p \in DOMAIN m.ses \cap known} |->
                    m.ses[CHOOSE p \in known : ctx.refs[p] = r]] IN
        /\ smf' = [r \in DOMAIN smf \ gone |-> IF r \in DOMAIN dl THEN [smf[r] EXCEPT !.dl = dl[r]] ELSE smf[r]]
        /\ stale' = stale \ DOMAIN dl
        /\ ctx' = [ctx EXCEPT !.refs = Drop(@, m.refused \cap known)]
    /\ UNCHANGED <<gnb, ue, down, cmds, guards, sbi, astray, spent>>

\* Mutant: the user plane is left as it is.
release_ue_contextWarm(bad) ==
    /\ ctx' = [ctx EXCEPT !.cm = "idle"]
    /\ UNCHANGED <<smf, stale, spent>>

\* AN release: each session's user plane is deactivated, the context retained.
release_ue_context(bad) ==
    /\ bad \subseteq Refs
    /\ update_sm_context([r \in Refs |-> 0], bad)
    /\ Failing(Cardinality(bad))
    /\ ctx' = [ctx EXCEPT !.cm = "idle"]

OnReleaseRequest(bad) ==
    /\ Handle("releaseRequest")
    /\ IF Known(Head(up).id)
       THEN /\ release_ue_context(bad)
            /\ down' = Append(down, [k |-> "contextRelease", id |-> ctx.id])
       ELSE bad = {} /\ UNCHANGED <<ctx, smf, stale, down, spent>>
    /\ UNCHANGED <<gnb, ue, cmds, guards, sbi, astray>>

on_ng_reset(bad) ==
    /\ Handle("reset")
    /\ IF ctx.cm = "connected" THEN release_ue_context(bad)
       ELSE bad = {} /\ UNCHANGED <<ctx, smf, stale, spent>>
    /\ UNCHANGED <<gnb, ue, down, cmds, guards, sbi, astray>>

\* Mutant: sessions the UE no longer holds are kept.
DroppedNone(m) == {}

Dropped(m) == DOMAIN ctx.refs \ m.status

\* The retained context resumes under a new AMF-UE-NGAP-ID.  The sessions the UE
\* dropped are released; a Service Request reactivates the rest, a registration
\* update those with uplink data, as far as the SMF still knows them.
on_service_request ==
    /\ Handle("return")
    /\ LET m == Head(up)
           left == DOMAIN ctx.refs \ Dropped(m)
           wanted == IF m.kind = "service" THEN left ELSE left \cap m.data IN
        /\ ctx.cm = "idle"
        /\ ctx' = [ctx EXCEPT !.cm = "connected", !.id = spent.connections, !.refs = Keep(@, left)]
        /\ release_sm_context({ctx.refs[p] : p \in Dropped(m)}, {})
        /\ down' = Append(down, [k |-> "context", id |-> ctx'.id, active |-> left,
                                 psis |-> {p \in wanted : ctx.refs[p] \in DOMAIN smf}])
    /\ UNCHANGED <<gnb, ue, cmds, guards, sbi, stale, spent>>

-----------------------------------------------------------------------------
(* Commands, and the SMF's requests.                                        *)

Command(k) == cmds # <<>> /\ Head(cmds).k = k /\ cmds' = Tail(cmds)

on_network_modification ==
    /\ Command("modify")
    /\ LET c == Head(cmds) IN
        down' = IF Known(c.id) /\ c.psi \in DOMAIN ctx.refs
                THEN Append(down, [k |-> "modify", id |-> c.id, psi |-> c.psi]) ELSE down
    /\ UNCHANGED <<ctx, smf, gnb, ue, up, guards, sbi, astray, stale, spent>>

\* `for` is the SM context the release is about; the code does not keep it.
arm_release_guard(id, p) == guards' = guards \cup {[id |-> id, psi |-> p, for |-> ctx.refs[p]]}

on_network_release ==
    /\ Command("release")
    /\ LET c == Head(cmds) IN
        IF Known(c.id) /\ c.psi \in DOMAIN ctx.refs
        THEN /\ ctx' = [ctx EXCEPT !.releasing = @ \cup {c.psi}]
             /\ arm_release_guard(c.id, c.psi)
             /\ down' = Append(down, [k |-> "release", id |-> c.id, psi |-> c.psi])
        ELSE UNCHANGED <<ctx, guards, down>>
    /\ UNCHANGED <<smf, gnb, ue, up, sbi, astray, stale, spent>>

GuardFires(g) ==
    /\ guards' = guards \ {g}
    /\ cmds' = Append(cmds, [k |-> "guard", id |-> g.id, psi |-> g.psi, for |-> g.for])
    /\ UNCHANGED <<ctx, smf, gnb, ue, up, down, sbi, astray, stale, spent>>

ReleaseGuardExpiry(ok) ==
    /\ Command("guard")
    /\ finalize_release(Head(cmds).id, Head(cmds).psi, ok)
    /\ UNCHANGED <<gnb, ue, up, down, guards, sbi>>

\* Only a UE in the directory, that is a connected one, is modified.
modify_policy(p) ==
    /\ spent.network < MaxNetwork /\ Spend("network")
    /\ ctx.cm = "connected"
    /\ cmds' = Append(cmds, [k |-> "modify", id |-> ctx.id, psi |-> p])
    /\ UNCHANGED <<ctx, smf, gnb, ue, up, down, guards, sbi, astray, stale>>

release_session(p) ==
    /\ spent.network < MaxNetwork /\ Spend("network")
    /\ sbi.at = "none"
    /\ IF ctx.cm = "connected"
       THEN /\ cmds' = Append(cmds, [k |-> "release", id |-> ctx.id, psi |-> p])
            /\ UNCHANGED sbi
       ELSE /\ p \in DOMAIN ctx.refs
            /\ sbi' = [at |-> "gathered", psi |-> p, ref |-> ctx.refs[p]]
            /\ UNCHANGED cmds
    /\ UNCHANGED <<ctx, smf, gnb, ue, up, down, guards, astray, stale>>

\* CM-IDLE: the release at the SMF, off the lock ...
ReleaseOffLock(ok) ==
    /\ sbi.at = "gathered"
    /\ release_sm_context({sbi.ref}, IF ok THEN {} ELSE {sbi.ref})
    /\ Failing(IF ok THEN 0 ELSE 1)
    /\ sbi' = [sbi EXCEPT !.at = "released"]
    /\ UNCHANGED <<ctx, gnb, ue, up, down, cmds, guards, stale>>

\* ... and the session dropped from the context, if it is still retained.
DropReleased ==
    /\ sbi.at = "released"
    /\ sbi' = NoSbi
    /\ IF ctx.cm = "idle" /\ sbi.psi \in DOMAIN ctx.refs
       THEN /\ ctx' = [ctx EXCEPT !.refs = Drop(@, {sbi.psi})]
            /\ astray' = IF ctx.refs[sbi.psi] \in DOMAIN smf \ DOMAIN astray
                         THEN Put(astray, ctx.refs[sbi.psi], "raced") ELSE astray
       ELSE UNCHANGED <<ctx, astray>>
    /\ UNCHANGED <<smf, gnb, ue, up, down, cmds, guards, stale, spent>>

-----------------------------------------------------------------------------
N2Step ==
    \/ \E how \in {"created", "refused", "unanswered"} : OnUlNasTransport(how)
    \/ \E ok \in BOOLEAN : OnReleaseComplete(ok) \/ on_pdu_session_setup_response(ok)
    \/ on_release_response \/ on_initial_context_setup_response \/ on_service_request
    \/ \E bad \in SUBSET Refs : OnReleaseRequest(bad) \/ on_ng_reset(bad)

CommandStep ==
    on_network_modification \/ on_network_release \/ \E ok \in BOOLEAN : ReleaseGuardExpiry(ok)

GnbStep ==
    \/ \E lost \in BOOLEAN : GnbSetsUp(lost) \/ GnbReleases(lost)
    \/ GnbRejects \/ GnbModifies \/ GnbLetsGo
    \/ \E refused \in SUBSET Psis : GnbResumes(refused)

SbiStep == DropReleased \/ \E ok \in BOOLEAN : ReleaseOffLock(ok)

Next ==
    \/ N2Step \/ CommandStep \/ GnbStep \/ SbiStep
    \/ \E p \in Psis : UeEstablish(p) \/ UeForgets(p) \/ modify_policy(p) \/ release_session(p)
    \/ \E kind \in Returns, data \in SUBSET Psis : UeReturns(kind, data)
    \/ \E g \in guards : GuardFires(g)
    \/ GnbAsksRelease \/ GnbResets

Spec == Init /\ [][Next]_vars

\* Messages and commands are taken, timers fire.  Nobody need send anything.
FairSpec ==
    /\ Spec /\ WF_vars(N2Step) /\ WF_vars(CommandStep) /\ WF_vars(GnbStep) /\ WF_vars(SbiStep)
    /\ WF_vars(\E g \in guards : GuardFires(g))

-----------------------------------------------------------------------------
TypeOK ==
    /\ ctx.cm \in {"connected", "idle"} /\ ctx.id \in 1..MaxConnections
    /\ DOMAIN ctx.refs \subseteq Psis /\ ctx.releasing \subseteq Psis
    /\ Refs \subseteq 1..spent.refs /\ DOMAIN smf \subseteq 1..spent.refs
    /\ DOMAIN gnb.ses \subseteq Psis /\ ue.ses \subseteq Psis /\ ue.asked \subseteq Psis
    /\ ue.cm \in {"connected", "idle", "returning"}
    /\ sbi.at \in {"none", "gathered", "released"}

\* Every SM context at the SMF is one the UE's context refers to, so that
\* deregistration will release it: through AN release, return, reconciliation, guard
\* expiry and refusal, only a call to the SMF that failed, an overwritten entry and a
\* release racing the UE's return let one go (finalize_release, on_service_request).
SmContextsAreOwned == DOMAIN smf \subseteq Refs \cup DOMAIN astray

\* With nothing on its way and no release under way, the RAN has no session the AMF
\* does not track, and the SMF sends a session's downlink into the tunnel the gNB
\* holds for it, nowhere while the UE is idle: unless the SMF missed an
\* update (on_pdu_session_setup_response,
\* on_initial_context_setup_response, release_ue_context).
DownlinkFollowsRan ==
    up = <<>> /\ down = <<>> =>
        /\ DOMAIN gnb.ses \subseteq DOMAIN ctx.refs
        /\ \A p \in DOMAIN ctx.refs \ ctx.releasing :
            ctx.refs[p] \in DOMAIN smf \ stale =>
                smf[ctx.refs[p]].dl = IF p \in DOMAIN gnb.ses THEN gnb.ses[p] ELSE 0

\* The UE that comes back with its PDU Session Status and the AMF that answers with
\* its own agree: unless more is on its way, they hold the same sessions
\* (on_service_request, PDU Session Status reconciliation).
Reconciled ==
    GnbStep /\ ue.cm = "returning" /\ ue'.cm = "connected" /\ Known(gnb'.id) /\ Len(down) = 1
        => ue'.ses = DOMAIN ctx.refs

\* A network release sent to a connected UE ends: with the UE's Release Complete, on
\* the guard, or with the UE's connection (ReleaseGuardExpiry).
ReleaseSent(p) == \E i \in DOMAIN down : down[i] = [k |-> "release", id |-> ctx.id, psi |-> p] /\ ctx.cm = "connected"
ReleaseOver(p) == p \notin ctx.releasing \/ ctx.cm = "idle"
ReleaseEnds == \A p \in Psis : ReleaseSent(p) ~> ReleaseOver(p)

\* The guard is armed "so a silent UE doesn't strand the session": a connected UE
\* does not keep a session whose release was begun (on_network_release).
NoStrandedRelease ==
    \A p \in Psis :
        (ctx.cm = "connected" /\ p \in ctx.releasing \cap DOMAIN ctx.refs)
            ~> ~(ctx.cm = "connected" /\ p \in ctx.releasing \cap DOMAIN ctx.refs)

\* A session released while its UE was CM-IDLE is dropped from the context, so that
\* the status of the UE's next return omits it (release_session).
ReleasedIsForgotten ==
    sbi.at = "none" => \A p \in DOMAIN ctx.refs : ctx.refs[p] \in DOMAIN smf

\* No SM context is left behind by a UE that is connected and answers
\* (dispatch_uplink_nas, UL NAS Transport).
NoneOverwritten == \A r \in DOMAIN astray : astray[r] # "overwritten"

\* A guard finalises the release it was armed for (arm_release_guard).
OwnGuard ==
    [][CommandStep /\ Head(cmds).k = "guard" /\ ctx' # ctx =>
        ctx.refs[Head(cmds).psi] = Head(cmds).for]_vars

(* The inductive invariant of SmContextsAreOwned is that property and these types. *)

Positive == Nat \ {0}
Maps(S, R) == UNION {[D -> R] : D \in SUBSET S}
About(kinds) == [k : kinds, id : Positive, psi : Psis]
Uplink ==
    [k : {"establish", "complete", "releaseResponse"}, id : Nat, psi : Psis]
    \cup [k : {"setupResponse"}, id : Nat, psi : Psis, teid : Nat]
    \cup [k : {"contextResponse"}, id : Nat, ses : Maps(Psis, Nat),
          refused : SUBSET Psis]
    \cup [k : {"return"}, id : {0}, kind : Returns, status : SUBSET Psis, data : SUBSET Psis]
    \cup [k : {"reset"}, id : {0}] \cup [k : {"releaseRequest"}, id : Nat]
Downlink ==
    About({"setup", "reject", "release", "modify"})
    \cup [k : {"context"}, id : Positive, active : SUBSET Psis, psis : SUBSET Psis]
    \cup [k : {"contextRelease"}, id : Positive]
Guards == [id : Positive, psi : Psis, for : Nat]
Commands == About({"modify", "release"}) \cup [k : {"guard"}, id : Positive, psi : Psis, for : Nat]

BoundTypes ==
    /\ {"refs", "connections", "failed"} \subseteq DOMAIN spent
    /\ {spent.refs, spent.failed} \subseteq Nat /\ spent.connections \in Positive
    /\ spent = [f \in DOMAIN spent |-> spent[f]]

ContextTypes ==
    /\ ctx \in [cm : {"connected", "idle"}, id : Positive,
                refs : Maps(Psis, 1 .. spent.refs), releasing : SUBSET Psis]
    /\ \A p, q \in DOMAIN ctx.refs : ctx.refs[p] = ctx.refs[q] => p = q
    /\ smf \in Maps(1 .. spent.refs, [psi : Psis, dl : Nat])

LinkTypes ==
    /\ gnb \in [id : Nat, ses : Maps(Psis, Nat), made : Nat]
    /\ ue \in [cm : {"connected", "idle", "returning"}, ses : SUBSET Psis, asked : SUBSET Psis]
    /\ up \in Seq(Uplink) /\ down \in Seq(Downlink) /\ cmds \in Seq(Commands) /\ guards \subseteq Guards
    /\ sbi \in {NoSbi} \cup [at : {"gathered", "released"}, psi : Psis, ref : Nat]

SessionTypes == BoundTypes /\ ContextTypes /\ LinkTypes

(* The inductive invariant of DownlinkFollowsRan and Reconciled.  The ends of the *)
(* N2 connection pass through four phases; while both know it, ThePath relates    *)
(* what each holds of a session to what is on its way.                            *)

Of(m, k, p) == m.k = k /\ m.psi = p
Reports(m, p) == Of(m, "setupResponse", p) \/ (m.k = "contextResponse" /\ p \in DOMAIN m.ses)
TunnelIn(m, p) == IF m.k = "setupResponse" THEN m.teid ELSE m.ses[p]
Speaks(m, p) == Of(m, "establish", p) \/ Of(m, "complete", p) \/ Reports(m, p)
Answers(m, p) == Of(m, "setup", p) \/ Of(m, "reject", p)

Carries(s, k) == \E i \in DOMAIN s : s[i].k = k
Has(s, k, p) == \E i \in DOMAIN s : Of(s[i], k, p)
Reported(s, p) == \E i \in DOMAIN s : Reports(s[i], p)
Refused(s, p) == \E i \in DOMAIN s : s[i].k = "contextResponse" /\ p \in s[i].refused
\* A request to establish p is the last said of p.
AsksLast(s, p) == \A i, j \in DOMAIN s : i < j /\ Of(s[i], "establish", p) => ~Speaks(s[j], p)
AnsweredOnce(s, p) == \A i, j \in DOMAIN s : Answers(s[i], p) /\ Answers(s[j], p) => i = j
\* Every k about p has an l about p behind it.
Followed(s, k, l, p) ==
    \A i \in DOMAIN s : Of(s[i], k, p) => \E j \in DOMAIN s : i < j /\ Of(s[j], l, p)
\* The tunnel reported for p is the one of `ses`.
Tells(s, p, ses) ==
    \A i \in DOMAIN s : Reports(s[i], p) => p \in DOMAIN ses /\ TunnelIn(s[i], p) = ses[p]

Asking(p) == Has(up, "establish", p)
Answering(p) == Has(down, "setup", p) \/ Has(down, "reject", p)
Guarded(p) ==
    \/ \E g \in guards : g.id = ctx.id /\ g.psi = p
    \/ \E i \in DOMAIN cmds : Of(cmds[i], "guard", p) /\ cmds[i].id = ctx.id
\* A guard of this connection will finalise the release of p.
Due(p) == p \in ctx.releasing /\ Guarded(p)
Held(p) == p \in DOMAIN ctx.refs \/ Due(p)
Active(p) == p \in DOMAIN ctx.refs /\ p \notin ctx.releasing
\* The gNB will be left without resources for p.
Cleared(p) ==
    /\ p \in DOMAIN gnb.ses => Has(down, "release", p)
    /\ Followed(down, "setup", "release", p)
Tunnel(p) == IF p \in DOMAIN gnb.ses THEN gnb.ses[p] ELSE 0

ThePath(p) ==
    /\ Asking(p) \/ Answering(p) => p \in ue.asked /\ p \notin ue.ses /\ p \notin DOMAIN gnb.ses
    /\ AsksLast(up, p) /\ AnsweredOnce(down, p)
    /\ Answering(p) => /\ ~Asking(p) /\ ~Has(up, "complete", p) /\ ~Reported(up, p)
                       /\ ~Carries(up, "contextResponse")
    /\ p \in DOMAIN gnb.ses => p \in ue.ses \cup ue.asked
    /\ Held(p) => Has(up, "complete", p) \/ (p \in ue.ses \cup ue.asked /\ ~Asking(p))
    /\ Has(down, "reject", p) => ~Held(p)
    /\ Has(up, "complete", p) /\ p \in DOMAIN ctx.refs => p \in ctx.releasing
    /\ p \notin DOMAIN ctx.refs \/ Due(p) \/ Has(up, "complete", p) => Cleared(p)
    /\ Refused(up, p) => p \notin DOMAIN gnb.ses
    /\ Active(p) => Followed(down, "release", "setup", p) /\ Tells(up, p, gnb.ses)
    /\ Active(p) /\ ~Reported(up, p) /\ ctx.refs[p] \in DOMAIN smf \ stale
        => smf[ctx.refs[p]].dl = Tunnel(p)

Deactivated ==
    \A p \in DOMAIN ctx.refs : ctx.refs[p] \in DOMAIN smf \ stale => smf[ctx.refs[p]].dl = 0

\* Both ends know the connection.
UpOfLink == \A i \in DOMAIN up : up[i].id = ctx.id /\ (up[i].k = "contextResponse" => i = 1)
DownOfLink ==
    \A i \in DOMAIN down :
        down[i].id = ctx.id /\ down[i].k \in {"setup", "reject", "release", "modify"}
Linked == ctx.cm = "connected" /\ gnb.id = ctx.id /\ UpOfLink /\ DownOfLink
Together == Linked /\ \A p \in Psis : ThePath(p)

\* The gNB has reset it, the AMF has yet to learn.
Cut ==
    ctx.cm = "connected" /\ gnb.id = 0 /\ Carries(up, "reset") /\ ~Carries(down, "context")

\* The AMF has released it, the gNB has or will have.
LetsGo == \E i \in DOMAIN down : down[i].k = "contextRelease" /\ down[i].id = ctx.id
Released ==
    /\ ctx.cm = "idle" /\ ~Carries(down, "context") /\ Deactivated
    /\ gnb.id = 0 \/ (gnb.id = ctx.id /\ LetsGo)

\* The AMF has resumed it; its context setup is the c-th message to the gNB.
ResumesAt(c) ==
    /\ down[c].k = "context" /\ down[c].id = ctx.id
    /\ down[c].psis \subseteq down[c].active /\ down[c].active \subseteq ue.ses
    /\ \A i \in DOMAIN down : i < c => down[i].k # "context"
    /\ \A i \in DOMAIN down : c < i => down[i].id = ctx.id /\ down[i].k \in {"release", "modify"}
    /\ \A i \in DOMAIN down :
        c < i /\ down[i].k = "release" /\ down[i].psi \in DOMAIN ctx.refs
            => down[i].psi \in ctx.releasing
    /\ \A p \in Psis : Held(p) => p \in down[c].active
    /\ \A p \in down[c].active :
        p \notin DOMAIN ctx.refs \/ Due(p)
            => \E i \in DOMAIN down : c < i /\ Of(down[i], "release", p)
Resuming ==
    /\ ctx.cm = "connected" /\ gnb.id = 0 /\ up = <<>> /\ ue.cm = "returning" /\ Deactivated
    /\ \E c \in DOMAIN down : ResumesAt(c)

\* What holds in every phase.
Guarding ==
    /\ \A g \in guards : g.id <= ctx.id
    /\ \A i \in DOMAIN cmds : cmds[i].k = "guard" => cmds[i].id <= ctx.id
Apart == gnb.id = 0 => gnb.ses = Nothing /\ ue.asked = {}
ReturnsLast ==
    \A i \in DOMAIN up :
        up[i].k = "return" =>
            /\ i = Len(up) /\ ctx.id < spent.connections /\ gnb.id = 0
            /\ ue.cm = "returning" /\ up[i].status = ue.ses
Connections ==
    /\ (gnb.id = 0 <=> ue.cm # "connected") /\ ctx.id <= spent.connections
    /\ Guarding /\ Apart /\ ReturnsLast

PathIInv == Connections /\ (Together \/ Cut \/ Released \/ Resuming)

\* What a step leaves of the path of p.
UpKept(p) ==
    /\ \A k \in {"establish", "complete"} : Has(up', k, p) <=> Has(up, k, p)
    /\ Reported(up', p) <=> Reported(up, p)
    /\ Refused(up', p) => Refused(up, p)
    /\ Carries(up', "contextResponse") => Carries(up, "contextResponse")
    /\ AsksLast(up', p)
    /\ \A ses : Tells(up, p, ses) => Tells(up', p, ses)
DownKept(p) ==
    /\ \A k \in {"setup", "reject", "release"} : Has(down', k, p) <=> Has(down, k, p)
    /\ AnsweredOnce(down', p)
    /\ \A k, l \in {"setup", "release"} : Followed(down, k, l, p) => Followed(down', k, l, p)
RadioKept(p) ==
    /\ p \in ue'.asked <=> p \in ue.asked
    /\ p \in ue'.ses <=> p \in ue.ses
    /\ p \in DOMAIN gnb'.ses <=> p \in DOMAIN gnb.ses
    /\ p \in DOMAIN gnb.ses => gnb'.ses[p] = gnb.ses[p]
EntryKept(p) ==
    /\ p \in DOMAIN ctx'.refs <=> p \in DOMAIN ctx.refs
    /\ p \in DOMAIN ctx.refs => ctx'.refs[p] = ctx.refs[p]
    /\ p \in ctx'.releasing <=> p \in ctx.releasing
    /\ Guarded(p)' <=> Guarded(p)
TunnelKept(p) ==
    p \in DOMAIN ctx.refs =>
        LET r == ctx.refs[p] IN
        r \in DOMAIN smf' \ stale' => r \in DOMAIN smf \ stale /\ smf'[r].dl = smf[r].dl
=============================================================================
