----------------------------- MODULE AmfHandover -----------------------------
(***************************************************************************)
(* N2 handover and Xn path switch at the AMF (nf/nf-amf/src/main.rs).      *)
(*                                                                         *)
(* Every gNB has one association task (serve_gnb) that owns the contexts   *)
(* of its UEs and runs one handler at a time, from two queues: the N2      *)
(* messages of its gNB and the UeCmd channel the other tasks write to.  A  *)
(* handover therefore spans two tasks, the AMF-wide HANDOVERS map and two  *)
(* timer tasks; a context changes hands with TakeUe, answered on a oneshot *)
(* within 500 ms or not at all.                                            *)
(*                                                                         *)
(* The gNBs and UEs are the environment: they follow TS 38.413, sending    *)
(* what the last downlink or their own radio conditions call for.          *)
(***************************************************************************)
EXTENDS Naturals, Sequences, SequencesExt, FiniteSets, TLC

CONSTANTS
    UEs,            \* AMF-UE-NGAP-IDs
    Gnbs,           \* gNBs, each with a live N2 association
    InitNcc,        \* the NCC the UEs' NH chains have reached
    MaxHandovers,   \* bound: Handover Required per UE
    MaxPathSwitches,\* bound: Xn path switches per UE
    MaxSlow,        \* bound: slow SBI calls that block an association
    None            \* no value

ASSUME HandoverAssumption ==
    /\ InitNcc \in 0..7
    /\ MaxHandovers \in Nat /\ MaxPathSwitches \in Nat /\ MaxSlow \in Nat
    /\ None \notin Gnbs

VARIABLES
    \* the AMF
    ues,        \* ues[g]: the UE contexts association g owns
    chain,      \* chain[u]: the NCC of the UE context's nh_chain
    directory,  \* UE_DIRECTORY: the association SBI callbacks go to
    handovers,  \* HANDOVERS: the pending handover of a UE, or None
    timers,     \* TNGRELOC timer tasks still sleeping
    inbox,      \* inbox[g]: association g's UeCmd channel
    busy,       \* busy[g]: what association g's handler awaits, or None
    answer,     \* answer[g][o]: o's oneshot answer to g's TakeUe
    tunnel,     \* tunnel[u]: indirect forwarding is set up at SMF and UPF
    \* the environment
    uplink,     \* uplink[g]: N2 messages gNB g has sent
    role,       \* role[g][u]: what gNB g holds of the UE
    camped,     \* camped[u]: the gNB the UE is at
    aim,        \* aim[u]: the target of the source's current handover
    \* history and bounds
    attempt,    \* attempt[u]: handovers required so far
    switches,   \* switches[u]: Xn path switches so far
    slow,       \* slow SBI calls so far
    given       \* given[u]: the NCC each Handover Request carried, in order

amfVars == <<ues, chain, directory, handovers, timers, inbox, busy, answer, tunnel>>
envVars == <<uplink, role, camped, aim>>
boundVars == <<attempt, switches, slow>>
vars == <<amfVars, envVars, boundVars, given>>

-----------------------------------------------------------------------------
(* Values *)

\* A 3-bit counter (TS 33.501).
NextNcc(n) == (n + 1) % 8

\* What HANDOVERS holds (PendingHandover).  ranOf is the gNB whose
\* RAN-UE-NGAP-ID is in target_ran_ue_id; commanded is set together with it.
\* ncc stands for the {NH, NCC} pair handed to the target.  no numbers the UE's
\* handovers: it is history, the code has no such field.
Pending == [no : Nat, source : Gnbs, target : Gnbs, ranOf : Gnbs \cup {None},
            ncc : 0..7, direct : BOOLEAN, indirect : BOOLEAN]
Commanded(p) == p.ranOf # None

Timers == [kind : {"prep", "overall"}, u : UEs, no : Nat]

\* UeCmd::Forward, whose PDU names or carries the container of gNB x, and
\* UeCmd::TakeUe, live while the asker still holds the other end of the oneshot.
Forward(p, u, x) == [cmd |-> "Forward", pdu |-> p, u |-> u, x |-> x]
TakeUe(u, g) == [cmd |-> "TakeUe", u |-> u, by |-> g, live |-> TRUE]

Msg(t, u) == [type |-> t, u |-> u]
Required(u, t, d) == [type |-> "HandoverRequired", u |-> u, target |-> t, direct |-> d]

\* What a handler of association g awaits before it goes on.
Slow == [on |-> "sbi"]
Forwarding(u, p) == [on |-> "forwarding", u |-> u, p |-> p]
Notify(u, p) == [on |-> "notify", u |-> u, p |-> p]
PathSwitch(u) == [on |-> "pathSwitch", u |-> u]

-----------------------------------------------------------------------------

\* Every UE has registered at some gNB.
Init ==
    /\ directory \in [UEs -> Gnbs]
    /\ ues = [g \in Gnbs |-> {u \in UEs : directory[u] = g}]
    /\ chain = [u \in UEs |-> InitNcc]
    /\ handovers = [u \in UEs |-> None]
    /\ timers = {}
    /\ inbox = [g \in Gnbs |-> <<>>]
    /\ busy = [g \in Gnbs |-> None]
    /\ answer = [g \in Gnbs |-> [o \in Gnbs |-> None]]
    /\ tunnel = [u \in UEs |-> FALSE]
    /\ uplink = [g \in Gnbs |-> <<>>]
    /\ role = [g \in Gnbs |-> [u \in UEs |-> IF directory[u] = g THEN "serving" ELSE "none"]]
    /\ camped = directory
    /\ aim = [u \in UEs |-> None]
    /\ attempt = [u \in UEs |-> 0]
    /\ switches = [u \in UEs |-> 0]
    /\ slow = 0
    /\ given = [u \in UEs |-> <<>>]

-----------------------------------------------------------------------------
(* The gNB's side of a downlink *)

\* What gNB g holds of a UE after a downlink PDU for it; x as in Forward.
RoleAfter(g, r, pdu, x) ==
    CASE pdu = "PreparationFailure" /\ r = "preparing" -> "serving"
      [] pdu = "Command" /\ r = "preparing" -> "commanded"
      [] pdu = "CancelAck" /\ r = "cancelling" -> "serving"
      [] pdu = "Release" /\ x = g -> "none"
      [] pdu = "PathSwitchFailure" -> "none"
      [] OTHER -> r

GnbGets(g, u, pdu, x) ==
    role' = [role EXCEPT ![g][u] = RoleAfter(g, @, pdu, x)]

-----------------------------------------------------------------------------
(* The association task *)

\* Association g takes the next N2 message of its gNB.
Takes(g, type) ==
    /\ busy[g] = None
    /\ uplink[g] # <<>>
    /\ Head(uplink[g]).type = type

Popped(q, g) == [q EXCEPT ![g] = Tail(@)]

Send(q, g, c) == [q EXCEPT ![g] = Append(@, c)]

\* A handler that is not modelled here keeps the association in an SBI call.
StartSlowCall(g) ==
    /\ busy[g] = None
    /\ slow < MaxSlow
    /\ busy' = [busy EXCEPT ![g] = Slow]
    /\ slow' = slow + 1
    /\ UNCHANGED <<ues, chain, directory, handovers, timers, inbox, answer, tunnel,
                   envVars, attempt, switches, given>>

EndSlowCall(g) ==
    /\ busy[g] = Slow
    /\ busy' = [busy EXCEPT ![g] = None]
    /\ UNCHANGED <<ues, chain, directory, handovers, timers, inbox, answer, tunnel,
                   envVars, boundVars, given>>

\* on_handover_required: the source's context is here, so a Handover Request
\* goes to the target and the preparation timer starts.
OnHandoverRequired(g) ==
    /\ Takes(g, "HandoverRequired")
    /\ LET m == Head(uplink[g])
           p == [no |-> Len(given[m.u]) + 1, source |-> g, target |-> m.target,
                 ranOf |-> None, ncc |-> NextNcc(chain[m.u]),
                 direct |-> m.direct, indirect |-> FALSE]
       IN /\ m.u \in ues[g]
          /\ handovers' = [handovers EXCEPT ![m.u] = p]
          /\ timers' = timers \cup {[kind |-> "prep", u |-> m.u, no |-> p.no]}
          /\ inbox' = Send(inbox, m.target, Forward("Request", m.u, m.target))
          /\ given' = [given EXCEPT ![m.u] = Append(@, p.ncc)]
    /\ uplink' = Popped(uplink, g)
    /\ UNCHANGED <<ues, chain, directory, busy, answer, tunnel, role, camped, aim,
                   boundVars>>

\* on_handover_required for a UE this association does not own.
RefuseHandoverRequired(g) ==
    /\ Takes(g, "HandoverRequired")
    /\ Head(uplink[g]).u \notin ues[g]
    /\ GnbGets(g, Head(uplink[g]).u, "PreparationFailure", None)
    /\ uplink' = Popped(uplink, g)
    /\ UNCHANGED <<amfVars, camped, aim, boundVars, given>>

\* on_handover_request_ack up to the forwarding set-up: records the target under
\* the lock, snapshots the entry, starts the overall timer.
OnHandoverRequestAck(g) ==
    /\ Takes(g, "HandoverRequestAck")
    /\ LET u == Head(uplink[g]).u
           p == handovers[u]
       IN IF p = None
          THEN UNCHANGED <<handovers, timers, busy>>
          ELSE /\ handovers' = [handovers EXCEPT ![u].ranOf = g]
               /\ timers' = timers \cup {[kind |-> "overall", u |-> u, no |-> p.no]}
               /\ busy' = [busy EXCEPT ![g] = Forwarding(u, p)]
    /\ uplink' = Popped(uplink, g)
    /\ UNCHANGED <<ues, chain, directory, inbox, answer, tunnel, role, camped, aim,
                   boundVars, given>>

\* The rest of on_handover_request_ack: without a direct path the SMF may have
\* set up a tunnel; that is recorded if a handover is still pending, and the
\* Handover Command goes to the snapshot's source either way.
SendHandoverCommand(g, setUp) ==
    /\ busy[g] # None /\ busy[g].on = "forwarding"
    /\ LET u == busy[g].u
           p == busy[g].p
       IN /\ setUp => ~p.direct
          /\ tunnel' = [tunnel EXCEPT ![u] = @ \/ setUp]
          /\ handovers' = IF handovers[u] = None THEN handovers
                          ELSE [handovers EXCEPT ![u].indirect = setUp]
          /\ inbox' = Send(inbox, p.source, Forward("Command", u, g))
    /\ busy' = [busy EXCEPT ![g] = None]
    /\ UNCHANGED <<ues, chain, directory, timers, answer, envVars, boundVars, given>>

\* on_handover_failure: the target refused; the source is told.
OnHandoverFailure(g) ==
    /\ Takes(g, "HandoverFailure")
    /\ LET u == Head(uplink[g]).u
           p == handovers[u]
       IN /\ handovers' = [handovers EXCEPT ![u] = None]
          /\ inbox' = IF p = None THEN inbox
                      ELSE Send(inbox, p.source, Forward("PreparationFailure", u, None))
    /\ uplink' = Popped(uplink, g)
    /\ UNCHANGED <<ues, chain, directory, timers, busy, answer, tunnel, role, camped,
                   aim, boundVars, given>>

\* Releases the target's prepared context, when its RAN-UE-NGAP-ID is known.
ReleaseTarget(u, p) ==
    IF Commanded(p) THEN Send(inbox, p.target, Forward("Release", u, p.ranOf))
                    ELSE inbox

\* release_indirect_forwarding: a no-op unless the entry says a tunnel is up.
ReleaseTunnel(u, p) == [tunnel EXCEPT ![u] = @ /\ ~p.indirect]

\* on_handover_cancel: always acknowledged.
OnHandoverCancel(g) ==
    /\ Takes(g, "HandoverCancel")
    /\ LET u == Head(uplink[g]).u
           p == handovers[u]
       IN /\ handovers' = [handovers EXCEPT ![u] = None]
          /\ IF p = None
             THEN UNCHANGED <<inbox, tunnel>>
             ELSE /\ inbox' = ReleaseTarget(u, p)
                  /\ tunnel' = ReleaseTunnel(u, p)
          /\ GnbGets(g, u, "CancelAck", None)
    /\ uplink' = Popped(uplink, g)
    /\ UNCHANGED <<ues, chain, directory, timers, busy, answer, camped, aim,
                   boundVars, given>>

-----------------------------------------------------------------------------
(* Taking a context over *)

\* A handler of association g asks the associations in S for the context of u.
Ask(g, S, u) ==
    /\ inbox' = [o \in Gnbs |-> IF o \in S THEN Append(inbox[o], TakeUe(u, g))
                                           ELSE inbox[o]]
    /\ answer' = [answer EXCEPT ![g] = [o \in Gnbs |-> IF o \in S THEN "asked" ELSE None]]

\* The handler stops waiting: the oneshots it still holds are closed.
Abandon(q, g) ==
    [o \in Gnbs |-> [i \in DOMAIN q[o] |->
        IF q[o][i].cmd = "TakeUe" /\ q[o][i].by = g
        THEN [q[o][i] EXCEPT !.live = FALSE] ELSE q[o][i]]]

NoAnswers == [o \in Gnbs |-> None]

\* Mutant: the context is cloned instead of moved.
OnTakeUeClones(g) ==
    /\ busy[g] = None
    /\ inbox[g] # <<>>
    /\ LET c == Head(inbox[g])
           owned == c.u \in ues[g]
       IN /\ c.cmd = "TakeUe"
          /\ answer' = IF c.live
                       THEN [answer EXCEPT ![c.by][g] = IF owned THEN "context" ELSE "none"]
                       ELSE answer
          /\ IF owned THEN GnbGets(g, c.u, "Release", g) ELSE UNCHANGED role
    /\ inbox' = Popped(inbox, g)
    /\ UNCHANGED <<ues, chain, directory, handovers, timers, busy, tunnel, uplink,
                   camped, aim, boundVars, given>>

\* on_take_ue: the owner removes the context, answers, and releases its gNB's
\* side.  An answer on a closed oneshot is dropped, and the context with it.
OnTakeUe(g) ==
    /\ busy[g] = None
    /\ inbox[g] # <<>>
    /\ LET c == Head(inbox[g])
           owned == c.u \in ues[g]
       IN /\ c.cmd = "TakeUe"
          /\ ues' = [ues EXCEPT ![g] = @ \ {c.u}]
          /\ answer' = IF c.live
                       THEN [answer EXCEPT ![c.by][g] = IF owned THEN "context" ELSE "none"]
                       ELSE answer
          /\ IF owned THEN GnbGets(g, c.u, "Release", g) ELSE UNCHANGED role
    /\ inbox' = Popped(inbox, g)
    /\ UNCHANGED <<chain, directory, handovers, timers, busy, tunnel, uplink, camped,
                   aim, boundVars, given>>

\* UeCmd::Forward: the PDU goes out, and gNB g acts on it.  A target admits or
\* refuses a Handover Request.
OnForward(g) ==
    /\ busy[g] = None
    /\ inbox[g] # <<>>
    /\ LET c == Head(inbox[g])
       IN /\ c.cmd = "Forward"
          /\ IF c.pdu = "Request"
             THEN \/ /\ role' = [role EXCEPT ![g][c.u] = "prepared"]
                     /\ uplink' = Send(uplink, g, Msg("HandoverRequestAck", c.u))
                  \/ /\ uplink' = Send(uplink, g, Msg("HandoverFailure", c.u))
                     /\ UNCHANGED role
             ELSE GnbGets(g, c.u, c.pdu, c.x) /\ UNCHANGED uplink
          /\ aim' = IF c.pdu = "Command" THEN [aim EXCEPT ![c.u] = c.x] ELSE aim
    /\ inbox' = Popped(inbox, g)
    /\ UNCHANGED <<ues, chain, directory, handovers, timers, busy, answer, tunnel,
                   camped, boundVars, given>>

\* on_handover_notify up to the take-over: the entry is consumed first.
OnHandoverNotify(g) ==
    /\ Takes(g, "HandoverNotify")
    /\ LET u == Head(uplink[g]).u
           p == handovers[u]
       IN /\ handovers' = [handovers EXCEPT ![u] = None]
          /\ IF p = None
             THEN UNCHANGED <<inbox, answer, busy>>
             ELSE /\ busy' = [busy EXCEPT ![g] = Notify(u, p)]
                  /\ IF u \in ues[g] THEN UNCHANGED <<inbox, answer>>
                                     ELSE Ask(g, {p.source}, u)
    /\ uplink' = Popped(uplink, g)
    /\ UNCHANGED <<ues, chain, directory, timers, tunnel, role, camped, aim,
                   boundVars, given>>

\* Mutant: the callback directory keeps pointing at the source association.
FinishNotifySilently(g) ==
    /\ busy[g] # None /\ busy[g].on = "notify"
    /\ LET u == busy[g].u
           p == busy[g].p
       IN /\ u \in ues[g] \/ answer[g][p.source] = "context"
          /\ ues' = [ues EXCEPT ![g] = @ \cup {u}]
          /\ chain' = [chain EXCEPT ![u] = p.ncc]
          /\ tunnel' = ReleaseTunnel(u, p)
    /\ busy' = [busy EXCEPT ![g] = None]
    /\ answer' = [answer EXCEPT ![g] = NoAnswers]
    /\ UNCHANGED <<directory, handovers, timers, inbox, envVars, boundVars, given>>

\* The rest of on_handover_notify, with the context at hand: new location and
\* {NH, NCC}, callbacks re-pointed here, downlink switched, tunnels released.
FinishNotify(g) ==
    /\ busy[g] # None /\ busy[g].on = "notify"
    /\ LET u == busy[g].u
           p == busy[g].p
       IN /\ u \in ues[g] \/ answer[g][p.source] = "context"
          /\ ues' = [ues EXCEPT ![g] = @ \cup {u}]
          /\ chain' = [chain EXCEPT ![u] = p.ncc]
          /\ directory' = [directory EXCEPT ![u] = g]
          /\ tunnel' = ReleaseTunnel(u, p)
    /\ busy' = [busy EXCEPT ![g] = None]
    /\ answer' = [answer EXCEPT ![g] = NoAnswers]
    /\ UNCHANGED <<handovers, timers, inbox, envVars, boundVars, given>>

\* The source answered that it has no such context.
NotifyUnknown(g) ==
    /\ busy[g] # None /\ busy[g].on = "notify"
    /\ busy[g].u \notin ues[g]
    /\ answer[g][busy[g].p.source] = "none"
    /\ busy' = [busy EXCEPT ![g] = None]
    /\ answer' = [answer EXCEPT ![g] = NoAnswers]
    /\ UNCHANGED <<ues, chain, directory, handovers, timers, inbox, tunnel, envVars,
                   boundVars, given>>

\* 500 ms pass without an answer.  A task that is free answers at once, so this
\* happens only while the source association is held in a handler of its own.
NotifyTimeout(g) ==
    /\ busy[g] # None /\ busy[g].on = "notify"
    /\ answer[g][busy[g].p.source] = "asked"
    /\ busy[busy[g].p.source] # None
    /\ busy' = [busy EXCEPT ![g] = None]
    /\ inbox' = Abandon(inbox, g)
    /\ answer' = [answer EXCEPT ![g] = NoAnswers]
    /\ UNCHANGED <<ues, chain, directory, handovers, timers, tunnel, envVars,
                   boundVars, given>>

\* on_path_switch up to the take-over: every other association is asked.
OnPathSwitch(g) ==
    /\ Takes(g, "PathSwitchRequest")
    /\ LET u == Head(uplink[g]).u
       IN /\ busy' = [busy EXCEPT ![g] = PathSwitch(u)]
          /\ IF u \in ues[g] THEN UNCHANGED <<inbox, answer>>
                             ELSE Ask(g, Gnbs \ {g}, u)
    /\ uplink' = Popped(uplink, g)
    /\ UNCHANGED <<ues, chain, directory, handovers, timers, tunnel, role, camped, aim,
                   boundVars, given>>

\* The rest of on_path_switch, with the context at hand.
FinishPathSwitch(g) ==
    /\ busy[g] # None /\ busy[g].on = "pathSwitch"
    /\ LET u == busy[g].u
       IN /\ u \in ues[g] \/ \E o \in Gnbs : answer[g][o] = "context"
          /\ ues' = [ues EXCEPT ![g] = @ \cup {u}]
          /\ chain' = [chain EXCEPT ![u] = NextNcc(@)]
          /\ directory' = [directory EXCEPT ![u] = g]
          /\ GnbGets(g, u, "PathSwitchAck", None)
    /\ busy' = [busy EXCEPT ![g] = None]
    /\ inbox' = Abandon(inbox, g)
    /\ answer' = [answer EXCEPT ![g] = NoAnswers]
    /\ UNCHANGED <<handovers, timers, tunnel, uplink, camped, aim, boundVars, given>>

\* Every ask was answered without the context or timed out (500 ms, only at an
\* association that is held in a handler of its own).
FailPathSwitch(g) ==
    /\ busy[g] # None /\ busy[g].on = "pathSwitch"
    /\ busy[g].u \notin ues[g]
    /\ \A o \in Gnbs \ {g} :
          answer[g][o] = "none" \/ (answer[g][o] = "asked" /\ busy[o] # None)
    /\ GnbGets(g, busy[g].u, "PathSwitchFailure", None)
    /\ busy' = [busy EXCEPT ![g] = None]
    /\ inbox' = Abandon(inbox, g)
    /\ answer' = [answer EXCEPT ![g] = NoAnswers]
    /\ UNCHANGED <<ues, chain, directory, handovers, timers, tunnel, uplink, camped,
                   aim, boundVars, given>>

-----------------------------------------------------------------------------
(* Timer tasks *)

\* Mutant: the preparation is dropped without telling the source.
ExpirePrepSilently(t) ==
    /\ t \in timers /\ t.kind = "prep"
    /\ LET p == handovers[t.u]
       IN IF p # None /\ ~Commanded(p)
          THEN handovers' = [handovers EXCEPT ![t.u] = None]
          ELSE UNCHANGED handovers
    /\ timers' = timers \ {t}
    /\ UNCHANGED <<ues, chain, directory, inbox, busy, answer, tunnel, envVars,
                   boundVars, given>>

\* expire_handover_prep: drops the UE's pending handover unless commanded.
ExpirePrep(t) ==
    /\ t \in timers /\ t.kind = "prep"
    /\ LET p == handovers[t.u]
       IN IF p # None /\ ~Commanded(p)
          THEN /\ handovers' = [handovers EXCEPT ![t.u] = None]
               /\ inbox' = Send(inbox, p.source, Forward("PreparationFailure", t.u, None))
          ELSE UNCHANGED <<handovers, inbox>>
    /\ timers' = timers \ {t}
    /\ UNCHANGED <<ues, chain, directory, busy, answer, tunnel, envVars, boundVars,
                   given>>

\* expire_handover_overall: drops whatever handover of the UE is pending.
ExpireOverall(t) ==
    /\ t \in timers /\ t.kind = "overall"
    /\ LET p == handovers[t.u]
       IN IF p # None
          THEN /\ handovers' = [handovers EXCEPT ![t.u] = None]
               /\ inbox' = ReleaseTarget(t.u, p)
               /\ tunnel' = ReleaseTunnel(t.u, p)
          ELSE UNCHANGED <<handovers, inbox, tunnel>>
    /\ timers' = timers \ {t}
    /\ UNCHANGED <<ues, chain, directory, busy, answer, envVars, boundVars, given>>

-----------------------------------------------------------------------------
(* The environment *)

\* The serving gNB decides on an N2 handover.
GnbRequires(g, u, t, direct) ==
    /\ role[g][u] = "serving" /\ camped[u] = g
    /\ t # g
    /\ attempt[u] < MaxHandovers
    /\ attempt' = [attempt EXCEPT ![u] = @ + 1]
    /\ role' = [role EXCEPT ![g][u] = "preparing"]
    /\ uplink' = Send(uplink, g, Required(u, t, direct))
    /\ UNCHANGED <<amfVars, camped, aim, switches, slow, given>>

\* The source gives the handover up, or the UE came back to it.
GnbCancels(g, u) ==
    /\ role[g][u] \in {"preparing", "commanded"} /\ camped[u] = g
    /\ role' = [role EXCEPT ![g][u] = "cancelling"]
    /\ uplink' = Send(uplink, g, Msg("HandoverCancel", u))
    /\ UNCHANGED <<amfVars, camped, aim, boundVars, given>>

\* The commanded UE arrives at the target that prepared for it.
UeArrives(u) ==
    /\ role[camped[u]][u] = "commanded"
    /\ role[aim[u]][u] = "prepared"
    /\ camped' = [camped EXCEPT ![u] = aim[u]]
    /\ role' = [role EXCEPT ![aim[u]][u] = "serving"]
    /\ uplink' = Send(uplink, aim[u], Msg("HandoverNotify", u))
    /\ UNCHANGED <<amfVars, aim, boundVars, given>>

\* An Xn handover: the target gNB has the UE and asks for the path.
XnHandover(u, t) ==
    /\ LET s == camped[u] IN role[s][u] = "serving" /\ t # s
    /\ role[t][u] = "none"
    /\ switches[u] < MaxPathSwitches
    /\ switches' = [switches EXCEPT ![u] = @ + 1]
    /\ camped' = [camped EXCEPT ![u] = t]
    /\ role' = [role EXCEPT ![camped[u]][u] = "left", ![t][u] = "serving"]
    /\ uplink' = Send(uplink, t, Msg("PathSwitchRequest", u))
    /\ UNCHANGED <<amfVars, aim, attempt, slow, given>>

-----------------------------------------------------------------------------

AssociationStep(g) ==
    \/ EndSlowCall(g)
    \/ OnHandoverRequired(g) \/ RefuseHandoverRequired(g)
    \/ OnHandoverRequestAck(g) \/ OnHandoverFailure(g) \/ OnHandoverCancel(g)
    \/ \E setUp \in BOOLEAN : SendHandoverCommand(g, setUp)
    \/ OnHandoverNotify(g) \/ FinishNotify(g) \/ NotifyUnknown(g) \/ NotifyTimeout(g)
    \/ OnPathSwitch(g) \/ FinishPathSwitch(g) \/ FailPathSwitch(g)
    \/ OnTakeUe(g) \/ OnForward(g)

TimerStep == \E t \in timers : ExpirePrep(t) \/ ExpireOverall(t)

EnvironmentStep ==
    \/ \E g \in Gnbs : StartSlowCall(g)
    \/ \E g \in Gnbs, u \in UEs : GnbCancels(g, u)
    \/ \E g, t \in Gnbs, u \in UEs, d \in BOOLEAN : GnbRequires(g, u, t, d)
    \/ \E u \in UEs : UeArrives(u)
    \/ \E u \in UEs, t \in Gnbs : XnHandover(u, t)

Next == (\E g \in Gnbs : AssociationStep(g)) \/ TimerStep \/ EnvironmentStep

\* A task that can go on does, and a timer fires; the radio side owes nothing.
Fairness ==
    /\ \A g \in Gnbs : WF_vars(AssociationStep(g))
    /\ WF_vars(TimerStep)

Spec == Init /\ [][Next]_vars /\ Fairness

\* Nothing tells one gNB from another.
GnbSymmetry == Permutations(Gnbs)

-----------------------------------------------------------------------------
(* Properties *)

Commands ==
    [cmd : {"Forward"}, u : UEs, x : Gnbs \cup {None},
     pdu : {"Request", "PreparationFailure", "Command", "Release"}]
    \cup [cmd : {"TakeUe"}, u : UEs, by : Gnbs, live : BOOLEAN]

TypeOK ==
    /\ ues \in [Gnbs -> SUBSET UEs]
    /\ chain \in [UEs -> 0..7]
    /\ directory \in [UEs -> Gnbs]
    /\ \A u \in UEs : handovers[u] # None => handovers[u] \in Pending
    /\ timers \subseteq Timers
    /\ \A g \in Gnbs : \A i \in DOMAIN inbox[g] : inbox[g][i] \in Commands
    /\ answer \in [Gnbs -> [Gnbs -> {None, "asked", "none", "context"}]]
    /\ tunnel \in [UEs -> BOOLEAN]
    /\ role \in [Gnbs -> [UEs -> {"none", "serving", "preparing", "commanded",
                                  "cancelling", "prepared", "left"}]]
    /\ camped \in [UEs -> Gnbs]

\* Where the context of u is: in an association's map, or in the oneshot answer
\* of a handler that has yet to insert it.
Holders(u) ==
    {<<g, g>> : g \in {h \in Gnbs : u \in ues[h]}}
    \cup {w \in Gnbs \X Gnbs : /\ busy[w[1]] # None /\ busy[w[1]] # Slow
                               /\ busy[w[1]].u = u
                               /\ answer[w[1]][w[2]] = "context"}

\* TakeUe moves a context between associations and never copies it: two
\* associations never both believe they serve the UE, whichever handovers, path
\* switches, timeouts and late answers overlap.
SingleOwner == \A u \in UEs : Cardinality(Holders(u)) <= 1

\* UE_DIRECTORY sends SBI callbacks to the association that owns the context
\* (both take-overs re-point it), so no callback is dropped after a hand-over.
DirectoryFollowsOwner ==
    \A g \in Gnbs, u \in UEs : u \in ues[g] => directory[u] = g

\* Nothing is queued, awaited or timed for the UE.
Quiet(u) ==
    /\ handovers[u] = None
    /\ \A g \in Gnbs :
        /\ \A i \in DOMAIN inbox[g] : inbox[g][i].u # u
        /\ \A i \in DOMAIN uplink[g] : uplink[g][i].u # u
        /\ busy[g] # None => busy[g] # Slow /\ busy[g].u # u

\* When a handover or path switch has run its course, whatever interrupted it,
\* a gNB that still serves the UE is the one whose association owns its context.
RanAgreesWithAmf ==
    \A u \in UEs, g \in Gnbs :
        Quiet(u) /\ role[g][u] = "serving" => u \in ues[g]

\* A context in the AMF is not lost by handing it over: on_take_ue is to "Hand a
\* UE context over to the association" that asked, not to drop it.
ContextSurvives == \A u \in UEs : Holders(u) # {}

\* Every in-flight handover leaves HANDOVERS: completed, failed, cancelled, or
\* dropped by TNGRELOCprep before and by TNGRELOCoverall after the acknowledge.
InFlight(u) == handovers[u] # None
PendingEnds == \A u \in UEs : InFlight(u) ~> ~InFlight(u)

\* TNGRELOCprep "bounds the preparation phase ... Expiry fails the handover
\* toward the source": a source that required a handover is always answered,
\* with a command or a failure, even when the target stays silent.
Preparing(u, g) == role[g][u] = "preparing"
SourceAnswered == \A u \in UEs, g \in Gnbs : Preparing(u, g) ~> ~Preparing(u, g)

\* PendingHandover.indirect_active: the forwarding tunnels are "released on
\* completion / cancellation / expiry", so none outlives its handover.
NoOrphanTunnel == \A u \in UEs : Quiet(u) => ~tunnel[u]

\* PendingHandover.target_tx: "cancellation / expiry cleans the target's side
\* through it", so no target keeps a prepared context after the handover.
NoStrandedTarget ==
    \A u \in UEs, g \in Gnbs : Quiet(u) => role[g][u] # "prepared"

\* The preparation's {NH, NCC} is "burned even if the handover fails": no two
\* Handover Requests of a UE carry the same pair.
KeyPairsBurned ==
    \A u \in UEs : \A i, j \in DOMAIN given[u] : i # j => given[u][i] # given[u][j]

\* target_ran_ue_id is "the target's RAN-UE-NGAP-ID, known once it
\* acknowledged": the identity on file is that of the handover's own target.
AckIsFromTarget ==
    \A u \in UEs : handovers[u] # None => handovers[u].ranOf \in {None, handovers[u].target}

\* The timers are per handover ("armed at Handover Required, stopped by the
\* acknowledge"; "armed at the Handover Command, stopped by Handover Notify"):
\* an expiry drops only the handover it was armed for.
TimerDropsOwnHandover ==
    [][\A t \in timers \ timers' :
          handovers[t.u] # None /\ handovers'[t.u] = None => handovers[t.u].no = t.no]_vars

=============================================================================
