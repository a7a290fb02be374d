------------------------------ MODULE Charging ------------------------------
(***************************************************************************)
(* From measured volume to a charging data record: the UPF's usage reports *)
(* and final usage, the SMF's relay of them (handle_usage_reports and      *)
(* teardown_sm_context in nf-smf/src/pdu_session.rs) and the CHF           *)
(* (sbi-core/src/nchf.rs).                                                 *)
(*                                                                         *)
(* One PDU session.  Rating group 0 is the session URR, which is reported  *)
(* when a threshold is reached and when the session ends; group 1 stands   *)
(* for the flows' URRs, reported at the end only.  Two actors tear the     *)
(* session down: the report task, when the CHF says that the quota is      *)
(* spent, and a release by the AMF.  A call of the CHF is a request on its *)
(* way and an answer.  UpfSession has the measurement in detail.           *)
(***************************************************************************)
EXTENDS Integers, Sequences

CONSTANTS
    Threshold,    \* volume of a usage report
    Quota,        \* quota_bytes
    MaxVolume,    \* bound: units of traffic
    MaxReleases,  \* bound: releases by the AMF
    MaxFaults     \* bound: lost reports, failed calls of the CHF, silent UPFs

ChargingAssumption == {Threshold, Quota} \subseteq Nat \ {0} /\ {MaxVolume, MaxReleases, MaxFaults} \subseteq Nat

VARIABLES
    upf,       \* [live, bytes, reported, flow]
    queue,     \* usage reports on N4 and in the SMF's channel
    ctx,       \* the SM context, with its charging session, is there
    task,      \* the report task: [pc, vol]
    amf,       \* the release by the AMF: its pc
    sent,      \* the CHF release requests spawned, and on their way
    cdr,       \* [usage, released]
    carried,   \* history: traffic per rating group
    volume, releases, faults

vars == <<upf, queue, ctx, task, amf, sent, cdr, carried, volume, releases, faults>>

Groups == {0, 1}
Nothing == [g \in Groups |-> 0]
Plus(u, v) == [g \in Groups |-> u[g] + v[g]]
Only(n) == [g \in Groups |-> IF g = 0 THEN n ELSE 0]

Init ==
    /\ upf = [live |-> TRUE, bytes |-> 0, reported |-> 0, flow |-> 0]
    /\ queue = <<>> /\ ctx = TRUE /\ task = [pc |-> "recv", vol |-> 0] /\ amf = "idle" /\ sent = <<>>
    /\ cdr = [usage |-> Nothing, released |-> FALSE]
    /\ carried = Nothing /\ volume = 0 /\ releases = 0 /\ faults = 0

\* A sequence without its i-th element.
Without(s, i) == SubSeq(s, 1, i - 1) \o SubSeq(s, i + 1, Len(s))

Fault == faults < MaxFaults /\ faults' = faults + 1

----------------------------------------------------------------------------
(* The UPF *)

Carry(g) ==
    /\ upf.live /\ volume < MaxVolume /\ volume' = volume + 1
    /\ upf' = IF g = 0 THEN [upf EXCEPT !.bytes = @ + 1] ELSE [upf EXCEPT !.flow = @ + 1]
    /\ carried' = [carried EXCEPT ![g] = @ + 1]
    /\ UNCHANGED <<queue, ctx, task, amf, sent, cdr, releases, faults>>

\* A report of what no earlier one covered; it is not repeated if it is lost.
ReportUsage ==
    /\ upf.live /\ upf.bytes - upf.reported >= Threshold /\ upf' = [upf EXCEPT !.reported = upf.bytes]
    /\ \/ queue' = Append(queue, upf.bytes - upf.reported) /\ UNCHANGED faults
       \/ Fault /\ UNCHANGED queue
    /\ UNCHANGED <<ctx, task, amf, sent, cdr, carried, volume, releases>>

\* The answer to a Session Deletion: the usage not reported yet, and none the second time.
FinalUsageAll == IF upf.live THEN [g \in Groups |-> IF g = 0 THEN upf.bytes ELSE upf.flow] ELSE Nothing
FinalUsage == IF upf.live THEN [g \in Groups |-> IF g = 0 THEN upf.bytes - upf.reported ELSE upf.flow] ELSE Nothing

----------------------------------------------------------------------------
(* The CHF *)

absorb(u) == cdr' = [cdr EXCEPT !.usage = Plus(@, u)]
Total(usage) == usage[0] + usage[1]
Exhausted(usage) == Total(usage) >= Quota

\* update: refused once the record is closed; answered with TERMINATE when the quota is spent.
update ==
    /\ task.pc = "update"
    /\ \/ /\ ~cdr.released /\ absorb(Only(task.vol)) /\ UNCHANGED faults
          /\ task' = [task EXCEPT !.pc = IF Exhausted(cdr'.usage) THEN "terminate" ELSE "recv"]
       \/ cdr.released /\ task' = [task EXCEPT !.pc = "recv"] /\ UNCHANGED <<cdr, faults>>
       \/ Fault /\ task' = [task EXCEPT !.pc = "recv"] /\ UNCHANGED cdr
    /\ UNCHANGED <<upf, queue, ctx, amf, sent, carried, volume, releases>>

\* release: taken in whether or not the record is closed.
release ==
    /\ \E i \in DOMAIN sent :
        /\ sent' = Without(sent, i)
        /\ \/ cdr' = [usage |-> Plus(cdr.usage, sent[i]), released |-> TRUE] /\ UNCHANGED faults
           \/ Fault /\ UNCHANGED cdr
    /\ UNCHANGED <<upf, queue, ctx, task, amf, carried, volume, releases>>

----------------------------------------------------------------------------
(* The SMF *)

\* handle_usage_reports: the session is looked up when its report's turn comes.
Receive ==
    /\ task.pc = "recv" /\ queue # <<>> /\ queue' = Tail(queue)
    /\ task' = IF ctx THEN [pc |-> "update", vol |-> Head(queue)] ELSE task
    /\ UNCHANGED <<upf, ctx, amf, sent, cdr, carried, volume, releases, faults>>

\* teardown_sm_context from the lookup to the UPF's answer, and what follows it.  An answer
\* that the UPF does not know the session counts as one.
Deleted ==
    /\ upf' = [upf EXCEPT !.live = FALSE]
    /\ sent' = Append(sent, FinalUsage)
    /\ ctx' = FALSE
    /\ UNCHANGED <<queue, cdr, carried, volume, releases, faults>>
\* No answer: the context is kept, whether or not the UPF did what it was asked.
Unanswered ==
    /\ Fault /\ upf' \in {upf, [upf EXCEPT !.live = FALSE]}
    /\ UNCHANGED <<queue, ctx, sent, cdr, carried, volume, releases>>

TeardownByQuota ==
    /\ task.pc = "terminate" /\ task' = [task EXCEPT !.pc = IF ctx THEN "delete" ELSE "recv"]
    /\ UNCHANGED <<upf, queue, ctx, amf, sent, cdr, carried, volume, releases, faults>>
QuotaDeletes ==
    /\ task.pc = "delete" /\ task' = [task EXCEPT !.pc = "recv"] /\ UNCHANGED amf
    /\ Deleted \/ Unanswered

TeardownByAmf ==
    /\ amf = "idle" /\ ctx /\ releases < MaxReleases /\ releases' = releases + 1 /\ amf' = "delete"
    /\ UNCHANGED <<upf, queue, ctx, task, sent, cdr, carried, volume, faults>>
AmfDeletes ==
    /\ amf = "delete" /\ amf' = "idle" /\ UNCHANGED task
    /\ Deleted \/ Unanswered

Next ==
    \/ ReportUsage \/ update \/ release \/ Receive
    \/ TeardownByQuota \/ QuotaDeletes \/ TeardownByAmf \/ AmfDeletes
    \/ \E g \in Groups : Carry(g)

Spec == Init /\ [][Next]_vars

Fairness ==
    /\ WF_vars(ReportUsage) /\ WF_vars(update) /\ WF_vars(release) /\ WF_vars(Receive)
    /\ WF_vars(TeardownByQuota) /\ WF_vars(QuotaDeletes) /\ WF_vars(AmfDeletes)
FairSpec == Spec /\ Fairness

----------------------------------------------------------------------------
(* Properties *)

\* No unit is billed twice: whatever the order of reports, a release by the AMF and one by
\* quota that overlap, and calls that fail (teardown_sm_context, Cdr::absorb).
NeverOverbilled == \A g \in Groups : cdr.usage[g] <= carried[g]

\* A session whose recorded usage has reached the quota ends, and its record is closed,
\* also when the AMF releases it at the same time; as long as no call fails (update,
\* handle_usage_reports).
OverQuota == Total(cdr.usage) >= Quota /\ faults = 0 /\ ~cdr.released
QuotaEnds == OverQuota ~> ~OverQuota

(* What it follows from *)

Stages == {"recv", "update", "terminate", "delete"}
ChargingTypes ==
    /\ upf \in [live : BOOLEAN, bytes : Nat, reported : Nat, flow : Nat] /\ upf.reported <= upf.bytes
    /\ queue \in Seq(Nat) /\ task \in [pc : Stages, vol : Nat] /\ sent \in Seq([Groups -> Nat])
    /\ cdr \in [usage : [Groups -> Nat], released : BOOLEAN] /\ carried \in [Groups -> Nat]

\* The UPF gives the final usage once; the flows are billed with it.
OneFinal ==
    /\ upf.live => cdr.usage[1] = 0 /\ upf.flow <= carried[1] /\ \A i \in DOMAIN sent : sent[i] = Nothing
    /\ cdr.usage[1] <= carried[1]
    /\ \A i \in DOMAIN sent :
         /\ cdr.usage[1] + sent[i][1] <= carried[1]
         /\ \A j \in DOMAIN sent \ {i} : sent[i] = Nothing \/ sent[j] = Nothing

\* r: what is billed once the report in hand, the final usage and the first i reports are in.
InHand == IF task.pc = "update" THEN task.vol ELSE 0
RunsUp(r) ==
    /\ cdr.usage[0] + InHand <= r[0]
    /\ \A i \in DOMAIN sent : cdr.usage[0] + InHand + sent[i][0] <= r[0]
    /\ \A i \in 1..Len(queue) : r[i-1] + queue[i] <= r[i]
    /\ \A i \in 0..Len(queue) : r[i] + FinalUsage[0] <= carried[0]
ChargingIInv == ChargingTypes /\ OneFinal /\ \E r \in [0..Len(queue) -> Nat] : RunsUp(r)

(* Refuted *)

\* "A charging data record: the accumulated usage of one PDU session, per rating group.
\* Closed (released) at session teardown" (Cdr): a closed record with nothing on its way
\* has all of it.
CdrIsComplete ==
    (cdr.released /\ sent = <<>> /\ queue = <<>> /\ task.pc = "recv" /\ amf = "idle") => cdr.usage = carried
=============================================================================
