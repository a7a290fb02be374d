----------------------------- MODULE N4Exchange -----------------------------
(***************************************************************************)
(* The N4 messages the SMF and a UPF exchange (crates/pfcp) and the SMF's  *)
(* reader that tells answers from reports (N4Peer in nf-smf).              *)
(*                                                                         *)
(* Handlers wait for an answer with the sequence number of their request,  *)
(* 2 s each.  The UPF numbers its reports by itself, so a report may have  *)
(* the number of a request that waits.  UDP delays, reorders, loses and    *)
(* duplicates.  rs_pfcp is external: it keeps what is encoded, and an IE   *)
(* that is Bad does not unmarshal.  Sequence numbers stay below the 24     *)
(* bits PFCP has for them.                                                 *)
(***************************************************************************)
EXTENDS Integers, Sequences, SequencesExt

CONSTANTS
    Kinds,          \* requests the SMF makes
    MaxRequests,    \* bound: requests
    MaxReports,     \* bound: reports of the UPF
    MaxCopies,      \* bound: datagrams delivered twice
    MaxFaults,      \* bound: IEs that are Bad
    None, Bad

VARIABLES
    pending,    \* pending[s]: the kind of request s; it is in the map while result[s] waits
    asked,      \* requests that the UPF has not answered
    answered,   \* answered[s]: what the UPF answered
    result,     \* result[s]: what the handler of request s made of its answer
    net,        \* datagrams under way to the SMF
    reported,   \* reports of the UPF, in the order of their numbers
    reports,    \* reports_rx
    taken,      \* what the report handler made of each
    count       \* requests, copies and faults so far

vars == <<pending, asked, answered, result, net, reported, reports, taken, count>>

-----------------------------------------------------------------------------
(* The messages: a type, the SEID and number of the header, and IEs in order. *)

Message(type, seid, seq, ies) == [type |-> type, seid |-> seid, seq |-> seq, ies |-> ies]
Ie(type, value) == [type |-> type, value |-> value]

Ies(d, type) ==
    LET found == SelectSeq(d.ies, LAMBDA e : e.type = type) IN [i \in DOMAIN found |-> found[i].value]
Readable(values) == SelectSeq(values, LAMBDA v : v # Bad)
FirstOf(values) == IF values = <<>> THEN None ELSE values[1]

\* Volumes are always measured, packets too by this UPF; a report is numbered and has a trigger.
usage_report_for(u, n, trigger) ==
    [urr |-> u.urr, total |-> u.total, pkts |-> u.pkts, seqn |-> n, trigger |-> trigger]
usage_volume_from(r) == [urr |-> r.urr, total |-> r.total, pkts |-> IF r.pkts = None THEN 0 ELSE r.pkts]

\* Reports of the UPF, addressed by the SMF's SEID.
session_report_request(r, seq) ==
    Message("SessionReportRequest", r.seid, seq,
            <<Ie("ReportType", {"usage"}), Ie("UsageReportSrr", usage_report_for(r.usage, 1, "VOLTH"))>>)
session_report_request_dldr(r, seq) ==
    Message("SessionReportRequest", r.seid, seq, <<Ie("ReportType", {"dldr"})>>)

\* The UPF's answers (handle_n4_from).
EstablishmentResponse(a, seq) ==
    Message("SessionEstablishmentResponse", "cp", seq,
            IF ~a.ok THEN <<Ie("Cause", "NoResources"), Ie("Fseid", 0)>>
            ELSE <<Ie("Cause", "Accepted"), Ie("Fseid", a.seid), Ie("CreatedPdr", [pdr |-> 1, teid |-> a.n3])>>
                 \o IF a.dl = None THEN <<>> ELSE <<Ie("CreatedPdr", [pdr |-> 2, teid |-> a.dl])>>)
ModificationResponse(a, seq) ==
    Message("SessionModificationResponse", "up", seq, <<Ie("Cause", IF a.ok THEN "Accepted" ELSE "Rejected")>>)
DeletionResponse(a, seq) ==
    Message("SessionDeletionResponse", "up", seq,
            <<Ie("Cause", IF a.ok THEN "Accepted" ELSE "NotFound")>>
            \o [i \in DOMAIN a.usages |-> Ie("UsageReportSdr", usage_report_for(a.usages[i], i, "TERMR"))])
AssociationSetupResponse(a, seq) ==
    Message("AssociationSetupResponse", None, seq, <<Ie("Cause", "Accepted"), Ie("RecoveryTimeStamp", a.stamp)>>)
HeartbeatResponse(a, seq) == Message("HeartbeatResponse", None, seq, <<Ie("RecoveryTimeStamp", a.stamp)>>)

Response(kind, a, seq) ==
    CASE kind = "establish" -> EstablishmentResponse(a, seq)
      [] kind = "modify" -> ModificationResponse(a, seq)
      [] kind = "delete" -> DeletionResponse(a, seq)
      [] kind = "associate" -> AssociationSetupResponse(a, seq)
      [] kind = "heartbeat" -> HeartbeatResponse(a, seq)

-----------------------------------------------------------------------------
(* The SMF's readers *)

parse_session_report_request(d) ==
    LET u == FirstOf(Ies(d, "UsageReportSrr"))
    IN IF d.type # "SessionReportRequest" \/ u \in {None, Bad} THEN None
       ELSE [kind |-> "usage", seid |-> d.seid, seq |-> d.seq, usage |-> usage_volume_from(u)]

parse_dl_data_report(d) ==
    LET t == FirstOf(Ies(d, "ReportType"))
    IN IF d.type # "SessionReportRequest" \/ t \in {None, Bad} THEN None
       ELSE IF "dldr" \notin t THEN None
       ELSE [kind |-> "dldr", seid |-> d.seid, seq |-> d.seq]

response_accepted(d) == FirstOf(Ies(d, "Cause")) = "Accepted"

\* A classifier's second ingress is PDR 2; PDR 1, or else the first, is the one on N3.
parse_session_establishment_response(d) ==
    LET seid == FirstOf(Ies(d, "Fseid"))
        created == Readable(Ies(d, "CreatedPdr"))
        Teid(pdr) == FirstOf(SelectSeq(created, LAMBDA p : p.pdr = pdr))
    IN IF d.type # "SessionEstablishmentResponse" \/ seid \in {None, Bad} \/ created = <<>> THEN None
       ELSE [seid |-> seid,
             n3 |-> (IF Teid(1) = None THEN created[1] ELSE Teid(1)).teid,
             dl |-> IF Teid(2) = None THEN None ELSE Teid(2).teid]

usages_from_deletion_response(d) ==
    LET rs == Readable(Ies(d, "UsageReportSdr")) IN [i \in DOMAIN rs |-> usage_volume_from(rs[i])]

parse_recovery_timestamp(d) ==
    LET t == FirstOf(Ies(d, "RecoveryTimeStamp")) IN IF t = Bad THEN None ELSE t

\* What the handler of a request makes of the datagram it is given.
Reading(kind, d) ==
    CASE kind = "establish" -> parse_session_establishment_response(d)
      [] kind = "modify" -> response_accepted(d)
      [] kind = "delete" -> [ok |-> response_accepted(d), usages |-> usages_from_deletion_response(d)]
      [] kind = "associate" -> IF response_accepted(d) THEN parse_recovery_timestamp(d) ELSE None
      [] kind = "heartbeat" -> parse_recovery_timestamp(d)

-----------------------------------------------------------------------------
(* The answers a UPF may give and the reports it may have to make *)

Usage(urr, total) == [urr |-> urr, total |-> total, pkts |-> 1]

Answers(kind) ==
    CASE kind = "establish" -> {[ok |-> FALSE], [ok |-> TRUE, seid |-> 7, n3 |-> 10, dl |-> None],
                                [ok |-> TRUE, seid |-> 8, n3 |-> 11, dl |-> 12]}
      [] kind = "modify" -> [ok : BOOLEAN]
      [] kind = "delete" -> {[ok |-> FALSE, usages |-> <<>>], [ok |-> TRUE, usages |-> <<Usage(1, 50)>>],
                             [ok |-> TRUE, usages |-> <<Usage(1, 50), Usage(2001, 20)>>]}
      [] OTHER -> [stamp : {1, 2}]

Reports == {[kind |-> "dldr", seid |-> 3], [kind |-> "usage", seid |-> 3, usage |-> Usage(1, 30)]}

ReportMessage(r, seq) ==
    IF r.kind = "dldr" THEN session_report_request_dldr(r, seq) ELSE session_report_request(r, seq)

-----------------------------------------------------------------------------
Init ==
    /\ pending = <<>> /\ asked = {} /\ answered = <<>> /\ result = <<>>
    /\ net = {} /\ reported = <<>> /\ reports = <<>> /\ taken = <<>>
    /\ count = [copies |-> 0, faults |-> 0]

\* N4Peer.transact: the request has the next number, and its handler waits.
Transact(kind) ==
    LET s == Len(pending) + 1 IN
    /\ s <= MaxRequests
    /\ pending' = Append(pending, kind) /\ asked' = asked \cup {s}
    /\ answered' = Append(answered, None) /\ result' = Append(result, [state |-> "waits"])
    /\ UNCHANGED <<net, reported, reports, taken, count>>

UpfAnswers(s) ==
    /\ asked' = asked \ {s}
    /\ \E a \in Answers(pending[s]) :
         answered' = [answered EXCEPT ![s] = a] /\ net' = net \cup {Response(pending[s], a, s)}
    /\ UNCHANGED <<pending, result, reported, reports, taken, count>>

\* The UPF's reporter has a number of its own, 2 for its first report.
UpfReports(r) ==
    /\ Len(reported) < MaxReports
    /\ reported' = Append(reported, r)
    /\ net' = net \cup {ReportMessage(r, Len(reported) + 2)}
    /\ UNCHANGED <<pending, asked, answered, result, reports, taken, count>>

\* The handler withdraws its request after 2 s.
TimeOut(s) ==
    /\ result[s].state = "waits"
    /\ result' = [result EXCEPT ![s] = [state |-> "gave up"]]
    /\ UNCHANGED <<pending, asked, answered, net, reported, reports, taken, count>>

\* An IE is not encoded as the SMF expects it.
Garble(d, i) ==
    /\ count.faults < MaxFaults /\ d.ies[i].value # Bad
    /\ net' = (net \ {d}) \cup {[d EXCEPT !.ies[i].value = Bad]}
    /\ count' = [count EXCEPT !.faults = @ + 1]
    /\ UNCHANGED <<pending, asked, answered, result, reported, reports, taken>>

IsReport(d) == parse_session_report_request(d) # None \/ parse_dl_data_report(d) # None

\* The reader task: a report goes to the report handler, any other datagram to the handler
\* that waits for its number, if one does.
Receive(d) ==
    LET waits == d.seq \in DOMAIN result /\ result[d.seq].state = "waits" IN
    /\ \/ net' = net \ {d} /\ UNCHANGED count
       \/ net' = net /\ count.copies < MaxCopies /\ count' = [count EXCEPT !.copies = @ + 1]
    /\ reports' = IF IsReport(d) THEN Append(reports, d) ELSE reports
    /\ result' = IF IsReport(d) \/ ~waits THEN result
                 ELSE [result EXCEPT ![d.seq] = [state |-> "heard", value |-> Reading(pending[d.seq], d)]]
    /\ UNCHANGED <<pending, asked, answered, reported, taken>>

\* handle_usage_reports up to its reading of the report, downlink data first.  The
\* acknowledgement, the paging and the charging that follow are in DownlinkWakeup and
\* Charging.
HandleReport ==
    LET d == Head(reports) IN
    /\ reports # <<>> /\ reports' = Tail(reports)
    /\ taken' = Append(taken, IF parse_dl_data_report(d) # None THEN parse_dl_data_report(d)
                              ELSE parse_session_report_request(d))
    /\ UNCHANGED <<pending, asked, answered, result, net, reported, count>>

Next ==
    \/ \E kind \in Kinds : Transact(kind)
    \/ \E s \in asked : UpfAnswers(s)
    \/ \E r \in Reports : UpfReports(r)
    \/ \E s \in DOMAIN result : TimeOut(s)
    \/ \E d \in net : Receive(d) \/ \E i \in DOMAIN d.ies : Garble(d, i)
    \/ HandleReport

Spec == Init /\ [][Next]_vars

-----------------------------------------------------------------------------
(* Properties *)

\* What a request that the UPF answered with a should be found to have led to.
Outcome(kind, a) ==
    CASE kind = "establish" -> IF a.ok THEN [seid |-> a.seid, n3 |-> a.n3, dl |-> a.dl] ELSE None
      [] kind = "modify" -> a.ok
      [] kind = "delete" -> a
      [] OTHER -> a.stamp

Heard == {s \in DOMAIN result : result[s].state = "heard"}

\* A handler acts on what the UPF answered to its very request, all of it, when requests and
\* reports cross, share numbers, come late or twice (transact, the reader of N4Peer).
AnswerIsOwn ==
    count.faults = 0 => \A s \in Heard : answered[s] # None /\ result[s].value = Outcome(pending[s], answered[s])

\* An IE that does not decode, in whichever message, never makes a handler believe more than
\* the UPF told it: a session that is not there, tunnel ends of no session, a request carried
\* out that was refused, usage that was not measured, a start that was not reported.
NothingIsInvented ==
    \A s \in Heard : LET r == result[s].value  a == answered[s] IN
        CASE pending[s] = "establish" ->
               r # None => a # None /\ a.ok /\ r.seid = a.seid /\ r.n3 \in {a.n3, a.dl} /\ r.dl \in {a.dl, None}
          [] pending[s] = "modify" -> r => a # None /\ a.ok
          [] pending[s] = "delete" ->
               /\ r.ok => a # None /\ a.ok
               /\ r.usages # <<>> => ToSet(r.usages) \subseteq ToSet(a.usages) /\ IsInjective(r.usages)
          [] OTHER -> r # None => a # None /\ r = a.stamp

\* The report handler pages for downlink data and bills usage, each for the session and with
\* the volume the UPF reported, and a report is never spent on a handler that waits.
ReportsAreTaken ==
    /\ \A i \in DOMAIN taken :
         LET n == taken[i].seq - 1 IN
         /\ n \in DOMAIN reported /\ taken[i].kind = reported[n].kind /\ taken[i].seid = reported[n].seid
         /\ taken[i].kind = "usage" => taken[i].usage = reported[n].usage
    /\ count.faults = 0 => \A n \in DOMAIN reported :
         \/ ReportMessage(reported[n], n + 1) \in net
         \/ \E i \in DOMAIN reports : reports[i] = ReportMessage(reported[n], n + 1)
         \/ \E i \in DOMAIN taken : taken[i].seq = n + 1
=============================================================================
