----------------------------- MODULE NgapCodec -----------------------------
(***************************************************************************)
(* The NGAP messages the AMF and the gNB exchange (crates/ngap): what each *)
(* builder puts in a PDU and what its reader takes out.                    *)
(*                                                                         *)
(* A message is described by the IEs its builder always includes, includes *)
(* when it is given a value, or includes when a list is not empty, and by  *)
(* the IEs its reader returns and those without which it returns None.     *)
(* The N2 SM information of a PDU session is a transfer encoded by itself  *)
(* inside the item.  APER is external: it keeps what is encoded, and       *)
(* refuses a list IE of size 1.. that is empty.                            *)
(***************************************************************************)
EXTENDS SequencesExt, Integers, FiniteSetsExt, TLC

CONSTANTS
    MaxFaults,      \* IEs a peer leaves out, or transfers it garbles
    None, Bad, Refused

VARIABLES
    msg,        \* the message sent
    args,       \* what its builder was given
    wire,       \* the PDU under way, None, or Refused by the encoder
    got,        \* what every reader makes of it
    fault       \* what the peer got wrong

vars == <<msg, args, wire, got, fault>>

-----------------------------------------------------------------------------
(* The messages *)

Shape(form, proc, always, some, nonempty, needs, reads) ==
    [form |-> form, proc |-> proc, always |-> always, some |-> some,
     nonempty |-> nonempty, needs |-> needs, reads |-> reads]

Ids == {"amf", "ran"}

\* Interface management
NGSetupRequest == Shape("initiating", "NGSetup", {"gnbId", "tacs", "drx"}, {}, {}, {}, {"gnbId", "tacs"})
NGSetupResponse == Shape("successful", "NGSetup", {"amfName", "guamis", "capacity", "plmns"}, {}, {}, {}, {})
NGReset == Shape("initiating", "NGReset", {"cause", "resetType"}, {}, {}, {"resetType"}, {"resetType"})
NGResetAcknowledge == Shape("successful", "NGReset", {}, {}, {"ues"}, {}, {"ues"})
RANConfigurationUpdate == Shape("initiating", "RANConfigurationUpdate", {"name", "tacs"}, {}, {}, {}, {"name", "tacs"})
ErrorIndication == Shape("initiating", "ErrorIndication", {"cause"}, Ids, {}, {}, Ids)
OverloadStart == Shape("initiating", "OverloadStart", {"action"}, {}, {}, {"action"}, {"action"})
OverloadStop == Shape("initiating", "OverloadStop", {}, {}, {}, {}, {})
Paging == Shape("initiating", "Paging", {"tmsi", "tacs"}, {}, {}, {}, {"tmsi", "tacs"})

\* NAS transport and the UE context
InitialUEMessage == Shape("initiating", "InitialUEMessage", {"ran", "nas"}, {"tmsi", "tac"}, {}, {}, {"tmsi", "tac"})
DownlinkNASTransport == Shape("initiating", "DownlinkNASTransport", Ids \cup {"nas"}, {"areas"}, {}, {}, {"areas"})
UEContextReleaseRequest == Shape("initiating", "UEContextReleaseRequest", Ids \cup {"cause"}, {}, {}, Ids, Ids)
UEContextReleaseCommand ==
    Shape("initiating", "UEContextRelease", {"idPair"}, {"nasCause", "radioCause"}, {}, {"idPair"}, {"idPair", "nasCause"})
UEContextReleaseCommandRadio == [UEContextReleaseCommand EXCEPT !.needs = {"radioCause"}, !.reads = {"radioCause"}]
UERadioCapabilityInfoIndication ==
    Shape("initiating", "UERadioCapabilityInfoIndication", Ids \cup {"cap"}, {}, {}, {"amf", "cap"}, {"amf", "cap"})
InitialContextSetupRequest ==
    Shape("initiating", "InitialContextSetup", Ids \cup {"guami", "nssai", "secCap", "key", "nas"},
          {"ambr", "areas", "rfsp", "cap"}, {"setup"}, Ids,
          Ids \cup {"nssai", "secCap", "key", "ambr", "rfsp", "areas", "nas", "cap"})
InitialContextSetupSessions == [InitialContextSetupRequest EXCEPT !.needs = {}, !.reads = {"setup"}]
InitialContextSetupResponse ==
    Shape("successful", "InitialContextSetup", Ids, {}, {"admitted", "failed"}, Ids, Ids \cup {"admitted", "failed"})
UEContextModificationRequest ==
    Shape("initiating", "UEContextModification", Ids, {"rfsp", "ambr"}, {}, Ids, Ids \cup {"rfsp", "ambr"})
UEContextModificationResponse == Shape("successful", "UEContextModification", Ids, {}, {}, Ids, Ids)

\* Mobility
PathSwitchRequest ==
    Shape("initiating", "PathSwitchRequest", Ids \cup {"tac", "secCap", "switch"}, {}, {}, Ids, Ids \cup {"tac", "switch"})
PathSwitchRequestAcknowledge ==
    Shape("successful", "PathSwitchRequest", Ids \cup {"nhPair", "psis"}, {}, {}, {"nhPair"}, {"nhPair", "psis"})
PathSwitchRequestFailure ==
    Shape("unsuccessful", "PathSwitchRequest", Ids \cup {"psis"}, {}, {}, Ids, Ids \cup {"psis"})
HandoverRequired ==
    Shape("initiating", "HandoverPreparation", Ids \cup {"type", "cause", "gnbId", "toMove", "container"}, {}, {},
          Ids \cup {"gnbId", "container"}, Ids \cup {"gnbId", "toMove", "container"})
HandoverCommand ==
    Shape("successful", "HandoverPreparation", Ids \cup {"type", "container"}, {}, {"forward"},
          Ids \cup {"container"}, Ids \cup {"forward", "container"})
HandoverPreparationFailure ==
    Shape("unsuccessful", "HandoverPreparation", Ids \cup {"cause"}, {}, {}, Ids, Ids \cup {"cause"})
HandoverRequest ==
    Shape("initiating", "HandoverResourceAllocation",
          {"amf", "type", "cause", "ambr", "secCap", "nhPair", "setup", "nssai", "container", "guami"}, {}, {},
          {"amf", "nhPair", "container"}, {"amf", "nhPair", "setup", "container"})
HandoverRequestAcknowledge ==
    Shape("successful", "HandoverResourceAllocation", Ids \cup {"admitted", "container"}, {}, {},
          Ids \cup {"container"}, Ids \cup {"admitted", "container"})
HandoverFailure ==
    Shape("unsuccessful", "HandoverResourceAllocation", {"amf", "cause"}, {}, {}, {"amf"}, {"amf", "cause"})
HandoverNotify == Shape("initiating", "HandoverNotification", Ids \cup {"tac"}, {}, {}, Ids, Ids \cup {"tac"})
HandoverCancel == Shape("initiating", "HandoverCancel", Ids \cup {"cause"}, {}, {}, Ids, Ids)
HandoverCancelAcknowledge == Shape("successful", "HandoverCancel", Ids, {}, {}, Ids, Ids)

\* PDU sessions
PDUSessionResourceSetupRequest ==
    Shape("initiating", "PDUSessionResourceSetup", Ids \cup {"ambr", "setup"}, {}, {}, Ids \cup {"setup"}, Ids \cup {"setup"})
PDUSessionResourceSetupResponse ==
    Shape("successful", "PDUSessionResourceSetup", Ids \cup {"one"}, {}, {}, {"one"}, {"one"})
PDUSessionResourceModifyRequest ==
    Shape("initiating", "PDUSessionResourceModify", Ids \cup {"modify"}, {}, {}, {"modify"}, {"modify"})
PDUSessionResourceModifyResponse ==
    Shape("successful", "PDUSessionResourceModify", Ids \cup {"psis"}, {}, {}, Ids, Ids \cup {"psis"})
PDUSessionResourceReleaseCommand ==
    Shape("initiating", "PDUSessionResourceRelease", Ids \cup {"nas", "release"}, {}, {}, {"nas", "release"}, {"nas", "release"})
PDUSessionResourceReleaseResponse ==
    Shape("successful", "PDUSessionResourceRelease", Ids \cup {"psis"}, {}, {}, Ids, Ids \cup {"psis"})

Shapes ==
    [NGSetupRequest |-> NGSetupRequest, NGSetupResponse |-> NGSetupResponse, NGReset |-> NGReset,
     NGResetAcknowledge |-> NGResetAcknowledge, RANConfigurationUpdate |-> RANConfigurationUpdate,
     ErrorIndication |-> ErrorIndication, OverloadStart |-> OverloadStart, OverloadStop |-> OverloadStop,
     Paging |-> Paging, InitialUEMessage |-> InitialUEMessage, DownlinkNASTransport |-> DownlinkNASTransport,
     UEContextReleaseRequest |-> UEContextReleaseRequest, UEContextReleaseCommand |-> UEContextReleaseCommand,
     UEContextReleaseCommandRadio |-> UEContextReleaseCommandRadio,
     UERadioCapabilityInfoIndication |-> UERadioCapabilityInfoIndication,
     InitialContextSetupRequest |-> InitialContextSetupRequest,
     InitialContextSetupResponse |-> InitialContextSetupResponse,
     InitialContextSetupSessions |-> InitialContextSetupSessions,
     UEContextModificationRequest |-> UEContextModificationRequest,
     UEContextModificationResponse |-> UEContextModificationResponse,
     PathSwitchRequest |-> PathSwitchRequest, PathSwitchRequestAcknowledge |-> PathSwitchRequestAcknowledge,
     PathSwitchRequestFailure |-> PathSwitchRequestFailure, HandoverRequired |-> HandoverRequired,
     HandoverCommand |-> HandoverCommand, HandoverPreparationFailure |-> HandoverPreparationFailure,
     HandoverRequest |-> HandoverRequest, HandoverRequestAcknowledge |-> HandoverRequestAcknowledge,
     HandoverFailure |-> HandoverFailure, HandoverNotify |-> HandoverNotify, HandoverCancel |-> HandoverCancel,
     HandoverCancelAcknowledge |-> HandoverCancelAcknowledge,
     PDUSessionResourceSetupRequest |-> PDUSessionResourceSetupRequest,
     PDUSessionResourceSetupResponse |-> PDUSessionResourceSetupResponse,
     PDUSessionResourceModifyRequest |-> PDUSessionResourceModifyRequest,
     PDUSessionResourceModifyResponse |-> PDUSessionResourceModifyResponse,
     PDUSessionResourceReleaseCommand |-> PDUSessionResourceReleaseCommand,
     PDUSessionResourceReleaseResponse |-> PDUSessionResourceReleaseResponse]

-----------------------------------------------------------------------------
(* IEs with a structure *)

\* A message with a second reader: the sessions of an Initial Context Setup, the
\* radio cause of a release command.
SecondReader == [InitialContextSetupSessions |-> "InitialContextSetupRequest",
                 UEContextReleaseCommandRadio |-> "UEContextReleaseCommand"]

SessionLists == {"setup", "admitted", "switch", "forward"}  \* items with a tunnel in the transfer
Singles == {"one", "modify", "release"}                     \* one item is built, the first is read
Lists == SessionLists \cup {"tacs", "psis", "ues", "nssai", "failed", "toMove"}

\* The transfer of a session item: a tunnel, and the QoS flows of a request.
\* The lists of a modification are included when they are not empty.
Transfer(f, v) ==
    CASE f = "setup" -> [teid |-> v.teid, flows |-> v.flows]
      [] f = "modify" -> [ambr |-> v.ambr] @@ [k \in {k \in {"flows", "released"} : v[k] # <<>>} |-> v[k]]
      [] f = "release" -> "normal release"
      [] OTHER -> [teid |-> v.teid]

\* What a builder makes of an argument: encode_aper for transfers, omitted
\* areas for empty ones, the forwarding flag in every item.
WireOf(f, v) ==
    CASE f \in SessionLists -> [i \in DOMAIN v |-> [psi |-> v[i].psi, transfer |-> Transfer(f, v[i])]]
      [] f = "failed" -> [i \in DOMAIN v |-> [psi |-> v[i].psi, transfer |-> v[i].cause]]
      [] f \in Singles -> <<[psi |-> v.psi, nas |-> v.nas, transfer |-> Transfer(f, v)]>>
      [] f = "toMove" -> [i \in DOMAIN v.psis |-> [psi |-> v.psis[i], transfer |-> v.direct]]
      [] f = "areas" -> [k \in {k \in {"allowed", "notAllowed"} : v[k] # <<>>} |-> v[k]]
      [] OTHER -> v

Decodable(item) == item.transfer # Bad

\* What a reader makes of an IE: an item whose transfer does not decode is left
\* out, except that the cause of a failed session becomes 0xff; the handover is
\* direct when any item says so.
FromWire(f, w) ==
    CASE f \in SessionLists ->
           LET good == SelectSeq(w, Decodable)
           IN [i \in DOMAIN good |-> [psi |-> good[i].psi, teid |-> good[i].transfer.teid]]
      [] f = "failed" ->
           [i \in DOMAIN w |-> [psi |-> w[i].psi, cause |-> IF Decodable(w[i]) THEN w[i].transfer ELSE 255]]
      [] f = "one" -> [psi |-> w[1].psi, teid |-> w[1].transfer.teid]
      [] f \in Singles -> [psi |-> w[1].psi, nas |-> w[1].nas]
      [] f = "toMove" ->
           [psis |-> [i \in DOMAIN w |-> w[i].psi], direct |-> \E i \in DOMAIN w : w[i].transfer = TRUE]
      [] f = "areas" ->
           [k \in {"allowed", "notAllowed"} |-> IF k \in DOMAIN w THEN w[k] ELSE <<>>]
      [] OTHER -> w

\* Mutant: a list that is left out is not read as an empty one.
AbsentIsNone(f) == None

\* What a reader returns for an IE that is not there.
Absent(f) ==
    CASE f \in Lists \ {"toMove", "tacs"} -> <<>>
      [] f = "toMove" -> [psis |-> <<>>, direct |-> FALSE]
      [] f = "key" -> "zero"
      [] f = "secCap" -> "zero"
      [] f = "nas" -> "empty"
      [] OTHER -> None

-----------------------------------------------------------------------------
(* Builders, readers and the codec *)

Fields(m) == Shapes[m].always \cup Shapes[m].some \cup Shapes[m].nonempty

Build(m, a) ==
    LET s == Shapes[m]
        there == s.always \cup {f \in s.some : a[f] # None} \cup {f \in s.nonempty : a[f] # <<>>}
    IN [form |-> s.form, proc |-> s.proc, ies |-> [f \in there |-> WireOf(f, a[f])]]

\* NGAP_PDU::encode: a list IE has at least one item.
Encodes(p) == \A f \in DOMAIN p.ies \cap Lists : p.ies[f] # <<>>

\* A reader that decodes the transfer of the only item needs it to decode.
Unreadable(f, w) == f = "one" /\ ~Decodable(w[1])

Read(m, p) ==
    LET s == Shapes[m]
    IN IF \/ p.form # s.form \/ p.proc # s.proc \/ ~(s.needs \subseteq DOMAIN p.ies)
          \/ \E f \in s.needs : Unreadable(f, p.ies[f])
       THEN None
       ELSE [f \in s.reads |-> IF f \in DOMAIN p.ies THEN FromWire(f, p.ies[f]) ELSE Absent(f)]

-----------------------------------------------------------------------------
(* The arguments a builder may be given *)

Flows == {<<[qfi |-> 1, gbr |-> None]>>, <<[qfi |-> 1, gbr |-> None], [qfi |-> 2, gbr |-> 5]>>}
Item(psi, flows) == [psi |-> psi, teid |-> 10 + psi, flows |-> flows, nas |-> "nas"]

Values(f) ==
    CASE f \in SessionLists -> {<<>>} \cup {<<Item(1, q)>> : q \in Flows} \cup {<<Item(1, q), Item(2, q)>> : q \in Flows}
      [] f = "failed" -> {<<>>, <<[psi |-> 3, cause |-> 0]>>}
      [] f = "modify" -> [psi : {1}, nas : {"nas"}, ambr : {7}, flows : Flows \cup {<<>>}, released : {<<>>, <<3>>}]
      [] f \in Singles -> {Item(1, <<>>)}
      [] f = "toMove" -> [psis : {<<>>, <<1, 2>>}, direct : BOOLEAN]
      [] f = "areas" -> [allowed : {<<>>, <<1>>}, notAllowed : {<<>>, <<2>>}]
      [] f = "resetType" -> {<<>>, <<[amf |-> 1, ran |-> 2]>>}    \* <<>>: the whole interface
      [] f \in Lists -> {<<>>, <<1>>, <<1, 2>>}
      [] OTHER -> {f}

MayBe(m, f) == Values(f) \cup (IF f \in Shapes[m].some THEN {None} ELSE {})

Arguments(m) ==
    FoldSet(LAMBDA f, acc : {g @@ (f :> v) : g \in acc, v \in MayBe(m, f)}, {<<>>}, Fields(m))

-----------------------------------------------------------------------------
Init ==
    /\ msg \in DOMAIN Shapes \ DOMAIN SecondReader /\ args = None
    /\ wire = None /\ got = None /\ fault = <<>>

\* A message is built, encoded and sent.
Send ==
    /\ args = None
    /\ \E a \in Arguments(msg) :
         /\ msg = "UEContextReleaseCommand" => (a.nasCause = None) # (a.radioCause = None)
         /\ args' = a
         /\ wire' = IF Encodes(Build(msg, a)) THEN Build(msg, a) ELSE Refused
    /\ UNCHANGED <<msg, got, fault>>

OnTheWire == wire # None /\ wire # Refused /\ got = None

\* A peer leaves an IE out.
LeaveOut ==
    /\ OnTheWire /\ Len(fault) < MaxFaults
    /\ \E f \in DOMAIN wire.ies :
         /\ wire' = [wire EXCEPT !.ies = [g \in DOMAIN wire.ies \ {f} |-> wire.ies[g]]]
         /\ fault' = Append(fault, <<"left out", f>>)
    /\ UNCHANGED <<msg, args, got>>

\* A peer's transfer does not decode.
Garble ==
    /\ OnTheWire /\ Len(fault) < MaxFaults
    /\ \E f \in DOMAIN wire.ies \cap (SessionLists \cup {"failed", "one"}) : \E i \in DOMAIN wire.ies[f] :
         /\ wire' = [wire EXCEPT !.ies[f][i].transfer = Bad]
         /\ fault' = Append(fault, <<"garbled", f, wire.ies[f][i].psi>>)
    /\ UNCHANGED <<msg, args, got>>

Receive ==
    /\ OnTheWire
    /\ got' = [m \in DOMAIN Shapes |-> Read(m, wire)]
    /\ UNCHANGED <<msg, args, wire, fault>>

Next == Send \/ LeaveOut \/ Garble \/ Receive

Spec == Init /\ [][Next]_vars

-----------------------------------------------------------------------------
(* Properties *)

\* A handler never acts on a PDU of another procedure or outcome: what a reader
\* reads was sent as its message.
NotConfused ==
    got # None => \A m \in DOMAIN Shapes :
      got[m] # None =>
        \/ m = msg
        \/ m \in DOMAIN SecondReader /\ SecondReader[m] = msg

WasRead(m) == got[m] # None

\* What the builder was given for an IE, as far as a reader returns it.
Given(f) ==
    CASE f \in SessionLists -> [i \in DOMAIN args[f] |-> [psi |-> args[f][i].psi, teid |-> args[f][i].teid]]
      [] f = "one" -> [psi |-> args[f].psi, teid |-> args[f].teid]
      [] f \in Singles -> [psi |-> args[f].psi, nas |-> args[f].nas]
      [] OTHER -> args[f]

\* What the AMF or the gNB put in a message is what the other takes out, IEs left
\* out because they were empty included.
RoundTrip ==
    got # None /\ fault = <<>> /\ msg \notin DOMAIN SecondReader
      => /\ WasRead(msg)
         /\ \A f \in Shapes[msg].reads : got[msg][f] = Given(f)

\* A session whose transfer does not decode is the only one lost: a reader never
\* drops the other sessions of the message, nor takes a tunnel it was not sent.
OnlyGarbledIsLost ==
    got # None /\ (\A i \in DOMAIN fault : fault[i][1] = "garbled") =>
      \A f \in Shapes[msg].reads \cap SessionLists :
        /\ WasRead(msg)
        /\ LET kept(item) == ~\E i \in DOMAIN fault : fault[i] = <<"garbled", f, item.psi>>
           IN got[msg][f] = SelectSeq(Given(f), kept)

\* The doc of InitialContext: it is "also what [`initial_context_setup_params`]
\* parses back".
ContextIsReadBack ==
    got # None /\ fault = <<>> /\ msg = "InitialContextSetupRequest" =>
      \A f \in Fields(msg) \ {"guami"} :
        (IF f \in DOMAIN got[msg] THEN got[msg][f] ELSE Absent(f)) = Given(f)

\* Whatever the AMF or the gNB has to say, the encoder takes it.
Encodable == wire # Refused
=============================================================================
