------------------------------ MODULE RanCodec ------------------------------
(***************************************************************************)
(* RRC inside F1AP (crates/rrc, crates/f1ap): what the builders put in a   *)
(* message and what the reader at the other end of the Uu or of F1 takes   *)
(* out, through both codecs.                                               *)
(*                                                                         *)
(* A message is the fields its builder sets, those its reader needs and    *)
(* those it returns.  PER is external: it keeps what is encoded.  A number *)
(* that goes through a bit string keeps its low bits: a value is           *)
(* [low, over] with over the bits that do not fit.                         *)
(***************************************************************************)
EXTENDS FiniteSetsExt, Integers, TLC

CONSTANTS
    MaxFaults,      \* fields a peer leaves out, or extensions it uses
    None, Other

VARIABLES
    msg,        \* the F1AP message
    rrc,        \* the RRC message it carries, or None
    given,      \* what the builders were given: field -> value
    wire,       \* the PDU under way
    fault,      \* what a peer did differently
    got         \* what the dispatchers made of it

vars == <<msg, rrc, given, wire, fault, got>>

-----------------------------------------------------------------------------
(* RRC: channel, message, fields; those a peer may leave out; whether the    *)
(* reader looks for a critical extension it does not know.                   *)

Rrc(ch, fields, optional, checked) == [ch |-> ch, fields |-> fields, optional |-> optional, checked |-> checked]

rrc_setup_request == Rrc("ulccch", {"ue_identity", "cause"}, {}, FALSE)
rrc_setup == Rrc("dlccch", {"txn", "cellGroup"}, {}, TRUE)
rrc_setup_complete == Rrc("uldcch", {"txn", "nas"}, {}, TRUE)
ul_information_transfer == Rrc("uldcch", {"nas"}, {"nas"}, TRUE)
security_mode_complete == Rrc("uldcch", {"txn"}, {}, FALSE)
rrc_reconfiguration_complete == Rrc("uldcch", {"txn"}, {}, FALSE)
dl_information_transfer == Rrc("dldcch", {"txn", "nas"}, {"nas"}, TRUE)
security_mode_command == Rrc("dldcch", {"txn", "ciphering", "integrity"}, {"integrity"}, TRUE)
rrc_reconfiguration == Rrc("dldcch", {"txn"}, {}, FALSE)
rrc_release == Rrc("dldcch", {"txn"}, {}, FALSE)

RrcMessages ==
    [rrc_setup_request |-> rrc_setup_request, rrc_setup |-> rrc_setup, rrc_setup_complete |-> rrc_setup_complete,
     ul_information_transfer |-> ul_information_transfer, security_mode_complete |-> security_mode_complete,
     rrc_reconfiguration_complete |-> rrc_reconfiguration_complete,
     dl_information_transfer |-> dl_information_transfer, security_mode_command |-> security_mode_command,
     rrc_reconfiguration |-> rrc_reconfiguration, rrc_release |-> rrc_release]

-----------------------------------------------------------------------------
(* F1AP: form, procedure, fields always and sometimes there, fields needed   *)
(* and returned by the reader.                                               *)

F1(form, proc, always, some, needs, reads) ==
    [form |-> form, proc |-> proc, always |-> always, some |-> some, needs |-> needs, reads |-> reads]

Ids == {"cu", "du"}

f1_setup_request == F1("initiating", "F1Setup", {"txn", "duId", "version"}, {}, {"txn"}, {"txn"})
f1_setup_response == F1("successful", "F1Setup", {"txn", "version"}, {}, {"txn"}, {"txn"})
initial_ul_rrc_message_transfer ==
    F1("initiating", "InitialULRRC", {"du", "cell", "crnti", "rrc"}, {}, {"du", "crnti", "rrc"}, {"du", "crnti", "rrc"})
dl_rrc_message_transfer == F1("initiating", "DLRRC", Ids \cup {"srb", "rrc"}, {}, Ids \cup {"srb", "rrc"}, Ids \cup {"srb", "rrc"})

ul_rrc_message_transfer == F1("initiating", "ULRRC", Ids \cup {"srb", "rrc"}, {}, Ids \cup {"srb", "rrc"}, Ids \cup {"srb", "rrc"})
ue_context_setup_request ==
    F1("initiating", "UEContextSetup", {"cu", "cell", "servCell", "cuToDu", "srbs", "rrc"}, {}, {"cu", "rrc"}, {"cu", "rrc"})
ue_context_setup_response == F1("successful", "UEContextSetup", Ids \cup {"cellGroup"}, {}, Ids \cup {"cellGroup"}, Ids \cup {"cellGroup"})
ue_context_release_command == F1("initiating", "UEContextRelease", Ids \cup {"cause"}, {"rrc"}, Ids, Ids \cup {"cause", "rrc"})
ue_context_release_complete == F1("successful", "UEContextRelease", Ids, {}, Ids, Ids)
ue_context_release_request == F1("initiating", "UEContextReleaseRequest", Ids \cup {"cause"}, {}, Ids, Ids \cup {"cause"})
ue_context_modification_request == F1("initiating", "UEContextModification", Ids \cup {"rrc"}, {}, Ids \cup {"rrc"}, Ids \cup {"rrc"})
ue_context_modification_response == F1("successful", "UEContextModification", Ids, {}, Ids, Ids)
paging == F1("initiating", "Paging", {"ueIndex", "tmsi", "cell"}, {}, {"tmsi"}, {"tmsi"})

F1Messages ==
    [f1_setup_request |-> f1_setup_request, f1_setup_response |-> f1_setup_response,
     initial_ul_rrc_message_transfer |-> initial_ul_rrc_message_transfer,
     dl_rrc_message_transfer |-> dl_rrc_message_transfer, ul_rrc_message_transfer |-> ul_rrc_message_transfer,
     ue_context_setup_request |-> ue_context_setup_request, ue_context_setup_response |-> ue_context_setup_response,
     ue_context_release_command |-> ue_context_release_command,
     ue_context_release_complete |-> ue_context_release_complete,
     ue_context_release_request |-> ue_context_release_request,
     ue_context_modification_request |-> ue_context_modification_request,
     ue_context_modification_response |-> ue_context_modification_response, paging |-> paging]

\* The RRC an F1AP message carries: SRB0 uplink in the initial transfer, the
\* DCCH of its direction and SRB0 downlink in the others.
Carried(m) ==
    CASE m = "initial_ul_rrc_message_transfer" -> {"rrc_setup_request"}
      [] m = "ul_rrc_message_transfer" -> {r \in DOMAIN RrcMessages : RrcMessages[r].ch = "uldcch"}
      [] m = "dl_rrc_message_transfer" -> {r \in DOMAIN RrcMessages : RrcMessages[r].ch \in {"dlccch", "dldcch"}}
      [] m = "ue_context_release_command" -> {"rrc_release", None}
      [] m \in {"ue_context_setup_request", "ue_context_modification_request"} -> {"rrc_reconfiguration"}
      [] OTHER -> {None}

\* The order in which the CU (f1.rs) and the DU (du.rs) try their readers.
CuReaders == <<"f1_setup_request", "initial_ul_rrc_message_transfer", "ul_rrc_message_transfer",
               "ue_context_release_request", "ue_context_setup_response", "ue_context_release_complete">>
DuReaders == <<"dl_rrc_message_transfer", "ue_context_setup_request", "ue_context_release_command", "paging">>

-----------------------------------------------------------------------------
(* Fields *)

Wide == {"ue_identity", "cell", "tmsi", "ueIndex"}      \* bit strings
Low(v) == [v EXCEPT !.over = FALSE]

\* The RRC transaction identifier has two bits.
Masked(v) == v % 4

EncodedRrc(f, v) == IF f = "txn" THEN Masked(v) ELSE IF f \in Wide THEN Low(v) ELSE v
EncodedF1(f, v) == IF f \in Wide THEN Low(v) ELSE v

\* What a reader returns for a field that is not there.
Default(f) ==
    CASE f = "nas" -> "empty"
      [] f = "integrity" -> 0
      [] f = "cause" -> 0
      [] OTHER -> None

Values(f) ==
    CASE f = "txn" -> {0, 3, 4}
      [] f \in Wide -> [low : {1}, over : BOOLEAN]
      [] f = "integrity" -> {0, 2}
      [] f = "cause" -> {3, 10}
      [] OTHER -> {f}

Assignments(S) == FoldSet(LAMBDA f, acc : {g @@ (f :> v) : g \in acc, v \in Values(f)}, {<<>>}, S)

-----------------------------------------------------------------------------
(* Builders and readers *)

BuildRrc(r, a) == [ch |-> RrcMessages[r].ch, m |-> r, known |-> TRUE,
                   fields |-> [f \in RrcMessages[r].fields |-> EncodedRrc(f, a[f])]]

BuildF1(m, a, inner) ==
    LET s == F1Messages[m]
        there == s.always \cup {f \in s.some : inner # None}
    IN [form |-> s.form, proc |-> s.proc,
        ies |-> [f \in there |-> IF f = "rrc" THEN inner ELSE EncodedF1(f, a[f])]]

\* parse_ul_ccch, parse_dl_ccch, parse_ul_dcch, parse_dl_dcch.
ReadRrc(ch, p) ==
    IF p.ch # ch \/ (RrcMessages[p.m].checked /\ ~p.known) THEN Other
    ELSE [m |-> p.m, fields |-> [f \in RrcMessages[p.m].fields |-> IF f \in DOMAIN p.fields THEN p.fields[f] ELSE Default(f)]]

ReadF1(m, p) ==
    LET s == F1Messages[m]
    IN IF \/ p.proc # s.proc \/ ~(s.needs \subseteq DOMAIN p.ies)
          \/ p.form # s.form /\ s.proc # "F1Setup"
       THEN None
       ELSE [m |-> m, fields |-> [f \in s.reads |-> IF f \in DOMAIN p.ies THEN p.ies[f] ELSE Default(f)]]

\* The first reader of a list that reads the PDU.
Dispatch(readers, p) ==
    LET hits == {i \in DOMAIN readers : ReadF1(readers[i], p) # None}
    IN IF hits = {} THEN None ELSE ReadF1(readers[Min(hits)], p)

\* The channel an SRB message is read on: that of the SRB and the direction.
Channel(m) ==
    CASE m = "initial_ul_rrc_message_transfer" -> {"ulccch"}
      [] m = "ul_rrc_message_transfer" -> {"uldcch"}
      [] OTHER -> {"dlccch", "dldcch"}

-----------------------------------------------------------------------------
Init ==
    /\ msg \in DOMAIN F1Messages /\ rrc = None /\ given = None
    /\ wire = None /\ fault = {} /\ got = None

Send ==
    /\ wire = None
    /\ \E r \in Carried(msg) :
         LET own == (F1Messages[msg].always \cup F1Messages[msg].some) \ {"rrc"}
             inner == IF r = None THEN {} ELSE RrcMessages[r].fields
         IN \E a \in Assignments(own), b \in Assignments(inner) :
              /\ rrc' = r
              /\ given' = [f1 |-> a, rrc |-> b]
              /\ wire' = BuildF1(msg, a, IF r = None THEN None ELSE BuildRrc(r, b))
    /\ UNCHANGED <<msg, fault, got>>

Travels == wire # None /\ got = None /\ Cardinality(fault) < MaxFaults

\* A peer leaves an IE of the F1AP message out.
LeaveOut ==
    /\ Travels
    /\ \E f \in DOMAIN wire.ies :
         /\ wire' = [wire EXCEPT !.ies = [g \in DOMAIN wire.ies \ {f} |-> wire.ies[g]]]
         /\ fault' = fault \cup {<<"f1", f>>}
    /\ UNCHANGED <<msg, rrc, given, got>>

\* A peer leaves an optional field of the RRC message out, or speaks a later release.
Differs ==
    /\ Travels /\ rrc # None /\ "rrc" \in DOMAIN wire.ies
    /\ \/ \E f \in RrcMessages[rrc].optional \cap DOMAIN wire.ies.rrc.fields :
            /\ wire' = [wire EXCEPT !.ies.rrc.fields = [g \in DOMAIN @ \ {f} |-> @[g]]]
            /\ fault' = fault \cup {<<"rrc", f>>}
       \/ /\ wire.ies.rrc.known
          /\ wire' = [wire EXCEPT !.ies.rrc.known = FALSE]
          /\ fault' = fault \cup {<<"rrc", "extension">>}
    /\ UNCHANGED <<msg, rrc, given, got>>

\* The CU and the DU each try their readers; RRC is read by the CU or the UE.
Receive ==
    /\ wire # None /\ got = None
    /\ LET inner(x) == IF x = None \/ "rrc" \notin DOMAIN x.fields \/ x.fields.rrc = None THEN None
                       ELSE IF x.fields.rrc.ch \in Channel(x.m) THEN ReadRrc(x.fields.rrc.ch, x.fields.rrc) ELSE Other
           read(readers) == LET x == Dispatch(readers, wire) IN [f1 |-> x, rrc |-> inner(x)]
       IN got' = [cu |-> read(CuReaders), du |-> read(DuReaders)]
    /\ UNCHANGED <<msg, rrc, given, wire, fault>>

Next == Send \/ LeaveOut \/ Differs \/ Receive

Spec == Init /\ [][Next]_vars

-----------------------------------------------------------------------------
(* Properties *)

ToCu(m) == \E i \in DOMAIN CuReaders : CuReaders[i] = m
ToDu(m) == \E i \in DOMAIN DuReaders : DuReaders[i] = m
ReadAt(m) == IF ToCu(m) THEN got.cu ELSE got.du

\* Neither end of F1 takes a message for another: what it reads is what was sent,
\* and it reads nothing of a message meant for the other end (the F1 Setup
\* Response apart, which is read as its request is).
NotConfused ==
    got # None =>
      /\ got.cu.f1 # None => got.cu.f1.m = msg \/ msg = "f1_setup_response"
      /\ got.du.f1 # None => got.du.f1.m = msg

\* Through both codecs, the CU and the UE read what the other end was given, the
\* transaction identifier modulo 4 and wide numbers cut to their bits.
RoundTrip ==
    got # None /\ fault = {} /\ (ToCu(msg) \/ ToDu(msg)) =>
      LET r == ReadAt(msg)
      IN /\ r.f1 # None
         /\ \A f \in DOMAIN r.f1.fields \ {"rrc"} :
              r.f1.fields[f] = IF f \in Wide THEN Low(given.f1[f]) ELSE given.f1[f]
         /\ rrc # None =>
              /\ r.rrc # Other
              /\ r.rrc.m = rrc
              /\ \A f \in DOMAIN r.rrc.fields :
                   r.rrc.fields[f] = CASE f = "txn" -> given.rrc[f] % 4
                                       [] f \in Wide -> Low(given.rrc[f])
                                       [] OTHER -> given.rrc[f]

\* A fault of the peer spoils only what it touches: the message is not read, or
\* every other field is as it was sent; a later release is not acted upon by a
\* reader that looks at the fields of its extension.
FaultIsContained ==
    got # None /\ (ToCu(msg) \/ ToDu(msg)) =>
      LET r == ReadAt(msg)
      IN r.f1 # None =>
           /\ \A f \in DOMAIN r.f1.fields \ ({"rrc"} \cup Wide) : <<"f1", f>> \in fault \/ r.f1.fields[f] = given.f1[f]
           /\ r.rrc \notin {None, Other} =>
                /\ <<"rrc", "extension">> \in fault => ~RrcMessages[rrc].checked
                /\ \A f \in DOMAIN r.rrc.fields \ (Wide \cup {"txn"}) :
                     <<"rrc", f>> \in fault \/ r.rrc.fields[f] = given.rrc[f]
=============================================================================
