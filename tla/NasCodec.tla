------------------------------ MODULE NasCodec ------------------------------
(***************************************************************************)
(* The 5GMM messages of the UE and the AMF (crates/nas): what a builder    *)
(* puts in each and what every reader makes of it, with the values that    *)
(* are encoded by hand (slices, session bitmaps, timers, the TAI list, the *)
(* packed half octets, the concealed identity).  The framing of messages   *)
(* and IEs is oxirush_nas's: it keeps what it is given.                    *)
(***************************************************************************)
EXTENDS GprsTimers, SequencesExt, FiniteSetsExt, TLC

CONSTANTS
    MaxTais,        \* entries of a TAI list that fit: 16
    Others,         \* lengths of S-NSSAI entries that are not understood
    None

VARIABLES
    msg, args,      \* the message and what its builder was given
    wire,           \* [type, ies] under way
    foreign,        \* whether the peer added a slice entry of its own kind
    got             \* what every reader makes of it

vars == <<msg, args, wire, foreign, got>>

-----------------------------------------------------------------------------
(* Builders: the message's type, the IEs it always has, those it has when a *)
(* value is given, and those it has when a list is not empty.               *)

Build5gmm(type, always, some, nonempty) == [type |-> type, always |-> always, some |-> some, nonempty |-> nonempty]

IdentityRequest == Build5gmm("IdentityRequest", {"idType"}, {}, {})
IdentityResponse == Build5gmm("IdentityResponse", {"suci"}, {}, {})
AuthenticationRequest == Build5gmm("AuthenticationRequest", {"ngksi", "abba", "rand", "autn"}, {}, {})
AuthenticationResponse == Build5gmm("AuthenticationResponse", {"res"}, {}, {})
AuthenticationReject == Build5gmm("AuthenticationReject", {}, {}, {})
AuthenticationFailure == Build5gmm("AuthenticationFailure", {"cause", "auts"}, {}, {})
SecurityModeCommand == Build5gmm("SecurityModeCommand", {"algorithms", "ngksi", "secCap"}, {}, {})
SecurityModeComplete == Build5gmm("SecurityModeComplete", {}, {}, {})
RegistrationRequestSuci == Build5gmm("RegistrationRequest", {"regType", "suci", "secCap"}, {}, {"requested"})
RegistrationRequestGuti == Build5gmm("RegistrationRequest", {"regType", "guti", "secCap"}, {}, {})
RegistrationRequestOfType == Build5gmm("RegistrationRequest", {"regType", "guti"}, {}, {"uplink"})

RegistrationAccept ==
    Build5gmm("RegistrationAccept", {"result", "guti", "t3512"}, {"status"}, {"tais", "allowed", "rejected"})
RegistrationReject == Build5gmm("RegistrationReject", {"cause"}, {"t3346"}, {"rejected"})
RegistrationComplete == Build5gmm("RegistrationComplete", {}, {}, {})
DeregistrationRequestFromUe == Build5gmm("DeregistrationRequestFromUe", {"deregType", "guti"}, {}, {})
DeregistrationAcceptFromUe == Build5gmm("DeregistrationAcceptFromUe", {}, {}, {})
DeregistrationRequestToUe == Build5gmm("DeregistrationRequestToUe", {"deregType"}, {}, {})

DeregistrationAcceptToUe == Build5gmm("DeregistrationAcceptToUe", {}, {}, {})
ServiceRequest == Build5gmm("ServiceRequest", {"serviceKsi", "guti"}, {"status"}, {})
ServiceAccept == Build5gmm("ServiceAccept", {}, {"status"}, {})
ServiceReject == Build5gmm("ServiceReject", {"cause"}, {}, {})
ConfigurationUpdateCommand == Build5gmm("ConfigurationUpdateCommand", {}, {"indication"}, {"allowed"})
ConfigurationUpdateComplete == Build5gmm("ConfigurationUpdateComplete", {}, {}, {})
UlNasTransport == Build5gmm("UlNasTransport", {"container", "psi"}, {"dnn", "snssai"}, {})
DlNasTransport == Build5gmm("DlNasTransport", {"container", "psi"}, {}, {})

Builders ==
    [IdentityRequest |-> IdentityRequest, IdentityResponse |-> IdentityResponse,
     AuthenticationRequest |-> AuthenticationRequest, AuthenticationResponse |-> AuthenticationResponse,
     AuthenticationReject |-> AuthenticationReject, AuthenticationFailure |-> AuthenticationFailure,
     SecurityModeCommand |-> SecurityModeCommand, SecurityModeComplete |-> SecurityModeComplete,
     RegistrationRequestSuci |-> RegistrationRequestSuci, RegistrationRequestGuti |-> RegistrationRequestGuti,
     RegistrationRequestOfType |-> RegistrationRequestOfType, RegistrationAccept |-> RegistrationAccept,
     RegistrationReject |-> RegistrationReject, RegistrationComplete |-> RegistrationComplete,
     DeregistrationRequestFromUe |-> DeregistrationRequestFromUe,
     DeregistrationAcceptFromUe |-> DeregistrationAcceptFromUe,
     DeregistrationRequestToUe |-> DeregistrationRequestToUe, DeregistrationAcceptToUe |-> DeregistrationAcceptToUe,
     ServiceRequest |-> ServiceRequest, ServiceAccept |-> ServiceAccept, ServiceReject |-> ServiceReject,
     ConfigurationUpdateCommand |-> ConfigurationUpdateCommand,
     ConfigurationUpdateComplete |-> ConfigurationUpdateComplete,
     UlNasTransport |-> UlNasTransport, DlNasTransport |-> DlNasTransport]

-----------------------------------------------------------------------------
(* Readers: the message types each looks at and the IE it returns.          *)

Reader(types, field) == [types |-> types, field |-> field]

Readers ==
    [supi_from_identity_response |-> Reader({"IdentityResponse"}, "suci"),
     parse_authentication_request |-> Reader({"AuthenticationRequest"}, "rand"),
     res_star_from_authentication_response |-> Reader({"AuthenticationResponse"}, "res"),
     authentication_failure_info |-> Reader({"AuthenticationFailure"}, "auts"),
     security_mode_selection |-> Reader({"SecurityModeCommand"}, "algorithms"),
     requested_nssai_from_registration_request |-> Reader({"RegistrationRequest"}, "requested"),
     guti_tmsi_from_registration_request |-> Reader({"RegistrationRequest"}, "guti"),
     registration_type_from_request |-> Reader({"RegistrationRequest"}, "regType"),
     uplink_data_status_from_registration_request |-> Reader({"RegistrationRequest"}, "uplink"),
     pdu_session_status_from_request |-> Reader({"ServiceRequest", "RegistrationRequest"}, "status"),
     pdu_session_status_from_accept |-> Reader({"ServiceAccept", "RegistrationAccept"}, "status"),
     guti_tmsi_from_registration_accept |-> Reader({"RegistrationAccept"}, "guti"),
     registration_area_from_registration_accept |-> Reader({"RegistrationAccept"}, "tais"),
     allowed_nssai_from_registration_accept |-> Reader({"RegistrationAccept"}, "allowed"),
     t3512_octet_from_registration_accept |-> Reader({"RegistrationAccept"}, "t3512"),
     rejected_nssai_from_registration_accept |-> Reader({"RegistrationAccept"}, "rejected"),
     parse_registration_reject |-> Reader({"RegistrationReject"}, "t3346"),
     parse_registration_reject_nssai |-> Reader({"RegistrationReject"}, "rejected"),
     deregistration_is_switch_off |-> Reader({"DeregistrationRequestFromUe"}, "deregType"),
     service_request_info |-> Reader({"ServiceRequest"}, "serviceKsi"),
     allowed_nssai_from_configuration_update_command |-> Reader({"ConfigurationUpdateCommand"}, "allowed"),
     configuration_update_indication |-> Reader({"ConfigurationUpdateCommand"}, "indication"),
     sm_container_from_ul_nas_transport |-> Reader({"UlNasTransport"}, "container"),
     requested_dnn_from_ul_nas_transport |-> Reader({"UlNasTransport"}, "dnn"),
     requested_snssai_from_ul_nas_transport |-> Reader({"UlNasTransport"}, "snssai"),
     sm_container_from_dl_nas_transport |-> Reader({"DlNasTransport"}, "container")]

-----------------------------------------------------------------------------
(* Values *)

Slices == {"requested", "allowed"}
Lists == Slices \cup {"rejected", "uplink"}

\* nssai_value: each S-NSSAI behind the length of what follows, SST or SST and SD.
NssaiOctets(slices) == FlattenSeq([i \in DOMAIN slices |-> <<Len(slices[i])>> \o slices[i]])

\* rejected_nssai_value: the length in the upper half octet, the cause in the lower.
RejectedOctets(slices, cause) == FlattenSeq([i \in DOMAIN slices |-> <<Len(slices[i]) * 16 + cause>> \o slices[i]])

\* parse_nssai_value and parse_rejected_nssai_value: entries of another length are
\* skipped, an entry that is cut short ends the list.  The length of a rejected one is in
\* the upper half of its first octet.
Entries(v, unit) ==
    LET len(h) == h \div unit
        upto[n \in 0..Len(v)] ==
          IF n = Len(v) \/ len(v[n + 1]) = 0 \/ n + 1 + len(v[n + 1]) > Len(v) THEN <<>>
          ELSE LET l == len(v[n + 1])
               IN (IF l \in {1, 4} THEN <<[head |-> v[n + 1], slice |-> SubSeq(v, n + 2, n + 1 + l)]>> ELSE <<>>)
                    \o upto[n + 1 + l]
    IN upto[0]

\* psi_bitmap_value and psis_from_psi_bitmap: two octets, bit n of them for session n.
BitmapOctets(psis) ==
    [o \in 1..2 |-> FoldSet(LAMBDA p, acc : acc + 2^(p % 8), 0, {p \in psis : p \div 8 = o - 1})]
PsisOf(v) == {p \in 0..15 : (v[p \div 8 + 1] \div 2^(p % 8)) % 2 = 1}

Filler == 15

\* suci_mobile_identity: a two-digit MNC and an odd MSIN are filled with 0xF.
SuciOf(id) ==
    [mcc |-> id.mcc, mnc |-> IF Len(id.mnc) = 2 THEN Append(id.mnc, Filler) ELSE id.mnc, scheme |-> id.scheme,
     output |-> [i \in 1..((Len(id.msin) + 1) \div 2) |->
                   (IF 2 * i <= Len(id.msin) THEN id.msin[2 * i] ELSE Filler) * 16 + id.msin[2 * i - 1]]]

\* suci_to_supi: the digits, fillers dropped, for the null scheme; else the
\* canonical string, which names no subscriber.
SupiOf(s) ==
    IF s.scheme # 0 THEN "canonical"
    ELSE SelectSeq(s.mcc \o s.mnc \o FlattenSeq([i \in DOMAIN s.output |-> <<s.output[i] % 16, s.output[i] \div 16>>]),
                   LAMBDA d : d <= 9)

\* tai_list_value: at most 16 areas, their number less one in the first octet.
TaiOctets(tacs) ==
    LET kept == SubSeq(tacs, 1, Min({Len(tacs), MaxTais})) IN <<(Len(kept) - 1) % 32>> \o kept

\* What a builder makes of a value.
ToWire(f, v) ==
    CASE f \in Slices -> NssaiOctets(v)
      [] f = "rejected" -> RejectedOctets(v, 0)
      [] f \in {"uplink", "status"} -> BitmapOctets(v)
      [] f = "suci" -> SuciOf(v)
      [] f = "tais" -> TaiOctets(v)
      [] f = "t3512" -> Octet(Units3, FromSecs(Units3, v))
      [] f = "t3346" -> Octet(Units2, FromSecs(Units2, v))
      [] f = "algorithms" -> v[1] * 16 + (v[2] % 16)
      [] f = "serviceKsi" -> (v[1] % 8) * 16 + (v[2] % 8)
      [] f = "indication" -> (IF v.register THEN 1 ELSE 0) + (IF v.acknowledge THEN 2 ELSE 0)
      [] f = "deregType" -> (IF v THEN 8 ELSE 0) + 1
      [] OTHER -> v

\* What a reader makes of an IE.
FromWire(f, w) ==
    CASE f \in Slices -> [i \in DOMAIN Entries(w, 1) |-> Entries(w, 1)[i].slice]
      [] f = "rejected" -> LET es == Entries(w, 16) IN [i \in DOMAIN es |-> es[i].slice]
      [] f \in {"uplink", "status"} -> PsisOf(w)
      [] f = "suci" -> SupiOf(w)
      [] f = "tais" -> SubSeq(w, 2, Min({Len(w), 2 + w[1]}))
      [] f = "algorithms" -> <<w \div 16, w % 16>>
      [] f = "serviceKsi" -> (w \div 16) % 8
      [] f = "indication" -> [register |-> w % 2 = 1, acknowledge |-> (w \div 2) % 2 = 1]
      [] f = "deregType" -> (w \div 8) % 2 = 1
      [] OTHER -> w

\* What a reader returns when the IE, or the message it looks for, is not there.
Nothing(f) ==
    CASE f \in Slices \cup {"rejected"} -> <<>>
      [] f = "uplink" -> {}
      [] f = "indication" -> [register |-> FALSE, acknowledge |-> FALSE]
      [] OTHER -> None

-----------------------------------------------------------------------------
Fields(m) == Builders[m].always \cup Builders[m].some \cup Builders[m].nonempty

Encode(m, a) ==
    LET b == Builders[m]
        empty(f) == IF f \in {"uplink", "status"} THEN a[f] \in {{}, None} ELSE a[f] = <<>>
        there == b.always \cup {f \in b.some : a[f] # None} \cup {f \in b.nonempty : ~empty(f)}
    IN [type |-> b.type, ies |-> [f \in there |-> ToWire(f, a[f])]]

ReadBy(r, p) ==
    IF p.type \in Readers[r].types /\ Readers[r].field \in DOMAIN p.ies
    THEN FromWire(Readers[r].field, p.ies[Readers[r].field])
    ELSE Nothing(Readers[r].field)

-----------------------------------------------------------------------------
(* The values a builder may be given *)

Sst(n) == <<n>>
SstSd(n) == <<n, 1, 2, 3>>

Values(f) ==
    CASE f \in Slices \cup {"rejected"} -> {<<>>, <<Sst(1)>>, <<SstSd(1), Sst(2)>>}
      [] f = "uplink" -> {{}, {1}, {7, 8, 15}}
      [] f = "status" -> {{}, {1, 15}, {8}}
      [] f = "suci" -> [mcc : {<<9, 9, 9>>}, mnc : {<<7, 0>>, <<0, 0, 1>>}, msin : {<<0, 0, 1>>, <<1, 2, 3, 4>>}, scheme : {0, 1}]
      [] f = "tais" -> {<<>>, <<5>>, [i \in 1..MaxTais |-> i]}
      [] f \in {"t3512", "t3346"} -> {0, 1, 62, 63, 600, 1860, 3240, 11160, 360000}
      [] f = "algorithms" -> {<<0, 2>>, <<2, 2>>, <<15, 15>>}
      [] f = "serviceKsi" -> {<<1, 0>>, <<7, 7>>}
      [] f = "indication" -> [register : BOOLEAN, acknowledge : BOOLEAN] \ {[register |-> FALSE, acknowledge |-> FALSE]}
      [] f = "deregType" -> BOOLEAN
      [] f = "regType" -> {"initial", "mobility", "periodic"}
      [] OTHER -> {f}

MayBe(m, f) == Values(f) \cup (IF f \in Builders[m].some THEN {None} ELSE {})

Arguments(m) ==
    FoldSet(LAMBDA f, acc : {g @@ (f :> v) : g \in acc, v \in MayBe(m, f)}, {<<>>}, Fields(m))

Init == msg \in DOMAIN Builders /\ args = None /\ wire = None /\ foreign = FALSE /\ got = None

Send ==
    /\ args = None
    /\ \E a \in Arguments(msg) : args' = a /\ wire' = Encode(msg, a)
    /\ UNCHANGED <<msg, foreign, got>>

\* A peer's list of slices has an entry of a kind this stack does not use (with the
\* slice of the home network), before, among or after the others.
AddForeign ==
    /\ wire # None /\ got = None /\ ~foreign
    /\ \E f \in DOMAIN wire.ies \cap (Slices \cup {"rejected"}), n \in Others :
       \E at \in {0, Len(wire.ies[f])} \cup {i \in DOMAIN wire.ies[f] : i = Len(args[f][1]) + 1} :
         LET head == IF f = "rejected" THEN n * 16 ELSE n
             entry == <<head>> \o [i \in 1..n |-> 9]
         IN wire' = [wire EXCEPT !.ies[f] = SubSeq(@, 1, at) \o entry \o SubSeq(@, at + 1, Len(@))]
    /\ foreign' = TRUE
    /\ UNCHANGED <<msg, args, got>>

Receive ==
    /\ wire # None /\ got = None
    /\ got' = [r \in DOMAIN Readers |-> ReadBy(r, wire)]
    /\ UNCHANGED <<msg, args, wire, foreign>>

Next == Send \/ AddForeign \/ Receive

Spec == Init /\ [][Next]_vars

-----------------------------------------------------------------------------
(* Properties *)

Timers == {"t3512", "t3346"}

Looks(r) == Builders[msg].type \in Readers[r].types /\ Readers[r].field \in Fields(msg)

\* What the value given is to a reader.
Given(f) ==
    CASE f = "suci" -> IF args[f].scheme = 0 THEN args[f].mcc \o args[f].mnc \o args[f].msin ELSE "canonical"
      [] f = "tais" /\ args[f] = <<>> -> None
      [] f = "indication" /\ args[f] = None -> Nothing(f)
      [] f = "serviceKsi" -> args[f][1]
      [] OTHER -> args[f]

\* What one side says is what the other reads: slices with and without SD, a set of
\* sessions that is empty apart from one that is not told, every TAI, identities of
\* every length of MNC and MSIN, half octets that share one.  A peer's slice entry
\* of another kind loses none of the others.
RoundTrip ==
    got # None => \A r \in DOMAIN Readers :
      Looks(r) /\ Readers[r].field \notin Timers => got[r] = Given(Readers[r].field)

\* A UE waits at least as long as the AMF asked (T3346, T3512), not a whole unit
\* longer than it had to, and as long as it can when the time is beyond the timer.
TimersCover ==
    got # None => \A r \in DOMAIN Readers :
      Looks(r) /\ Readers[r].field \in Timers /\ got[r] # None =>
        LET units == IF Readers[r].field = "t3512" THEN Units3 ELSE Units2
            asked == args[Readers[r].field]
            told == Seconds(units, got[r])
            longest == 31 * units[Len(units)].step
            step == units[CHOOSE i \in DOMAIN units : units[i].bits = got[r] \div 32].step
        IN IF asked > longest THEN told = longest ELSE told >= asked /\ told - asked < step
=============================================================================
