---------------------------- MODULE SmContainer ----------------------------
(***************************************************************************)
(* A PDU session is asked for and answered (crates/nas, nf-amf, nf-smf):   *)
(* the 5GSM containers octet by octet, because both ends build them by     *)
(* hand and read them by scanning, and what the AMF makes of the SMF's     *)
(* answer for the UE (N1) and for the gNB (N2).                            *)
(***************************************************************************)
EXTENDS GprsTimers, SequencesExt

CONSTANTS
    Requests,       \* [psi, pti, type, dns]: what the UE asks for
    Contracts,      \* [default, allowed, ambr, flows, sd, dns]: the subscription and policy
    Addresses,      \* [v4, iid]: what the SMF's pools may hand out
    Backoffs,       \* T3396 values of a reject, in seconds
    None

VARIABLES
    req, sub, addr,
    container,      \* the N1 SM container of the UE
    answer,         \* the N1 SM container of the network
    grant,          \* what the network means to grant or refuse
    n2,             \* the QoS flows sent to the gNB
    got             \* what the UE reads

vars == <<req, sub, addr, container, answer, grant, n2, got>>

IPv4 == 1
IPv6 == 2
IPv4v6 == 3
HasV4(t) == t \in {IPv4, IPv4v6}
HasV6(t) == t \in {IPv6, IPv4v6}

Hi(n) == n \div 256
Lo(n) == n % 256
Octets2(n) == <<Hi(n), Lo(n)>>

-----------------------------------------------------------------------------
(* The UE's request *)

Header(psi, pti, type) == <<46, psi, pti, type>>

\* pdu_session_establishment_request, _typed and _with_dns.
RequestOctets(r) ==
    Header(r.psi, r.pti, 193) \o <<255, 255>>
      \o (IF r.type = None THEN <<>> ELSE <<144 + r.type>>)
      \o (IF r.dns THEN <<123, 0, 4, 128, 0, 3, 0>> ELSE <<>>)

\* requested_pdu_session_type: the first octet of the optional part that could be
\* the type IE and names a type that is supported.
RequestedType(c) ==
    LET at == {i \in 7..Len(c) : c[i] \div 16 = 9 /\ (c[i] % 8) \in {IPv4, IPv6, IPv4v6}}
    IN IF at = {} THEN None ELSE c[Finest(at)] % 8

RequestsDns(c) == \E i \in 1..(Len(c) - 2) : SubSeq(c, i, i + 2) = <<0, 3, 0>>

-----------------------------------------------------------------------------
(* The SMF's choice of a type *)

\* parse_pdu_session_types
Families(s) == {f \in {"v4", "v6"} : \E t \in {s.default} \cup s.allowed : IF f = "v4" THEN HasV4(t) ELSE HasV6(t)}

\* negotiate_pdu_type; causes 50 and 51 tell the UE of a downgrade.
Negotiate(wanted, families) ==
    LET v4 == [type |-> IPv4, cause |-> 50]
        v6 == [type |-> IPv6, cause |-> 51]
        asked == [type |-> wanted, cause |-> None]
    IN CASE wanted = IPv4v6 -> IF families = {"v4", "v6"} THEN asked ELSE IF "v6" \in families THEN v6 ELSE v4
         [] wanted = IPv4 -> IF "v4" \in families THEN asked ELSE v6
         [] wanted = IPv6 -> IF "v6" \in families THEN asked ELSE v4

-----------------------------------------------------------------------------
(* Bit rates: a value and a unit, as the strings of TS 29.571 say them *)

NasUnit == [Kbps |-> 1, Mbps |-> 6, Gbps |-> 11, Tbps |-> 16]
Thousands == [bps |-> 0, Kbps |-> 1, Mbps |-> 2, Gbps |-> 3, Tbps |-> 4]

Readable(rate) == rate.unit \in DOMAIN NasUnit /\ rate.value < 65536

\* session_ambr_from_bitrates
NasRates(r) == IF Readable(r.ul) /\ Readable(r.dl) THEN r ELSE None

TenMbps == [ul |-> [value |-> 10, unit |-> "Mbps"], dl |-> [value |-> 10, unit |-> "Mbps"]]

RateOctets(rate) == <<NasUnit[rate.unit]>> \o Octets2(rate.value)

\* bitrate_to_bps, in powers of a thousand.
Bps(rate) == IF rate.unit \in DOMAIN Thousands THEN <<rate.value, Thousands[rate.unit]>> ELSE None

\* parse_qos_flows: the flow for the gNB keeps any rate, the one for the UE what
\* NAS can say.
N2Flow(f) ==
    [qfi |-> f.qfi, fiveQi |-> f.fiveQi,
     gbr |-> IF f.gbr = None THEN None
             ELSE <<Bps(f.gbr.gfbr.ul), Bps(f.gbr.gfbr.dl), Bps(f.gbr.mfbr.ul), Bps(f.gbr.mfbr.dl)>>]
N1Flow(f) ==
    [qfi |-> f.qfi, fiveQi |-> f.fiveQi,
     gbr |-> IF f.gbr = None \/ NasRates(f.gbr.gfbr) = None \/ NasRates(f.gbr.mfbr) = None THEN None ELSE f.gbr]

-----------------------------------------------------------------------------
(* The network's answer *)

\* qos_flow_descriptions_value: operation 1 creates, E is set, 1 or 5 parameters.
FlowOctets(f) ==
    LET param(id, rate) == <<id, 3>> \o RateOctets(rate)
    IN <<f.qfi, 32, 64 + (IF f.gbr = None THEN 1 ELSE 5), 1, 1, f.fiveQi>>
         \o (IF f.gbr = None THEN <<>>
             ELSE param(2, f.gbr.gfbr.ul) \o param(3, f.gbr.gfbr.dl) \o param(4, f.gbr.mfbr.ul) \o param(5, f.gbr.mfbr.dl))

FlowsOctets(flows) == FlattenSeq([i \in DOMAIN flows |-> FlowOctets(flows[i])])

Tlv(iei, value) == <<iei, Len(value)>> \o value
TlvE(iei, value) == <<iei>> \o Octets2(Len(value)) \o value

DefaultRule == <<1, 0, 6, 49, 49, 1, 1, 255, 1>>

AddressOctets(g) ==
    <<g.type>> \o (IF HasV6(g.type) THEN g.iid ELSE <<>>) \o (IF HasV4(g.type) THEN g.v4 ELSE <<>>)

\* The DNN "internet" in RFC 1035 labels.
Dnn == <<8, 105, 110, 116, 101, 114, 110, 101, 116>>

\* pdu_session_establishment_accept
AcceptOctets(psi, pti, g) ==
    Header(psi, pti, 194) \o <<16 + g.type>>
      \o Octets2(Len(DefaultRule)) \o DefaultRule
      \o <<6>> \o RateOctets(g.ambr.dl) \o RateOctets(g.ambr.ul)
      \o (IF g.cause = None THEN <<>> ELSE <<89, g.cause>>)
      \o Tlv(41, AddressOctets(g))
      \o Tlv(34, <<1>> \o g.sd)
      \o (IF g.flows = <<>> THEN <<>> ELSE TlvE(121, FlowsOctets(g.flows)))
      \o (IF g.dns = None THEN <<>> ELSE TlvE(123, <<128, 0, 3, 16>> \o g.dns))
      \o Tlv(37, Dnn)

\* pdu_session_establishment_reject, with T3396 when there is a back-off.
RejectOctets(psi, pti, cause, backoff) ==
    Header(psi, pti, 195) \o <<cause>>
      \o (IF backoff = None THEN <<>> ELSE <<55, 1, Octet(Units3, FromSecs(Units3, backoff))>>)

-----------------------------------------------------------------------------
(* The readers of this stack's UE side *)

\* The first result of trying every position, or None.
FirstFound(found, n) ==
    LET at == {i \in 1..n : found[i] # None} IN IF at = {} THEN None ELSE found[Finest(at)]

\* pdu_address_from_establishment_accept: an octet 0x29 that a length and a type
\* which go together follow.
AddressAt(c, i) ==
    IF c[i] # 41 \/ i + 2 > Len(c) \/ i + 1 + c[i + 1] > Len(c) THEN None
    ELSE LET body == SubSeq(c, i + 3, i + 1 + c[i + 1])
             t == c[i + 2] % 8
         IN CASE t = IPv4 /\ c[i + 1] = 5 -> [type |-> t, v4 |-> body, iid |-> None]
              [] t = IPv6 /\ c[i + 1] = 9 -> [type |-> t, v4 |-> None, iid |-> body]
              [] t = IPv4v6 /\ c[i + 1] = 13 -> [type |-> t, iid |-> SubSeq(body, 1, 8), v4 |-> SubSeq(body, 9, 12)]
              [] OTHER -> None
AddressIn(c) == FirstFound([i \in 1..Len(c) |-> AddressAt(c, i)], Len(c))

\* accept_5gsm_cause: the octet after the first 0x59 behind the fixed part.
CauseIn(c) == FirstFound([i \in 1..(Len(c) - 1) |-> IF i >= 6 /\ c[i] = 89 THEN c[i + 1] ELSE None], Len(c) - 1)

\* dns_ipv6_from_establishment_accept: 16 octets after the first 00 03 10.
DnsIn(c) ==
    FirstFound([i \in 1..Len(c) |-> IF i + 18 <= Len(c) /\ SubSeq(c, i, i + 2) = <<0, 3, 16>>
                                    THEN SubSeq(c, i + 3, i + 18) ELSE None], Len(c))

\* pdu_session_reject_info
RejectIn(c) ==
    IF c[4] # 195 THEN None
    ELSE [cause |-> c[5], backoff |-> IF Len(c) >= 8 /\ c[6] = 55 THEN c[8] ELSE None]

\* A UE that walks the IEs by their lengths, as TS 24.501 lays them out: the IEs it
\* finds, or None when they do not end where the container does.
RECURSIVE Walk(_, _)
Walk(c, found) ==
    IF c = <<>> THEN found
    ELSE LET len == CASE c[1] = 89 -> 1
                      [] c[1] \in {121, 123} -> IF Len(c) < 3 THEN 0 ELSE c[2] * 256 + c[3]
                      [] OTHER -> IF Len(c) < 2 THEN 0 ELSE c[2]
             head == CASE c[1] = 89 -> 1 [] c[1] \in {121, 123} -> 3 [] OTHER -> 2
         IN IF head + len > Len(c) THEN None
            ELSE Walk(SubSeq(c, head + len + 1, Len(c)), found \cup {<<c[1], SubSeq(c, head + 1, head + len)>>})

\* The flow descriptions of such a UE: QFI and 5QI of each, and the rates.
RECURSIVE WalkFlows(_, _)
WalkFlows(c, flows) ==
    IF c = <<>> THEN flows
    ELSE IF Len(c) < 3 THEN None
    ELSE LET n == c[3] % 64
             param[i \in 0..n, at \in Nat] ==
               IF i = n \/ at + 1 > Len(c) THEN <<>> ELSE <<at>> \o param[i + 1, at + 2 + c[at + 1]]
             at == param[0, 4]
             end == IF n = 0 THEN 3 ELSE IF Len(at) < n THEN Len(c) + 1 ELSE at[n] + 1 + c[at[n] + 1]
             rate(i) == SubSeq(c, at[i] + 2, at[i] + 4)
         IN IF end > Len(c) THEN None
            ELSE WalkFlows(SubSeq(c, end + 1, Len(c)),
                           Append(flows, [qfi |-> c[1], fiveQi |-> c[at[1] + 2],
                                          gbr |-> IF n = 1 THEN None ELSE [i \in 1..(n - 1) |-> rate(i + 1)]]))

-----------------------------------------------------------------------------
Init ==
    /\ req \in Requests /\ sub \in Contracts /\ addr \in Addresses
    /\ container = None /\ answer = None /\ grant = None /\ n2 = None /\ got = None

\* The UE asks for a session.
Ask ==
    /\ container = None
    /\ container' = RequestOctets(req)
    /\ UNCHANGED <<req, sub, addr, answer, grant, n2, got>>

\* The SMF creates the session and the AMF answers the UE and the gNB
\* (parse_sm_context_created and the accept of on_uplink_nas).
Accept ==
    /\ container # None /\ answer = None
    /\ LET asked == RequestedType(container)
           chosen == Negotiate(IF asked = None THEN sub.default ELSE asked, Families(sub))
           g == [type |-> chosen.type, cause |-> chosen.cause, v4 |-> addr.v4, iid |-> addr.iid,
                 ambr |-> IF NasRates(sub.ambr) = None THEN TenMbps ELSE sub.ambr,
                 sd |-> sub.sd,
                 flows |-> [i \in DOMAIN sub.flows |-> N1Flow(sub.flows[i])],
                 dns |-> IF RequestsDns(container) THEN sub.dns ELSE None]
       IN /\ grant' = g
          /\ answer' = AcceptOctets(container[2], container[3], g)
    /\ n2' = [i \in DOMAIN sub.flows |-> N2Flow(sub.flows[i])]
    /\ UNCHANGED <<req, sub, addr, container, got>>

\* The session is refused: not subscribed (27, or 70 in a slice) with a back-off,
\* no resources (26) or any other failure (31) without.
Reject ==
    /\ container # None /\ answer = None
    /\ \E cause \in {26, 27, 31, 70}, b \in Backoffs :
         LET backoff == IF cause \in {27, 70} THEN b ELSE None
         IN /\ answer' = RejectOctets(container[2], container[3], cause, backoff)
            /\ grant' = [refused |-> cause, backoff |-> backoff]
    /\ UNCHANGED <<req, sub, addr, container, n2, got>>

Read ==
    /\ answer # None /\ got = None
    /\ got' = [address |-> AddressIn(answer), cause |-> CauseIn(answer), dns |-> DnsIn(answer),
               reject |-> RejectIn(answer)]
    /\ UNCHANGED <<req, sub, addr, container, answer, grant, n2>>

Next == Ask \/ Accept \/ Reject \/ Read

Spec == Init /\ [][Next]_vars

-----------------------------------------------------------------------------
(* Properties *)

Accepted == grant # None /\ "type" \in DOMAIN grant

Of(t) == {f \in {"v4", "v6"} : IF f = "v4" THEN HasV4(t) ELSE HasV6(t)}

\* What the UE asked for in its container is what it gets, as far as the DNN's
\* subscription goes: every family that it asked for and may have, none that it may
\* not, one it did not ask for only when it may have nothing it asked for; and it is
\* told of a downgrade and of nothing else.
GrantIsAllowed ==
    Accepted =>
      LET wanted == Of(IF req.type = None THEN sub.default ELSE req.type)
          both == wanted \cap Families(sub)
      IN /\ Of(grant.type) = IF both # {} THEN both ELSE Families(sub)
         /\ (grant.cause # None) <=> ~(wanted \subseteq Families(sub))

\* The accept is what TS 24.501 lays out: a UE that walks it finds the address, the
\* flows and the DNS server that were granted, each once.
AcceptIsWellFormed ==
    Accepted =>
      LET ies == Walk(SubSeq(answer, 24, Len(answer)), {})
          given == {<<41, AddressOctets(grant)>>, <<34, <<1>> \o grant.sd>>, <<37, Dnn>>}
                     \cup (IF grant.cause = None THEN {} ELSE {<<89, <<grant.cause>>>>})
          more == {121, 123}
      IN /\ ies # None
         /\ {e \in ies : e[1] \notin more} = given
         /\ {e[1] : e \in ies} \cap more =
              (IF grant.flows = <<>> THEN {} ELSE {121}) \cup (IF req.dns /\ sub.dns # None THEN {123} ELSE {})
         /\ \A e \in ies : e[1] = 121 =>
              WalkFlows(e[2], <<>>) =
                [i \in DOMAIN grant.flows |->
                   [qfi |-> grant.flows[i].qfi, fiveQi |-> grant.flows[i].fiveQi,
                    gbr |-> LET g == grant.flows[i].gbr
                            IN IF g = None THEN None
                               ELSE <<RateOctets(g.gfbr.ul), RateOctets(g.gfbr.dl), RateOctets(g.mfbr.ul), RateOctets(g.mfbr.dl)>>]]

\* The reader of the address scans from the first octet, and these rates of the
\* Session-AMBR, which stands before it, read as 0x29, a length and the type it goes with
\* (the type octet being the uplink's unit, or the IEI of what follows the AMBR).
LooksLikeAddress(ambr) ==
    \/ ambr.ul.value = 10501
    \/ ambr.dl.value = 10501 /\ ambr.ul.unit = "Kbps"
    \/ ambr.dl.value = 10509 /\ ambr.ul.unit = "Gbps"

AddressIsRead ==
    got.address = [type |-> grant.type,
                   v4 |-> IF HasV4(grant.type) THEN grant.v4 ELSE None,
                   iid |-> IF HasV6(grant.type) THEN grant.iid ELSE None]

\* The refusal is read as it was given, and so is the address unless the AMBR looks like
\* one; a UE backs off for at least the time the network asked for.
AnswerIsRead ==
    got # None =>
      IF Accepted
      THEN got.reject = None /\ (LooksLikeAddress(grant.ambr) \/ AddressIsRead)
      ELSE /\ got.reject # None /\ got.reject.cause = grant.refused
           /\ (got.reject.backoff = None) <=> (grant.backoff = None)
           /\ grant.backoff # None => Seconds(Units3, got.reject.backoff) >= grant.backoff

\* Divergence: the doc of pdu_address_from_establishment_accept, "Parse the PDU Address
\* IE", whatever the rates are.
AddressIsUnambiguous == got # None /\ Accepted => AddressIsRead

\* The doc of accept_5gsm_cause: scanning by IEI "is unambiguous for the accepts
\* this stack builds".
CauseIsUnambiguous == got # None /\ Accepted => got.cause = grant.cause

\* The doc of dns_ipv6_from_establishment_accept: "None if the accept returned none".
DnsOnlyIfReturned == got # None /\ Accepted => got.dns = grant.dns

\* The doc of SmContextCreated::nas_flows: "The same flows in NAS form" as those
\* sent to the gNB.
SameFlows ==
    Accepted => \A i \in DOMAIN n2 : (n2[i].gbr = None) <=> (grant.flows[i].gbr = None)

\* A UE that has not got more than 65535 Kbps is told what its subscription says,
\* and not ten Mbps.
AmbrIsTold == Accepted => grant.ambr = sub.ambr
=============================================================================
