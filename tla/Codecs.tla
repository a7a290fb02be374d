------------------------------- MODULE Codecs -------------------------------
(***************************************************************************)
(* Every message of the hand-written codecs, sent by one end and read by   *)
(* the other: NGAP on N2, 5GMM and 5GSM on N1, F1AP with the RRC it        *)
(* carries, GTP-U on N3, N9 and F1-U, and what a UPF says on N4.  The      *)
(* codecs share no state; part names the one a behaviour exercises, and v1 *)
(* .. v9 are its variables.                                                *)
(***************************************************************************)
EXTENDS Integers, Sequences

CONSTANTS
    Parts,      \* the parts explored
    None, Bad, Refused, Other

VARIABLES part, v1, v2, v3, v4, v5, v6, v7, v8, v9

codecsVars == <<part, v1, v2, v3, v4, v5, v6, v7, v8, v9>>

\* One IE left out or one transfer garbled by the peer.
Ngap == INSTANCE NgapCodec WITH MaxFaults <- 1,
    msg <- v1, args <- v2, wire <- v3, got <- v4, fault <- v5

\* S-NSSAI entries of three lengths that are not understood.
Nas == INSTANCE NasCodec WITH MaxTais <- 16, Others <- {2, 5, 8},
    msg <- v1, args <- v2, wire <- v3, foreign <- v4, got <- v5

Ran == INSTANCE RanCodec WITH MaxFaults <- 1,
    msg <- v1, rrc <- v2, given <- v3, wire <- v4, fault <- v5, got <- v6

-----------------------------------------------------------------------------
(* GTP-U: every kind of message, TEIDs and payloads with octets that mean  *)
(* something in a header, fields at their limits.                          *)

Teids == {<<0, 0, 0, 1>>, <<255, 132, 133, 0>>}
Payloads == {<<>>, <<1, 133, 0, 0, 69>>}
Datagrams ==
    [kind : {"plain"}, teid : Teids, payload : Payloads]
    \cup [kind : {"ul"}, teid : Teids, qfi : {0, 63, 64}, payload : Payloads]
    \cup [kind : {"dl"}, teid : {<<0, 0, 0, 1>>}, qfi : {9, 255}, rqi : BOOLEAN, payload : Payloads]
    \cup [kind : {"f1u"}, teid : Teids, sn : {<<0, 255, 255, 255>>, <<1, 0, 0, 5>>}, payload : Payloads]
    \cup [kind : {"status"}, teid : Teids, size : {<<0, 0, 0, 0>>, <<255, 255, 255, 255>>}]
    \cup [kind : {"end"}, teid : Teids]
    \cup [kind : {"request", "response"}, seq : {<<0, 0>>, <<255, 1>>}]

Gtpu == INSTANCE GtpuCodec WITH
    Messages <- Datagrams, Octets <- {0, 2, 132, 255}, MaxForeign <- 2, MaxDamage <- 2,
    msg <- v1, wire <- v2, foreign <- v3, cut <- v4, damage <- v5

-----------------------------------------------------------------------------
(* 5GSM: requests of every kind against contracts of every kind of type.   *)
(* 41 is 0x29, the IEI of the PDU address.                                 *)

Types == {1, 2, 3}   \* IPv4, IPv6, IPv4v6
Asked == [psi : {1, 5}, pti : {1, 41}, type : {None} \cup Types, dns : {FALSE}]
           \cup [psi : {1}, pti : {1}, type : Types, dns : {TRUE}]

Both(value) == [ul |-> [value |-> value, unit |-> "Mbps"], dl |-> [value |-> value, unit |-> "Mbps"]]
BestEffort == [qfi |-> 1, fiveQi |-> 9, gbr |-> None]
Guaranteed == [qfi |-> 2, fiveQi |-> 1, gbr |-> [gfbr |-> Both(5), mfbr |-> Both(5)]]
DnsServer == <<32, 1, 72, 96, 72, 96, 0, 0, 0, 0, 0, 0, 0, 0, 136, 136>>

\* Rates whose octets are an IEI (0x29 is 41), or look like the address or close to it.
Rates == [ul : [value : {41, 10501, 10505}, unit : {"Kbps", "Mbps", "Gbps"}],
          dl : [value : {297, 10501, 10505, 10509, 65535}, unit : {"Mbps"}]]

Granted == [default : Types, allowed : {{}, {1}, {2}}, ambr : {Both(100)},
            flows : {<<>>, <<BestEffort>>, <<BestEffort, Guaranteed>>},
            sd : {<<>>, <<1, 2, 3>>}, dns : {None, DnsServer}]
           \cup [default : Types, allowed : {{}}, ambr : Rates, flows : {<<BestEffort>>},
                 sd : {<<>>}, dns : {None}]

Sm == INSTANCE SmContainer WITH
    Requests <- Asked, Contracts <- Granted,
    Addresses <- {[v4 |-> <<10, 45, 0, 2>>, iid |-> <<2, 0, 0, 0, 0, 0, 0, 1>>]},
    Backoffs <- {1, 600, 3240, 35712000},
    req <- v1, sub <- v2, addr <- v3, container <- v4, answer <- v5, grant <- v6, n2 <- v7, got <- v8

\* Two requests of every kind and a report, one datagram twice, one IE that does not decode.
N4 == INSTANCE N4Exchange WITH
    Kinds <- {"establish", "modify", "delete", "associate", "heartbeat"},
    MaxRequests <- 2, MaxReports <- 1, MaxCopies <- 1, MaxFaults <- 1,
    pending <- v1, asked <- v2, answered <- v3, result <- v4, net <- v5, reported <- v6,
    reports <- v7, taken <- v8, count <- v9

-----------------------------------------------------------------------------
CodecsInit ==
    /\ part \in Parts
    /\ \/ part = "ngap" /\ Ngap!Init /\ v6 = None /\ v7 = None /\ v8 = None /\ v9 = None
       \/ part = "nas" /\ Nas!Init /\ v6 = None /\ v7 = None /\ v8 = None /\ v9 = None
       \/ part = "ran" /\ Ran!Init /\ v7 = None /\ v8 = None /\ v9 = None
       \/ part = "gtpu" /\ Gtpu!Init /\ v6 = None /\ v7 = None /\ v8 = None /\ v9 = None
       \/ part = "sm" /\ Sm!Init /\ v9 = None
       \/ part = "n4" /\ N4!Init

CodecsNext ==
    \/ part = "ngap" /\ Ngap!Next /\ UNCHANGED <<part, v6, v7, v8, v9>>
    \/ part = "nas" /\ Nas!Next /\ UNCHANGED <<part, v6, v7, v8, v9>>
    \/ part = "ran" /\ Ran!Next /\ UNCHANGED <<part, v7, v8, v9>>
    \/ part = "gtpu" /\ Gtpu!Next /\ UNCHANGED <<part, v6, v7, v8, v9>>
    \/ part = "sm" /\ Sm!Next /\ UNCHANGED <<part, v9>>
    \/ part = "n4" /\ N4!Next /\ UNCHANGED part

CodecsSpec == CodecsInit /\ [][CodecsNext]_codecsVars

-----------------------------------------------------------------------------
(* Properties *)

\* What one end encodes is what the other reads: every IE and list of NGAP and NAS,
\* empty ones included, both layers of F1AP and RRC, a GTP-U packet behind extension
\* headers that its reader does not know, the flows of a session, as the subscription
\* allows them, or its refusal, and its address, except behind the rates of a
\* Session-AMBR that the UE's scan takes for one (LooksLikeAddress in SmContainer, a
\* divergence); and an N4 handler that waits hears the answer to its own request when
\* answers and reports cross and share numbers.  Length fields count what follows, and a
\* time asked of a UE (T3346, T3512, T3396) is not cut short by the units of its timer.
\* What the UE scans for in an accept besides (cause, DNS server) is not claimed:
\* CauseIsUnambiguous, DnsOnlyIfReturned.
ReadBack ==
    /\ part = "ngap" => Ngap!RoundTrip
    /\ part = "nas" => Nas!RoundTrip /\ Nas!TimersCover
    /\ part = "ran" => Ran!RoundTrip
    /\ part = "gtpu" => Gtpu!RoundTrip /\ Gtpu!LengthIsHonest
    /\ part = "sm" => Sm!AnswerIsRead /\ Sm!AcceptIsWellFormed /\ Sm!GrantIsAllowed
    /\ part = "n4" => N4!AnswerIsOwn

\* No reader takes a message for another one, whatever a peer leaves out, garbles or
\* cuts off: a handler acts on its own procedure, and the parts that arrived whole are
\* read as they were sent.
NotMisread ==
    /\ part = "ngap" => Ngap!NotConfused /\ Ngap!OnlyGarbledIsLost
    /\ part = "ran" => Ran!NotConfused /\ Ran!FaultIsContained
    /\ part = "gtpu" => Gtpu!CutIsNotMisread /\ Gtpu!WalkersAgree
    /\ part = "n4" => N4!NothingIsInvented /\ N4!ReportsAreTaken
=============================================================================
