----------------------------- MODULE GtpuCodec -----------------------------
(***************************************************************************)
(* GTP-U datagrams (crates/gtpu): the encoders of the gNB and of the UPF,  *)
(* the two parsers, each with its own walk over the extension headers, and *)
(* the PSUP and NR-U frames inside.  A datagram is a sequence of octets, a *)
(* TEID its four octets.                                                   *)
(*                                                                         *)
(* Between encoder and parser a peer may have put extension headers of     *)
(* other types in front, and the datagram may be cut short or damaged.     *)
(***************************************************************************)
EXTENDS Naturals, Sequences

CONSTANTS
    Messages,   \* what is sent: see Encode
    Octets,     \* what a damaged octet may become
    MaxForeign, \* bound: extension headers that a peer puts in front
    MaxDamage,  \* bound: octets damaged
    None

VARIABLES msg, wire, foreign, cut, damage
vars == <<msg, wire, foreign, cut, damage>>

GPdu == 255
ExtPsc == 133       \* EXT_PDU_SESSION_CONTAINER
ExtNrc == 132       \* EXT_NR_RAN_CONTAINER
VersionPt == 48
FlagS == 2
FlagE == 4

HasE(flags) == (flags \div 4) % 2 = 1
HasOpt(flags) == flags % 8 # 0
U16(n) == <<(n \div 256) % 256, n % 256>>

-----------------------------------------------------------------------------
(* Frames *)

ul_frame(qfi) == <<16, qfi % 64>>
dl_frame(qfi, rqi) == <<0, (IF rqi THEN 64 ELSE 0) + (qfi % 64)>>

\* psup::parse, as far as the parser of N3 uses it: the QFI.
psup(frame) ==
    IF Len(frame) < 2 \/ frame[1] \div 16 \notin {0, 1} THEN None ELSE frame[2] % 64

\* To n*4-2 octets.
pad(f) == f \o [i \in 1..((6 - (Len(f) % 4)) % 4) |-> 0]

dl_user_data(sn) == pad(<<0, 0>> \o SubSeq(sn, 2, 4))
dl_data_delivery_status(size) == pad(<<16, 0>> \o size)

nru(frame) ==
    CASE frame = <<>> -> None
      [] frame[1] \div 16 = 0 /\ Len(frame) >= 5 -> [sn |-> <<0>> \o SubSeq(frame, 3, 5)]
      [] frame[1] \div 16 = 1 /\ Len(frame) >= 6 -> [size |-> SubSeq(frame, 3, 6)]
      [] OTHER -> None

-----------------------------------------------------------------------------
(* Encoders *)

encap(teid, payload) == <<VersionPt, GPdu>> \o U16(Len(payload)) \o teid \o payload

\* One extension header, its length in units of four octets.
WithExtension(teid, type, frame, payload) ==
    LET units == (Len(frame) + 2) \div 4
    IN <<VersionPt + FlagE, GPdu>> \o U16(4 + 4 * units + Len(payload)) \o teid
         \o <<0, 0, 0, type>> \o <<units>> \o frame \o <<0>> \o payload

encap_with_container(teid, frame, payload) == WithExtension(teid, ExtPsc, frame, payload)
encap_nr_ran_container(teid, frame, payload) == WithExtension(teid, ExtNrc, frame, payload)

end_marker(teid) == <<VersionPt, 254>> \o U16(0) \o teid

echo(type, seq, payload) ==
    <<VersionPt + FlagS, type>> \o U16(Len(payload) + 4) \o <<0, 0, 0, 0>> \o seq \o <<0, 0>> \o payload

Encode(m) ==
    CASE m.kind = "plain" -> encap(m.teid, m.payload)
      [] m.kind = "ul" -> encap_with_container(m.teid, ul_frame(m.qfi), m.payload)
      [] m.kind = "dl" -> encap_with_container(m.teid, dl_frame(m.qfi, m.rqi), m.payload)
      [] m.kind = "f1u" -> encap_nr_ran_container(m.teid, dl_user_data(m.sn), m.payload)
      [] m.kind = "status" -> encap_nr_ran_container(m.teid, dl_data_delivery_status(m.size), <<>>)
      [] m.kind = "end" -> end_marker(m.teid)
      [] m.kind = "request" -> echo(1, m.seq, <<>>)
      [] OTHER -> echo(2, m.seq, <<14, 0>>)

-----------------------------------------------------------------------------
(* Parsers *)

RECURSIVE Walk(_, _, _, _, _)

\* Mutant: a chain that is cut off counts as ended.
WalkLenient(data, off, next, want, found) ==
    IF next = 0 \/ off >= Len(data) THEN [off |-> off, found |-> found]
    ELSE LET len == 4 * data[off + 1] IN
         IF len < 4 \/ Len(data) < off + len THEN None
         ELSE Walk(data, off + len, data[off + len], want,
                   IF next = want THEN SubSeq(data, off + 2, off + len - 1) ELSE found)

\* From an extension header of type next at offset off: where the payload
\* begins, and the content of the last header of the type wanted; None when a
\* header has no length or is cut short.
Walk(data, off, next, want, found) ==
    IF next = 0 THEN [off |-> off, found |-> found]
    ELSE IF off >= Len(data) THEN None
    ELSE LET len == 4 * data[off + 1] IN
         IF len < 4 \/ Len(data) < off + len THEN None
         ELSE Walk(data, off + len, data[off + len], want,
                   IF next = want THEN SubSeq(data, off + 2, off + len - 1) ELSE found)

From(data, off) == SubSeq(data, off + 1, Len(data))

parse(data) ==
    IF Len(data) < 8 \/ data[1] \div 32 # 1 THEN None
    ELSE LET off == IF HasOpt(data[1]) THEN 12 ELSE 8
             short == Len(data) < off
             end == IF short THEN None
                    ELSE IF HasE(data[1]) THEN Walk(data, off, data[12], ExtPsc, <<>>)
                    ELSE [off |-> off, found |-> <<>>]
             seq == IF HasOpt(data[1]) THEN SubSeq(data, 9, 10) ELSE <<0, 0>>
         IN CASE end = None -> None
              [] data[2] = GPdu -> [kind |-> "gpdu", teid |-> SubSeq(data, 5, 8),
                                    qfi |-> psup(end.found), payload |-> From(data, end.off)]
              [] data[2] = 1 -> [kind |-> "request", seq |-> seq]
              [] data[2] = 2 -> [kind |-> "response", seq |-> seq]
              [] data[2] = 254 -> [kind |-> "end", teid |-> SubSeq(data, 5, 8)]
              [] OTHER -> [kind |-> "other"]

parse_nr_ran_container(data) ==
    IF Len(data) < 12 \/ data[1] \div 32 # 1 \/ data[2] # GPdu \/ ~HasE(data[1]) THEN None
    ELSE LET end == Walk(data, 12, data[12], ExtNrc, <<>>) IN
         IF end = None \/ nru(end.found) = None THEN None
         ELSE [teid |-> SubSeq(data, 5, 8), frame |-> nru(end.found), payload |-> From(data, end.off)]

decap(data) == LET p == parse(data) IN
    IF p # None /\ p.kind = "gpdu" THEN [teid |-> p.teid, payload |-> p.payload] ELSE None

-----------------------------------------------------------------------------
(* The path *)

Init ==
    /\ msg \in Messages /\ wire = Encode(msg)
    /\ foreign = 0 /\ cut = FALSE /\ damage = 0

\* Another implementation adds a header of a type that is not interpreted.
PutForeign ==
    /\ foreign < MaxForeign /\ ~cut /\ damage = 0 /\ wire[2] = GPdu
    /\ foreign' = foreign + 1
    /\ LET first == IF HasE(wire[1]) THEN wire[12] ELSE 0
           rest == IF HasE(wire[1]) THEN From(wire, 12) ELSE From(wire, 8)
       IN wire' = <<VersionPt + FlagE, GPdu>> \o U16(Len(rest) + 8) \o SubSeq(wire, 5, 8)
                    \o <<0, 0, 0, 64>> \o <<1, 8, 104, first>> \o rest
    /\ UNCHANGED <<msg, cut, damage>>

Cut ==
    /\ ~cut /\ damage = 0 /\ cut' = TRUE
    /\ \E n \in 0..(Len(wire) - 1) : wire' = SubSeq(wire, 1, n)
    /\ UNCHANGED <<msg, foreign, damage>>

Damage ==
    /\ damage < MaxDamage /\ damage' = damage + 1 /\ ~cut
    /\ \E i \in 1..Len(wire), o \in Octets : wire' = [wire EXCEPT ![i] = o]
    /\ UNCHANGED <<msg, foreign, cut>>

Next == PutForeign \/ Cut \/ Damage
Spec == Init /\ [][Next]_vars

-----------------------------------------------------------------------------
(* Properties *)

\* What the parsers should make of a message.
Payload(m) == IF m.kind = "status" THEN <<>> ELSE m.payload
Qfi(m) == IF m.kind \in {"ul", "dl"} THEN m.qfi % 64 ELSE None
Frame(m) ==
    CASE m.kind = "f1u" -> [sn |-> <<0>> \o SubSeq(m.sn, 2, 4)]
      [] m.kind = "status" -> [size |-> m.size] [] OTHER -> None
IsGPdu(m) == m.kind \in {"plain", "ul", "dl", "f1u", "status"}

Meaning(m) ==
    CASE IsGPdu(m) -> [kind |-> "gpdu", teid |-> m.teid, qfi |-> Qfi(m), payload |-> Payload(m)]
      [] m.kind = "end" -> [kind |-> "end", teid |-> m.teid]
      [] OTHER -> [kind |-> m.kind, seq |-> m.seq]

\* What one side encodes the other reads back, the QFI in six bits and the NR-U
\* number in twenty-four, also behind extension headers that it does not know.
RoundTrip ==
    ~cut /\ damage = 0 =>
        /\ parse(wire) = Meaning(msg)
        /\ parse_nr_ran_container(wire) =
             IF Frame(msg) = None THEN None
             ELSE [teid |-> msg.teid, frame |-> Frame(msg), payload |-> Payload(msg)]

\* The length field of every datagram counts what follows the fixed header.
LengthIsHonest == ~cut /\ damage = 0 => SubSeq(wire, 3, 4) = U16(Len(wire) - 8)

\* Of a datagram that was cut short either nothing is read, or the message with
\* less payload: never another tunnel, flow or packet.
CutIsNotMisread ==
    cut /\ damage = 0 /\ parse(wire) # None =>
        LET p == parse(wire) IN
        IF IsGPdu(msg) THEN [p EXCEPT !.payload = <<>>] = [Meaning(msg) EXCEPT !.payload = <<>>]
                            /\ p.payload = SubSeq(Payload(msg), 1, Len(p.payload))
        ELSE p = Meaning(msg)

\* The two parsers walk the headers of any datagram alike: what F1-U takes as
\* TEID and packet is what N3 would.
WalkersAgree ==
    LET f == parse_nr_ran_container(wire) IN
    f # None => decap(wire) = [teid |-> f.teid, payload |-> f.payload]
=============================================================================
