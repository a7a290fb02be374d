------------------------------ MODULE GnbSplit ------------------------------
(***************************************************************************)
(* The gNodeB (ran/gnb): its core between N2, N3 and the UEs, reached over *)
(* UDP (Split = FALSE) or, as a gNB-CU, over F1 to a gNB-DU (Split = TRUE).*)
(*                                                                         *)
(* A UE is its Uu address.  RRC is the message it carries, PDCP the level  *)
(* of protection: "none", "int" for the security mode command, "enc" once  *)
(* ciphering is on; an entity opens what was sealed at its own level.  A   *)
(* NAS message is the UE it is for and its number.  F1-C and N2 keep the   *)
(* order; the Uu and N3 may lose, N3 and F1-U also reorder.                *)
(***************************************************************************)
EXTENDS SequencesExt, Integers, FiniteSets

CONSTANTS
    UEs,
    Split,          \* TRUE: RADIAN_GNB_F1=1
    CuIds,          \* CU-UE-F1AP-IDs an F1-U TEID tells apart (2^24 in the code)
    Resume,         \* the AMF sets PDU sessions up inside the context setup
    MaxConnects, MaxNas, MaxUplinks, MaxSessions, MaxPackets, MaxPages, MaxLosses, MaxAssociations,
    MaxQueue        \* messages under way on one link

BoundsAssumption ==
    {CuIds, MaxConnects, MaxNas, MaxUplinks, MaxSessions, MaxPackets, MaxPages, MaxLosses,
     MaxAssociations, MaxQueue} \subseteq Nat

VARIABLES
    ue,         \* the UEs' RRC
    up, down,   \* the Uu, per UE
    f1,         \* the CU's south side: its UEs, F1-C and F1-U under way
    du,         \* the DU
    gnb,        \* the state of the core
    n2,         \* N2 messages on their way to the gNB
    amf,        \* contexts, NAS sent, answers
    n3,         \* the UPF's downlink tunnels, packets on their way, the last uplink packet
    spent       \* what the bounds count

vars == <<ue, up, down, f1, du, gnb, n2, amf, n3, spent>>

-----------------------------------------------------------------------------
Put(f, k, v) == [x \in DOMAIN f \cup {k} |-> IF x = k THEN v ELSE f[x]]
Drop(f, S) == [x \in DOMAIN f \ S |-> f[x]]
Nothing == [x \in {} |-> x]
NoPacket == [none |-> TRUE]

Spend(what) == spent' = [spent EXCEPT ![what] = @ + 1]
Fits(q) == Len(q) < MaxQueue

GnbState == [ues |-> Nothing, by_peer |-> Nothing, camped |-> <<>>, next_ran |-> 1, next_teid |-> 1]

\* A PDCP entity that starts at level 0 with security off.
UeCtx(peer, who) ==
    [peer |-> peer, who |-> who, amf |-> FALSE, sessions |-> <<>>, level |-> "none",
     held |-> <<>>, ics |-> FALSE]

-----------------------------------------------------------------------------
(* The UE-facing transport.  What it changes is threaded through its calls: *)
(* a = [down, f1].                                                          *)

Air == [down |-> down, f1 |-> f1]

\* The CU-UE-F1AP-ID is shifted by eight bits in 32: what does not fit is lost.
f1u_teid(cu, psi) == (cu % CuIds) * 256 + psi
split_teid(teid) == [cu |-> teid \div 256, psi |-> teid % 256]

ToUe(a, u, msg) == [a EXCEPT !.down[u] = Append(@, msg)]
ToDu(a, msg) == [a EXCEPT !.f1.toDu = Append(@, msg)]

\* F1Transport::send.  Paging needs no UE context.  The first packet asks the DU
\* for a context; a release forgets the UE.
SendF1(a, cu, msg) ==
    IF msg.k = "page" THEN ToDu(a, msg)
    ELSE IF cu \notin DOMAIN a.f1.ues THEN a
    ELSE CASE msg.k \in {"setup", "srb1"} -> ToDu(a, [k |-> "dlrrc", cu |-> cu, du |-> a.f1.ues[cu].du, rrc |-> msg])
           [] msg.k = "data" ->
                LET asked == IF a.f1.ues[cu].setup THEN a
                             ELSE [ToDu(a, [k |-> "ctxSetup", cu |-> cu]) EXCEPT !.f1.ues[cu].setup = TRUE]
                IN [asked EXCEPT !.f1.udown = @ \cup {[teid |-> f1u_teid(cu, msg.psi), pdu |-> msg]}]
           [] msg.k = "released" ->
                [ToDu(a, [k |-> "release", cu |-> cu, du |-> a.f1.ues[cu].du]) EXCEPT !.f1.ues = Drop(@, {cu})]

Send(a, peer, msg) == IF Split THEN SendF1(a, peer, msg) ELSE ToUe(a, peer, msg)

SendAll(a, peer, msgs) == FoldLeft(LAMBDA b, m : Send(b, peer, m), a, msgs)

Srb1(level, rrc) == [k |-> "srb1", level |-> level, rrc |-> rrc]
DlNas(level, nas) == Srb1(level, [m |-> "nas", nas |-> nas])

-----------------------------------------------------------------------------
(* The core: one operator per handler, on s = [gnb, air, amf, n3]           *)

State == [gnb |-> gnb, air |-> Air, amf |-> amf, n3 |-> n3]

Commit(s) ==
    /\ gnb' = s.gnb /\ down' = s.air.down /\ f1' = s.air.f1 /\ amf' = s.amf /\ n3' = s.n3

Ctx(s, ran) == s.gnb.ues[ran]

\* A fresh context; a stale one of the same peer is dropped.
new_ue(g, peer, who) ==
    LET stale == IF peer \in DOMAIN g.by_peer THEN {g.by_peer[peer]} ELSE {}
    IN [ues |-> Put(Drop(g.ues, stale), g.next_ran, UeCtx(peer, who)),
        by_peer |-> Put(g.by_peer, peer, g.next_ran),
        camped |-> IF Contains(g.camped, peer) THEN g.camped ELSE Append(g.camped, peer),
        next_ran |-> g.next_ran + 1, next_teid |-> g.next_teid]

\* Mutant: the peer goes on being mapped to the context that is gone.
remove_ueKeepsPeer(g, ran) == [g EXCEPT !.ues = Drop(@, {ran})]

remove_ue(g, ran) == [g EXCEPT !.by_peer = Drop(@, {g.ues[ran].peer}), !.ues = Drop(@, {ran})]

\* SRB0: RRCSetupRequest.
OnSetupRequest(s, peer, msg) ==
    [s EXCEPT !.gnb = new_ue(@, peer, msg.who), !.air = Send(@, peer, [k |-> "setup"]),
              !.amf.seen = @ \cup {msg.who}]

\* The UPF is told the tunnels of a response.
Bind(n, sessions) ==
    FoldLeft(LAMBDA m, x : [m EXCEPT !.tunnels = {t \in @ : <<t.who, t.psi>> # <<x.who, x.psi>>} \cup {x}], n, sessions)

\* The UE confirmed AS security: the held NAS, then the deferred response.
on_as_security_complete(s, ran) ==
    LET c == Ctx(s, ran)
        sent == [i \in DOMAIN c.held |-> DlNas(c.level, c.held[i])]
    IN [s EXCEPT !.gnb.ues[ran].held = <<>>, !.gnb.ues[ran].ics = FALSE,
                 !.air = SendAll(@, c.peer, sent),
                 !.n3 = IF c.ics THEN Bind(@, c.sessions) ELSE @,
                 !.amf.answered = IF c.ics THEN @ \cup {ran} ELSE @]

\* SRB1.  The AMF knows the owner of a context from its first NAS message.
OnSrb1(s, peer, msg) ==
    IF peer \notin DOMAIN s.gnb.by_peer THEN s
    ELSE LET ran == s.gnb.by_peer[peer]
         IN IF Ctx(s, ran).level # msg.level THEN s
            ELSE CASE msg.rrc.m = "complete" ->
                        [s EXCEPT !.amf.ctx = Put(@, ran, [who |-> msg.rrc.who, ics |-> FALSE])]
                   [] msg.rrc.m = "nas" ->
                        IF Ctx(s, ran).amf
                        THEN [s EXCEPT !.amf.heard = @ \cup {[ran |-> ran, who |-> msg.rrc.who]}] ELSE s
                   [] msg.rrc.m = "smc" -> on_as_security_complete(s, ran)

\* UlMessage::Idle: a release request, once the AMF has addressed the UE.
OnIdle(s, peer) ==
    IF peer \in DOMAIN s.gnb.by_peer /\ Ctx(s, s.gnb.by_peer[peer]).amf
    THEN [s EXCEPT !.amf.idle = @ \cup {s.gnb.by_peer[peer]}] ELSE s

\* Uplink user data goes to the first session with the id of the packet.
OnData(s, peer, msg) ==
    IF peer \notin DOMAIN s.gnb.by_peer THEN s
    ELSE LET ran == s.gnb.by_peer[peer]
             i == SelectInSeq(Ctx(s, ran).sessions, LAMBDA x : x.psi = msg.psi)
         IN IF i = 0 THEN s
            ELSE [s EXCEPT !.n3.uplink = [upf |-> Ctx(s, ran).sessions[i].upf,
                                             now |-> {t.upf : t \in {x \in s.n3.tunnels : x.who = msg.who /\ x.psi = msg.psi}}]]

handle_uu(s, peer, msg) ==
    CASE msg.k = "request" -> OnSetupRequest(s, peer, msg)
      [] msg.k = "srb1" -> OnSrb1(s, peer, msg)
      [] msg.k = "idle" -> OnIdle(s, peer)
      [] msg.k = "data" -> OnData(s, peer, msg)

\* A session of a request, with the tunnel allocated for it.
Session(s, item) == [psi |-> item.psi, who |-> item.who, upf |-> item.upf, dl |-> s.gnb.next_teid]

\* alloc_dl_teid, and the session added to the context.
Admit(s, ran, item) ==
    [s EXCEPT !.gnb.next_teid = @ + 1, !.gnb.ues[ran].sessions = Append(@, Session(s, item))]

OnDownlinkNas(s, msg) ==
    IF msg.ran \notin DOMAIN s.gnb.ues THEN s
    ELSE [s EXCEPT !.gnb.ues[msg.ran].amf = TRUE,
                   !.air = Send(@, Ctx(s, msg.ran).peer, DlNas(Ctx(s, msg.ran).level, msg.nas))]

\* Initial Context Setup: the sessions, the security mode command (integrity
\* only), then ciphering; the NAS and the response wait for the UE.
OnContextSetup(s, msg) ==
    IF msg.ran \notin DOMAIN s.gnb.ues THEN s
    ELSE LET t == FoldLeft(LAMBDA x, i : Admit(x, msg.ran, i), s, msg.items)
         IN [t EXCEPT !.gnb.ues[msg.ran].amf = TRUE, !.gnb.ues[msg.ran].level = "enc",
                      !.gnb.ues[msg.ran].held = Append(@, msg.nas), !.gnb.ues[msg.ran].ics = TRUE,
                      !.air = Send(@, Ctx(s, msg.ran).peer, Srb1("int", [m |-> "smc"]))]

\* PDU Session Resource Setup: the first session of the request.
OnSessionSetup(s, msg) ==
    IF msg.ran \notin DOMAIN s.gnb.ues THEN s
    ELSE [Admit(s, msg.ran, msg.item) EXCEPT
            !.n3 = Bind(@, <<Session(s, msg.item)>>),
            !.air = Send(@, Ctx(s, msg.ran).peer, DlNas(Ctx(s, msg.ran).level, msg.nas))]

\* UE Context Release: RRCRelease at the level of SRB1, then the Uu's marker.
OnRelease(s, msg) ==
    IF msg.ran \notin DOMAIN s.gnb.ues THEN s
    ELSE LET c == Ctx(s, msg.ran)
         IN [s EXCEPT !.gnb = remove_ue(@, msg.ran),
                      !.air = SendAll(@, c.peer, <<Srb1(c.level, [m |-> "release"]), [k |-> "released"]>>)]

\* Paging: to every peer of the list; over F1 each is a message to the cell.
OnPage(s, msg) ==
    [s EXCEPT !.air = FoldLeft(LAMBDA a, p : Send(a, p, [k |-> "page", who |-> msg.who]), @, s.gnb.camped)]

\* Anything else is logged: a PDU Session Resource Release Command, for one.
handle_ngap(s, msg) ==
    CASE msg.k = "nas" -> OnDownlinkNas(s, msg)
      [] msg.k = "ics" -> OnContextSetup(s, msg)
      [] msg.k = "session" -> OnSessionSetup(s, msg)
      [] msg.k = "release" -> OnRelease(s, msg)
      [] msg.k = "page" -> OnPage(s, msg)
      [] OTHER -> s

\* A G-PDU on N3: the owner of the tunnel, then the first session with its id.
Owners(s, teid) == {ran \in DOMAIN s.gnb.ues : \E i \in DOMAIN Ctx(s, ran).sessions : Ctx(s, ran).sessions[i].dl = teid}

handle_n3(s, pkt) ==
    IF Owners(s, pkt.teid) = {} THEN s
    ELSE LET ran == CHOOSE r \in Owners(s, pkt.teid) : TRUE
             c == Ctx(s, ran)
             i == SelectInSeq(c.sessions, LAMBDA x : x.dl = pkt.teid)
         IN [s EXCEPT !.air = Send(@, c.peer, [k |-> "data", psi |-> c.sessions[i].psi, who |-> pkt.who])]

-----------------------------------------------------------------------------
Init ==
    /\ ue = [u \in UEs |-> [st |-> "idle", level |-> "none", got |-> <<>>, paged |-> 0]]
    /\ up = [u \in UEs |-> <<>>] /\ down = [u \in UEs |-> <<>>]
    /\ f1 = [ues |-> Nothing, next_cu |-> 1, toCu |-> <<>>, toDu |-> <<>>, udown |-> {}, uup |-> {}]
    /\ du = [ues |-> Nothing, camped |-> {}, next_du |-> 1]
    /\ gnb = GnbState
    /\ n2 = <<>>
    /\ amf = [ctx |-> Nothing, sent |-> [u \in UEs |-> 0], heard |-> {}, answered |-> {}, idle |-> {}, seen |-> {}]
    /\ n3 = [tunnels |-> {}, flight |-> {}, uplink |-> NoPacket]
    /\ spent = [connects |-> 0, nas |-> 0, uplinks |-> 0, sessions |-> 0, packets |-> 0, pages |-> 0,
                losses |-> 0, assocs |-> 1]

-----------------------------------------------------------------------------
(* The UE *)

Uplink(u, msg) == Fits(up[u]) /\ up' = [up EXCEPT ![u] = Append(@, msg)]

\* A UE opens a connection, for the first time, from idle or after a radio failure.
UeConnect(u) ==
    /\ spent.connects < MaxConnects /\ ue[u].st # "asking"
    /\ Spend("connects")
    /\ Uplink(u, [k |-> "request", who |-> u])
    /\ ue' = [ue EXCEPT ![u].st = "asking", ![u].level = "none"]
    /\ UNCHANGED <<down, f1, du, gnb, n2, amf, n3>>

UeUplink(u) ==
    /\ ue[u].st = "connected" /\ spent.uplinks < MaxUplinks
    /\ Spend("uplinks")
    /\ \/ Uplink(u, Srb1(ue[u].level, [m |-> "nas", who |-> u])) /\ UNCHANGED ue
       \/ Uplink(u, [k |-> "data", psi |-> 1, who |-> u]) /\ UNCHANGED ue
       \/ Uplink(u, [k |-> "idle"]) /\ ue' = [ue EXCEPT ![u].st = "leaving"]
    /\ UNCHANGED <<down, f1, du, gnb, n2, amf, n3>>

Answer(u, msg) == up' = [up EXCEPT ![u] = Append(@, msg)]

\* The next downlink message: what does not fit the UE's state is dropped.
UeReceive(u) ==
    /\ down[u] # <<>>
    /\ down' = [down EXCEPT ![u] = Tail(@)]
    /\ LET msg == Head(down[u])
           opens == msg.k = "srb1" /\ (msg.level = ue[u].level \/ (msg.level = "int" /\ ue[u].level = "none"))
       IN \/ /\ msg.k = "setup" /\ ue[u].st = "asking"
             /\ ue' = [ue EXCEPT ![u].st = "connected"]
             /\ Answer(u, Srb1("none", [m |-> "complete", who |-> u]))
          \/ /\ opens /\ msg.rrc.m = "smc" /\ ue[u].st = "connected"
             /\ ue' = [ue EXCEPT ![u].level = "enc"]
             /\ Answer(u, Srb1("enc", [m |-> "smc"]))
          \/ /\ opens /\ msg.rrc.m = "nas" /\ ue[u].st # "idle"
             /\ ue' = [ue EXCEPT ![u].got = Append(@, [nas |-> msg.rrc.nas, level |-> msg.level])]
             /\ UNCHANGED up
          \/ /\ msg.k = "released" /\ ue[u].st # "asking"
             /\ ue' = [ue EXCEPT ![u].st = "idle", ![u].level = "none"]
             /\ UNCHANGED up
          \/ /\ msg.k = "page"
             /\ ue' = [ue EXCEPT ![u].paged = IF msg.who = u THEN @ + 1 ELSE @]
             /\ UNCHANGED up
          \/ /\ \/ msg.k = "data"
                \/ msg.k = "setup" /\ ue[u].st # "asking"
                \/ msg.k = "released" /\ ue[u].st = "asking"
                \/ msg.k = "srb1" /\ (~opens \/ msg.rrc.m = "release")
                \/ msg.k = "srb1" /\ opens /\ msg.rrc.m = "smc" /\ ue[u].st # "connected"
                \/ msg.k = "srb1" /\ opens /\ msg.rrc.m = "nas" /\ ue[u].st = "idle"
             /\ UNCHANGED <<ue, up>>
    /\ UNCHANGED <<f1, du, gnb, n2, amf, n3, spent>>

\* A datagram is lost on the Uu.
UuLoses(u) ==
    /\ spent.losses < MaxLosses /\ Spend("losses")
    /\ \/ up[u] # <<>> /\ up' = [up EXCEPT ![u] = Tail(@)] /\ UNCHANGED down
       \/ down[u] # <<>> /\ down' = [down EXCEPT ![u] = Tail(@)] /\ UNCHANGED up
    /\ UNCHANGED <<ue, f1, du, gnb, n2, amf, n3>>

-----------------------------------------------------------------------------
(* The DU *)

DuOf(u) == {d \in DOMAIN du.ues : du.ues[d].peer = u}
OfCu(cu) == {d \in DOMAIN du.ues : du.ues[d].cu = cu}

\* A UE that camps again replaces its context.
recamp(d, u) == [d EXCEPT !.ues = Put(Drop(@, {x \in DOMAIN @ : @[x].peer = u}), d.next_du, [peer |-> u, cu |-> 0])]

\* Du::handle_uu.  Until the CU has addressed the UE only SRB0 goes through.
DuUplink(u) ==
    /\ Split /\ up[u] # <<>> /\ Fits(f1.toCu)
    /\ up' = [up EXCEPT ![u] = Tail(@)]
    /\ LET msg == Head(up[u])
           cu == IF DuOf(u) = {} THEN 0 ELSE du.ues[CHOOSE d \in DuOf(u) : TRUE].cu
       IN CASE msg.k = "request" ->
                 /\ du' = [recamp(du, u) EXCEPT !.next_du = @ + 1, !.camped = @ \cup {u}]
                 /\ f1' = [f1 EXCEPT !.toCu = Append(@, [k |-> "initial", du |-> du.next_du, uu |-> msg])]
            [] msg.k # "request" /\ cu = 0 -> UNCHANGED <<du, f1>>
            [] msg.k = "data" /\ cu # 0 ->
                 f1' = [f1 EXCEPT !.uup = @ \cup {[teid |-> f1u_teid(cu, msg.psi), pdu |-> msg]}] /\ UNCHANGED du
            [] OTHER -> f1' = [f1 EXCEPT !.toCu = Append(@, [k |-> "ul", cu |-> cu, uu |-> msg])] /\ UNCHANGED du
    /\ UNCHANGED <<ue, down, gnb, n2, amf, n3, spent>>

\* Du::handle_f1ap.  A downlink RRC message teaches the CU's identity of the UE.
DuF1 ==
    /\ f1.toDu # <<>>
    /\ f1' = [f1 EXCEPT !.toDu = Tail(@)]
    /\ LET msg == Head(f1.toDu)
       IN CASE msg.k = "dlrrc" ->
                 IF msg.du \in DOMAIN du.ues
                 THEN /\ du' = [du EXCEPT !.ues[msg.du].cu = msg.cu]
                      /\ down' = [down EXCEPT ![du.ues[msg.du].peer] = Append(@, msg.rrc)]
                 ELSE UNCHANGED <<du, down>>
            [] msg.k = "ctxSetup" -> UNCHANGED <<du, down>>
            [] msg.k = "release" ->
                 /\ du' = [du EXCEPT !.ues = Drop(@, OfCu(msg.cu))]
                 /\ down' = IF OfCu(msg.cu) = {} THEN down
                            ELSE [down EXCEPT ![du.ues[CHOOSE d \in OfCu(msg.cu) : TRUE].peer]
                                                = Append(@, [k |-> "released"])]
            [] msg.k = "page" ->
                 /\ down' = [u \in UEs |-> IF u \in du.camped THEN Append(down[u], msg) ELSE down[u]]
                 /\ UNCHANGED du
    /\ UNCHANGED <<ue, up, gnb, n2, amf, n3, spent>>

\* Du::handle_f1u_downlink.
DuF1u ==
    /\ \E g \in f1.udown :
         LET t == split_teid(g.teid)
         IN /\ f1' = [f1 EXCEPT !.udown = @ \ {g}]
            /\ down' = IF OfCu(t.cu) = {} THEN down
                       ELSE [down EXCEPT ![du.ues[CHOOSE d \in OfCu(t.cu) : TRUE].peer] = Append(@, g.pdu)]
    /\ UNCHANGED <<ue, up, du, gnb, n2, amf, n3, spent>>

-----------------------------------------------------------------------------
(* The gNB *)

\* UdpUu::recv, then the core.
CuUu(u) ==
    /\ ~Split /\ up[u] # <<>>
    /\ up' = [up EXCEPT ![u] = Tail(@)]
    /\ Commit(handle_uu(State, u, Head(up[u])))
    /\ UNCHANGED <<ue, du, n2, spent>>

\* F1Transport::handle_f1ap, then the core.
CuF1 ==
    /\ f1.toCu # <<>>
    /\ LET msg == Head(f1.toCu)
           taken == [f1 EXCEPT !.toCu = Tail(@)]
           s == [State EXCEPT !.air.f1 = taken]
       IN IF msg.k = "initial"
          THEN LET cu == f1.next_cu
               IN Commit(handle_uu([s EXCEPT !.air.f1.next_cu = cu + 1,
                                             !.air.f1.ues = Put(@, cu, [du |-> msg.du, setup |-> FALSE])],
                                   cu, msg.uu))
          ELSE Commit(handle_uu(s, msg.cu, msg.uu))
    /\ UNCHANGED <<ue, up, du, n2, spent>>

\* F1Transport::handle_f1u, then the core.
CuF1u ==
    /\ \E g \in f1.uup :
         Commit(handle_uu([State EXCEPT !.air.f1.uup = @ \ {g}], split_teid(g.teid).cu, g.pdu))
    /\ UNCHANGED <<ue, up, du, n2, spent>>

CuN2 ==
    /\ n2 # <<>>
    /\ n2' = Tail(n2)
    /\ Commit(handle_ngap(State, Head(n2)))
    /\ UNCHANGED <<ue, up, du, spent>>

CuN3 ==
    /\ \E pkt \in n3.flight : Commit(handle_n3([State EXCEPT !.n3.flight = @ \ {pkt}], pkt))
    /\ UNCHANGED <<ue, up, du, n2, spent>>

\* What a new association starts from.
Anew == GnbState

\* The N2 association is lost and set up again: a new state; the AMF drops its
\* contexts and the SMF its tunnels, packets under way stay under way.
Reconnect ==
    /\ spent.assocs < MaxAssociations /\ Spend("assocs")
    /\ gnb' = Anew
    /\ n2' = <<>>
    /\ amf' = [amf EXCEPT !.ctx = Nothing, !.answered = {}, !.idle = {}, !.heard = {}]
    /\ n3' = [n3 EXCEPT !.tunnels = {}]
    /\ UNCHANGED <<ue, up, down, f1, du>>

-----------------------------------------------------------------------------
(* The AMF and the UPF *)

Command(msg) == Fits(n2) /\ n2' = Append(n2, msg)

Nas(u, accept) == [who |-> u, n |-> amf.sent[u] + 1, accept |-> accept]
SendsNas(u) == spent.nas < MaxNas

AmfNas ==
    /\ \E ran \in DOMAIN amf.ctx :
         LET u == amf.ctx[ran].who
         IN /\ SendsNas(u) /\ Spend("nas")
            /\ Command([k |-> "nas", ran |-> ran, nas |-> Nas(u, FALSE)])
            /\ amf' = [amf EXCEPT !.sent[u] = @ + 1]
    /\ UNCHANGED <<ue, up, down, f1, du, gnb, n3>>

Item(u, ran) == [psi |-> 1, who |-> u, upf |-> 100 * ran + spent.sessions]

AmfContextSetup ==
    /\ \E ran \in DOMAIN amf.ctx :
         LET u == amf.ctx[ran].who
         IN /\ ~amf.ctx[ran].ics /\ SendsNas(u) /\ Spend("nas")
            /\ Command([k |-> "ics", ran |-> ran, nas |-> Nas(u, TRUE), items |-> IF Resume THEN <<Item(u, ran)>> ELSE <<>>])
            /\ amf' = [amf EXCEPT !.sent[u] = @ + 1, !.ctx[ran].ics = TRUE]
    /\ UNCHANGED <<ue, up, down, f1, du, gnb, n3>>

AmfSession ==
    /\ spent.sessions < MaxSessions
    /\ \E ran \in amf.answered \cap DOMAIN amf.ctx :
         LET u == amf.ctx[ran].who
         IN /\ SendsNas(u)
            /\ spent' = [spent EXCEPT !.sessions = @ + 1, !.nas = @ + 1]
            /\ Command([k |-> "session", ran |-> ran, nas |-> Nas(u, FALSE), item |-> Item(u, ran)])
            /\ amf' = [amf EXCEPT !.sent[u] = @ + 1]
    /\ UNCHANGED <<ue, up, down, f1, du, gnb, n3>>

\* At the gNB's request, or because the UE came back on another context.
AmfRelease ==
    /\ \E ran \in DOMAIN amf.ctx :
         /\ \/ ran \in amf.idle
            \/ \E newer \in DOMAIN amf.ctx : newer > ran /\ amf.ctx[newer].who = amf.ctx[ran].who
         /\ Command([k |-> "release", ran |-> ran])
         /\ amf' = [amf EXCEPT !.ctx = Drop(@, {ran}), !.idle = @ \ {ran}]
         /\ n3' = [n3 EXCEPT !.tunnels = {t \in @ : t.who # amf.ctx[ran].who}]
    /\ UNCHANGED <<ue, up, down, f1, du, gnb, spent>>

AmfPage ==
    /\ spent.pages < MaxPages /\ Spend("pages")
    /\ \E u \in amf.seen :
         /\ \A ran \in DOMAIN amf.ctx : amf.ctx[ran].who # u
         /\ Command([k |-> "page", who |-> u])
    /\ UNCHANGED <<ue, up, down, f1, du, gnb, amf, n3>>

UpfSends ==
    /\ spent.packets < MaxPackets /\ Spend("packets")
    /\ \E t \in n3.tunnels : n3' = [n3 EXCEPT !.flight = @ \cup {[teid |-> t.dl, who |-> t.who]}]
    /\ UNCHANGED <<ue, up, down, f1, du, gnb, n2, amf>>

Next ==
    \/ \E u \in UEs : UeConnect(u) \/ UeUplink(u) \/ UeReceive(u) \/ UuLoses(u) \/ DuUplink(u) \/ CuUu(u)
    \/ DuF1 \/ DuF1u \/ CuF1 \/ CuF1u \/ CuN2 \/ CuN3 \/ Reconnect
    \/ AmfNas \/ AmfContextSetup \/ AmfSession \/ AmfRelease \/ AmfPage \/ UpfSends

Spec == Init /\ [][Next]_vars

\* The loops of the gNB and the DU go on serving every interface (tokio::select!),
\* the UE reads what it is sent, and the AMF answers a release request.
FairSpec ==
    /\ Spec
    /\ WF_vars(CuN2) /\ WF_vars(CuF1) /\ WF_vars(DuF1) /\ WF_vars(AmfRelease)
    /\ \A u \in UEs : WF_vars(UeReceive(u)) /\ WF_vars(DuUplink(u)) /\ WF_vars(CuUu(u))

-----------------------------------------------------------------------------
(* Properties *)

\* The core never meets a mapped peer without a context (handle_uu expects one),
\* nor a context it cannot find from its peer.
PeersAreContexts ==
    /\ DOMAIN gnb.by_peer = {gnb.ues[ran].peer : ran \in DOMAIN gnb.ues}
    /\ \A p \in DOMAIN gnb.by_peer : gnb.by_peer[p] \in DOMAIN gnb.ues /\ gnb.ues[gnb.by_peer[p]].peer = p

\* Across N2, F1 and the Uu, re-camping and release included, a UE gets only its
\* own NAS, and the AMF hears on a context only the UE the context is of.
NasIsItsOwn ==
    /\ \A u \in UEs : \A i \in DOMAIN ue[u].got : ue[u].got[i].nas.who = u
    /\ \A h \in amf.heard : h.ran \in DOMAIN amf.ctx => amf.ctx[h.ran].who = h.who

\* The NAS of an Initial Context Setup reaches the air only ciphered, after the UE
\* has confirmed AS security.
AcceptIsCiphered ==
    \A u \in UEs : \A i \in DOMAIN ue[u].got :
      ue[u].got[i].nas.accept => ue[u].got[i].level = "enc"

\* A packet the UPF sends to a UE's tunnel is put on the air only for this UE.
DataIsItsOwn ==
    \A u \in UEs : \A i \in DOMAIN down[u] : down[u][i].k = "data" => down[u][i].who = u

\* An uplink packet leaves for the tunnel its session has at that moment.
UplinkIsCurrent == n3.uplink # NoPacket /\ n3.uplink.now # {} => n3.uplink.upf \in n3.uplink.now

Unanswered(ran) == ran \in DOMAIN gnb.ues /\ gnb.ues[ran].ics /\ ue[gnb.ues[ran].who].st = "connected"

\* An Initial Context Setup is answered, or its context released, while the UE stays.
ContextSetupIsResolved == \A ran \in 1 .. MaxConnects : Unanswered(ran) ~> ~Unanswered(ran)

\* Downlink NAS reaches the UE in the order the AMF sent it.
NasInOrder ==
    \A u \in UEs : \A i, j \in DOMAIN ue[u].got : i < j => ue[u].got[i].nas.n < ue[u].got[j].nas.n

\* The comment on new_ue: a new connection "replaces the old RRC-level
\* association", the peer being "a stable address for one UE endpoint".
OneContextPerUe ==
    \A r1, r2 \in DOMAIN gnb.ues : gnb.ues[r1].who = gnb.ues[r2].who => r1 = r2

\* The comment on camped: "every Uu peer ever seen", because "released UEs keep
\* camping and must still be pageable".
CampedArePaged ==
    [][n2 # <<>> /\ n2' = Tail(n2) /\ Head(n2).k = "page" =>
         \A u \in amf.seen : IF Split THEN Len(f1'.toDu) > Len(f1.toDu) ELSE Len(down'[u]) > Len(down[u])]_vars
=============================================================================
