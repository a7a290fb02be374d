------------------------ MODULE SessionAuthorization ------------------------
(***************************************************************************)
(* How the SMF authorizes a PDU session (create_sm_context in nf-smf, down *)
(* to the addresses it takes): smf-selection data and sm-data of the       *)
(* subscriber are fetched from the UDM one after the other, the session    *)
(* type is negotiated, and an IPv4 address and an IPv6 prefix are leased   *)
(* from their pools.  The documents come from radian-dbctl or from PUTs to *)
(* the UDR and may be replaced at any time.                                *)
(*                                                                         *)
(* One subscriber.  An S-NSSAI is [sst, sd, upper]: a slice differentiator *)
(* is hexadecimal text, and upper says that its letters are capitals.  A   *)
(* selection document is a set of [key, dnns]; sm-data is a sequence of    *)
(* [snssai, conf], conf being the configuration of each DNN.               *)
(***************************************************************************)
EXTENDS Naturals, Sequences, FiniteSets

CONSTANTS
    Requests,           \* CreateSMContext requests
    Asks,               \* what they ask for: [slice, dnn, type]
    Typed,              \* S-NSSAIs an operator types into radian-dbctl
    SelectDocs, SmDocs, \* documents that may be PUT
    Pool4, Pool6,       \* addresses of the two pools
    MaxChanges,         \* bound: changes of the documents
    None

AuthorizationAssumption ==
    {Pool4, Pool6, MaxChanges} \subseteq Nat /\ IsFiniteSet(Requests)

VARIABLES
    select, sm,     \* the documents in force, or None
    profile,        \* what radian-dbctl wrote last, while it is in force
    req,            \* [Requests -> the state of each]
    free4, free6,   \* addresses that are not handed out
    changes

vars == <<select, sm, profile, req, free4, free6, changes>>

NotAsked ==
    [at |-> "idle", ask |-> None, sel |-> None, stable |-> TRUE, against |-> None,
     granted |-> None, current |-> TRUE, v4 |-> None, v6 |-> None]

Init ==
    /\ select = None /\ sm = None /\ profile = None
    /\ req = [r \in Requests |-> NotAsked]
    /\ free4 = 1..Pool4 /\ free6 = 1..Pool6 /\ changes = 0

-----------------------------------------------------------------------------
(* Slices and session types *)

\* The subscribedSnssaiInfos key of a slice: its SD in lower case.
key(slice) == [slice EXCEPT !.upper = FALSE]

\* Case-insensitive equality.
matches(a, b) == a.sst = b.sst /\ a.sd = b.sd

Families(t) == CASE t = "IPV4" -> {4} [] t = "IPV6" -> {6} [] OTHER -> {4, 6}

\* parse_pdu_session_types: the default and what is allowed beside it.
parse_pdu_session_types(conf) ==
    Families(conf.default) \cup UNION {Families(t) : t \in conf.allowed}

\* The selected type and, on a downgrade, the 5GSM cause.
negotiate_pdu_type(asked, allow) ==
    LET only4 == [type |-> "IPV4", cause |-> 50]
        only6 == [type |-> "IPV6", cause |-> 51]
    IN IF Families(asked) \subseteq allow THEN [type |-> asked, cause |-> 0]
       ELSE CASE asked = "IPV4" -> only6
              [] asked = "IPV6" -> only4
              [] OTHER -> IF 6 \in allow /\ 4 \notin allow THEN only6 ELSE only4

-----------------------------------------------------------------------------
(* The documents *)

Pending(r) == req[r].at \in {"select", "sm"}

\* Documents change under the requests that are being authorized.
Changed ==
    /\ changes < MaxChanges /\ changes' = changes + 1
    /\ req' = [r \in Requests |->
                 IF Pending(r) THEN [req[r] EXCEPT !.stable = FALSE] ELSE req[r]]
    /\ UNCHANGED <<free4, free6>>

\* radian-dbctl add; the UDR is down meanwhile.  The slice is stored as typed.
SelectionInfo(slice, dnn) == {[key |-> slice, dnns |-> {dnn}]}
SmEntry(slice, dnn) ==
    [snssai |-> slice, conf |-> [d \in {dnn} |-> [default |-> "IPV4", allowed |-> {"IPV4", "IPV6"}]]]
dbctl_add(slice, dnn) ==
    /\ select' = SelectionInfo(slice, dnn)
    /\ sm' = <<SmEntry(slice, dnn)>>
    /\ profile' = [snssai |-> slice, dnn |-> dnn]
    /\ Changed

put_smf_sel == select' \in SelectDocs /\ profile' = None /\ Changed /\ UNCHANGED sm
put_sm_data == sm' \in SmDocs /\ profile' = None /\ Changed /\ UNCHANGED select

\* delete_subscription.
Withdraw == select' = None /\ sm' = None /\ profile' = None /\ Changed

-----------------------------------------------------------------------------
(* The SMF *)

docs == <<select, sm, profile, changes>>
pools == <<free4, free6>>

\* A request with its dnn and servingNetwork; without one it is refused at once.
Create(r, ask) ==
    /\ req[r].at = "idle"
    /\ req' = [req EXCEPT ![r].at = "select", ![r].ask = ask]
    /\ UNCHANGED <<docs, pools>>

\* 403; against is the profile that was in force since the request came.
Denied(r) ==
    [req[r] EXCEPT !.at = "denied", !.against = IF req[r].stable THEN profile ELSE None]

dnn_in_info(info, dnn) == dnn \in info.dnns

\* The selection document allows the DNN: in the slice asked for, or in any.
Allows(sel, ask) ==
    /\ sel # None
    /\ \E info \in sel : /\ ask.slice # None => info.key = key(ask.slice)
                         /\ dnn_in_info(info, ask.dnn)

FetchSelect(r) ==
    /\ req[r].at = "select"
    /\ req' = [req EXCEPT ![r] =
         IF Allows(select, req[r].ask) THEN [req[r] EXCEPT !.at = "sm", !.sel = select]
         ELSE Denied(r)]
    /\ UNCHANGED <<docs, pools>>

\* The sm-data entry: of the slice asked for, else the first to configure the DNN.
Entry(ask) ==
    LET Is(e) == IF ask.slice # None THEN matches(e.snssai, ask.slice)
                 ELSE ask.dnn \in DOMAIN e.conf
        is == {i \in 1..Len(sm) : Is(sm[i])}
    IN IF is = {} THEN None ELSE sm[CHOOSE i \in is : \A j \in is : i <= j]

\* fetch_session_subscription to its end, and the type.
FetchSm(r) ==
    /\ req[r].at = "sm"
    /\ LET ask == req[r].ask
           entry == IF sm = None THEN None ELSE Entry(ask)
           served == entry # None /\ ask.dnn \in DOMAIN entry.conf
       IN req' = [req EXCEPT ![r] =
            IF ~served THEN Denied(r)
            ELSE LET conf == entry.conf[ask.dnn]
                     allow == parse_pdu_session_types(conf)
                     wanted == IF ask.type = None THEN conf.default ELSE ask.type
                     chosen == negotiate_pdu_type(wanted, allow)
                 IN [req[r] EXCEPT
                       !.at = "lease4", !.current = Allows(select, ask),
                       !.granted = [snssai |-> entry.snssai, conf |-> conf, wanted |-> wanted,
                                    type |-> chosen.type, cause |-> chosen.cause]]]
    /\ UNCHANGED <<docs, pools>>

\* The UDM is not discovered or does not answer: 502.
Unreachable(r) ==
    /\ Pending(r)
    /\ req' = [req EXCEPT ![r].at = "failed"]
    /\ UNCHANGED <<docs, pools>>

Lowest(s) == CHOOSE n \in s : \A k \in s : n <= k
Wants(r, f) == f \in Families(req[r].granted.type)

\* alloc_ue_ip: an address of the pool, or 503.
alloc_ue_ip(r) ==
    /\ req[r].at = "lease4"
    /\ IF ~Wants(r, 4) THEN req' = [req EXCEPT ![r].at = "lease6"] /\ UNCHANGED free4
       ELSE IF free4 = {} THEN req' = [req EXCEPT ![r].at = "failed"] /\ UNCHANGED free4
       ELSE /\ req' = [req EXCEPT ![r].at = "lease6", ![r].v4 = Lowest(free4)]
            /\ free4' = free4 \ {Lowest(free4)}
    /\ UNCHANGED <<docs, free6>>

\* What a lease or a context gives back: release_ue_ip, release_ue_ipv6.
Returns(r, at) ==
    /\ req' = [req EXCEPT ![r].at = at, ![r].v4 = None, ![r].v6 = None]
    /\ free4' = free4 \cup ({req[r].v4} \ {None})
    /\ free6' = free6 \cup ({req[r].v6} \ {None})

\* Mutant: the IPv4 address is not returned when there is no prefix.
AllocKeepsV4(r) ==
    /\ req[r].at = "lease6"
    /\ IF Wants(r, 6) /\ free6 = {}
       THEN req' = [req EXCEPT ![r].at = "failed", ![r].v4 = None] /\ UNCHANGED pools
       ELSE IF ~Wants(r, 6) THEN req' = [req EXCEPT ![r].at = "n4"] /\ UNCHANGED pools
       ELSE /\ req' = [req EXCEPT ![r].at = "n4", ![r].v6 = Lowest(free6)]
            /\ free6' = free6 \ {Lowest(free6)} /\ UNCHANGED free4
    /\ UNCHANGED docs

\* alloc_ue_ipv6: a prefix; without one the lease is dropped (503).
alloc_ue_ipv6(r) ==
    /\ req[r].at = "lease6"
    /\ IF Wants(r, 6) /\ free6 = {} THEN Returns(r, "failed")
       ELSE IF ~Wants(r, 6) THEN req' = [req EXCEPT ![r].at = "n4"] /\ UNCHANGED pools
       ELSE /\ req' = [req EXCEPT ![r].at = "n4", ![r].v6 = Lowest(free6)]
            /\ free6' = free6 \ {Lowest(free6)} /\ UNCHANGED free4
    /\ UNCHANGED docs

\* The N4 establishment: the lease is committed, or dropped.
Established(r) ==
    /\ req[r].at = "n4"
    /\ \/ req' = [req EXCEPT ![r].at = "active"] /\ UNCHANGED pools
       \/ Returns(r, "failed")
    /\ UNCHANGED docs

\* teardown_sm_context.
Release(r) == req[r].at = "active" /\ Returns(r, "released") /\ UNCHANGED docs

Done == /\ \A r \in Requests : req[r].at \in {"denied", "failed", "active", "released"}
        /\ UNCHANGED vars

Next ==
    \/ \E slice \in Typed, a \in Asks : dbctl_add(slice, a.dnn)
    \/ put_smf_sel \/ put_sm_data \/ Withdraw
    \/ \E r \in Requests :
         \/ \E ask \in Asks : Create(r, ask)
         \/ FetchSelect(r) \/ FetchSm(r) \/ Unreachable(r)
         \/ alloc_ue_ip(r) \/ alloc_ue_ipv6(r) \/ Established(r) \/ Release(r)
    \/ Done

Spec == Init /\ [][Next]_vars

-----------------------------------------------------------------------------
(* Properties *)

Granted == {r \in Requests : req[r].granted # None}

\* The slice of the grant is listed with its DNN in the selection data read.
Listed(r) == \E info \in req[r].sel : /\ matches(info.key, req[r].granted.snssai)
                                      /\ dnn_in_info(info, req[r].ask.dnn)

\* A session in a slice that the UE asked for is in that slice, and the pair was
\* listed, though two documents spell the slice and either may be replaced
\* between the two reads (fetch_session_subscription).
AskedPairIsAuthorized ==
    \A r \in Granted : req[r].ask.slice # None =>
        matches(req[r].granted.snssai, req[r].ask.slice) /\ Listed(r)

\* The selected type uses families that the configuration allows, and the UE is
\* told a cause exactly when it gets less than it asked for, the one of the
\* family that it got (parse_pdu_session_types, negotiate_pdu_type).
TypeIsAllowed ==
    \A r \in Granted : LET g == req[r].granted IN
        /\ \A f \in Families(g.type) :
             f \in Families(g.conf.default) \/ \E t \in g.conf.allowed : f \in Families(t)
        /\ g.cause = (IF g.type = g.wanted THEN 0 ELSE IF g.type = "IPV4" THEN 50 ELSE 51)

\* Every address and every prefix is free or has one owner, also when the second
\* of the two pools or the UPF fails (IpLease).
LeasesAccounted ==
    LET Held(f) == {r \in Requests : req[r][f] # None}
        Used(f) == {req[r][f] : r \in Held(f)}
    IN /\ free4 \cup Used("v4") = 1..Pool4 /\ Cardinality(free4) + Cardinality(Held("v4")) = Pool4
       /\ free6 \cup Used("v6") = 1..Pool6 /\ Cardinality(free6) + Cardinality(Held("v6")) = Pool6

\* radian-dbctl: the profile is "enough to register and establish a PDU
\* session": a request for what was provisioned is not denied.
ProvisionedIsServed ==
    \A r \in Requests : LET p == req[r].against
                            ask == req[r].ask IN
        req[r].at = "denied" /\ p # None =>
            ask.dnn # p.dnn \/ (ask.slice # None /\ ~matches(ask.slice, p.snssai))

(* What it follows from *)

\* What is taken for granted of the environment: the asks name slices, the documents are
\* lists, and an operator types slice differentiators as UEs' requests spell them, in small
\* letters; None is no address and no document.
AuthorizationNone ==
    /\ \A n \in 1..Pool4 \cup 1..Pool6 : n # None
    /\ \A slice \in Typed, ask \in Asks :
         /\ SelectionInfo(slice, ask.dnn) # None
         /\ SmEntry(slice, ask.dnn) # None /\ <<SmEntry(slice, ask.dnn)>> # None
AuthorizationInputs ==
    /\ \A ask \in Asks : ask.slice = None \/ {"sst", "sd", "upper"} \subseteq DOMAIN ask.slice
    /\ \A doc \in SmDocs : Len(doc) \in Nat
    /\ \A slice \in Typed, ask \in Asks :
         ask.slice = None \/ (matches(slice, ask.slice) => slice = key(ask.slice))

Fits(q) ==
    LET g == q.granted IN
    /\ q.ask.slice # None =>
         /\ matches(g.snssai, q.ask.slice)
         /\ \E info \in q.sel : matches(info.key, g.snssai) /\ dnn_in_info(info, q.ask.dnn)
    /\ \A f \in Families(g.type) :
         f \in Families(g.conf.default) \/ \E t \in g.conf.allowed : f \in Families(t)
    /\ g.cause = (IF g.type = g.wanted THEN 0 ELSE IF g.type = "IPV4" THEN 50 ELSE 51)

\* How far a request has come, and what it has by then.
Fields == {"at", "ask", "sel", "stable", "against", "granted", "current", "v4", "v6"}
Stages == {"idle", "select", "sm", "lease4", "lease6", "n4", "active", "released", "denied", "failed"}
Sound(q) ==
    /\ q = [f \in Fields |-> q[f]] /\ q.at \in Stages
    /\ q.at # "idle" => q.ask \in Asks
    /\ q.at \in {"idle", "select", "sm"} => q.granted = None
    /\ q.at = "sm" => Allows(q.sel, q.ask)
    /\ q.granted # None => Fits(q)
    /\ q.at \notin {"lease6", "n4", "active"} => q.v4 = None
    /\ q.at \notin {"n4", "active"} => q.v6 = None
    /\ q.at = "denied" /\ q.against # None =>
         q.ask.dnn # q.against.dnn \/ (q.ask.slice # None /\ ~matches(q.ask.slice, q.against.snssai))

\* A profile in force is what both documents say.
ProfileInForce ==
    profile # None =>
        /\ profile.snssai \in Typed
        /\ select = SelectionInfo(profile.snssai, profile.dnn) /\ select # None
        /\ sm = <<SmEntry(profile.snssai, profile.dnn)>> /\ sm # None /\ sm[1] # None

\* Of a pool's addresses, the ones that holds does not give to a request are free.
Leased(free, holds, pool) ==
    LET Held == {r \in Requests : holds[r] # None} IN
    /\ free \subseteq 1..pool /\ holds \in [Requests -> (1..pool \ free) \cup {None}]
    /\ \A r, s \in Held : holds[r] = holds[s] => r = s
    /\ free \cup {holds[r] : r \in Held} = 1..pool /\ Cardinality(free) + Cardinality(Held) = pool
Holds(f) == [r \in Requests |-> req[r][f]]

AuthorizationIInv ==
    /\ req = [r \in Requests |-> req[r]] /\ \A r \in Requests : Sound(req[r])
    /\ sm = None \/ Len(sm) \in Nat
    /\ ProfileInForce
    /\ Leased(free4, Holds("v4"), Pool4) /\ Leased(free6, Holds("v6"), Pool6)

(* Refuted *)

\* create_sm_context: "a denied (slice, DNN) -> 403", whether or not the UE names
\* the slice.
PairIsAuthorized == \A r \in Granted : Listed(r)

\* When the session is granted both documents in force allow it.
BothInForce == \A r \in Granted : req[r].current
=============================================================================
