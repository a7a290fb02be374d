---------------------------- MODULE SessionProofs ----------------------------
(***************************************************************************)
(* Theorems about Sessions: the charging of a session, its authorization,  *)
(* its policy and the flows made of it, for every number of requests,      *)
(* updates and decisions and every other value of the constants that       *)
(* SessionsAssumption admits.                                              *)
(*                                                                         *)
(* Sessions has the modules of the parts as instances over v1 .. v16; a    *)
(* section says which variables they are.  Each section shows that the     *)
(* part's invariant (ChargingIInv, AuthorizationIInv, BindingIInv,         *)
(* PolicyIInv) holds at first and is kept by every step; the last one      *)
(* concludes for the behaviours of Sessions.                               *)
(***************************************************************************)
EXTENDS Sessions, FiniteSetTheorems, WellFoundedInduction, TLAPS

\* Among numbers there is a least one.
LEMMA Least ==
    ASSUME NEW T \in SUBSET Nat, T # {}
    PROVE  \E n \in T : \A m \in T : n <= m
<1>1. PICK n \in T : \A m \in T : ~(<<m, n>> \in OpToRel(<, Nat))
  BY WFMin, NatLessThanWellFounded
<1>2. \A m \in T : ~(m < n)
  BY <1>1 DEF OpToRel
<1>q. QED
  BY <1>2

-----------------------------------------------------------------------------
(* Authorization: v1 is select, v2 sm, v3 profile, v4 req, v5 free4, v6 free6 *)

\* The instance's Cardinality is the one the theorems about finite sets speak of.
LEMMA AuthorizationCardinality == \A S : Authorization!Cardinality(S) = Cardinality(S)
  BY DEF Authorization!Cardinality, Cardinality

LEMMA RequestsFinite == Authorization!AuthorizationAssumption => IsFiniteSet(Requests)
  BY DEF Authorization!AuthorizationAssumption, Authorization!IsFiniteSet, IsFiniteSet

\* A pool and who holds what of it: an address is taken,
LEMMA LeaseTaken ==
    ASSUME Authorization!AuthorizationAssumption, NEW pool \in Nat, \A n \in 1..pool : n # None,
           NEW free, NEW holds, Authorization!Leased(free, holds, pool),
           NEW r \in Requests, holds[r] = None, NEW n \in free
    PROVE  Authorization!Leased(free \ {n}, [holds EXCEPT ![r] = n], pool)
<1> PICK h : h = [holds EXCEPT ![r] = n]
  OBVIOUS
<1> PICK H : H = {s \in Requests : holds[s] # None}
  OBVIOUS
<1>1. /\ free \subseteq 1..pool /\ holds \in [Requests -> (1..pool \ free) \cup {None}]
      /\ \A s, t \in H : holds[s] = holds[t] => s = t
      /\ free \cup {holds[s] : s \in H} = 1..pool
      /\ Cardinality(free) + Cardinality(H) = pool
  BY AuthorizationCardinality DEF Authorization!Leased
<1>2. n \in 1..pool /\ n # None
  BY <1>1
<1>3. h[r] = n /\ \A s \in Requests \ {r} : h[s] = holds[s]
  BY <1>1
<1>4. h \in [Requests -> (1..pool \ (free \ {n})) \cup {None}]
  BY <1>1, <1>2, <1>3
<1>5. {s \in Requests : h[s] # None} = H \cup {r} /\ r \notin H /\ H \subseteq Requests
  BY <1>2, <1>3
<1>6. \A s \in H : holds[s] # n /\ h[s] = holds[s]
  BY <1>1, <1>2, <1>3, <1>5
<1>7. \A s, t \in H \cup {r} : h[s] = h[t] => s = t
  BY <1>1, <1>3, <1>5, <1>6
<1>8. (free \ {n}) \cup {h[s] : s \in H \cup {r}} = 1..pool
  BY <1>1, <1>3, <1>6
<1>9. Cardinality(free \ {n}) + Cardinality(H \cup {r}) = pool
  <2>1. IsFiniteSet(free) /\ IsFiniteSet(H)
    <3>1. IsFiniteSet(1..pool)
      BY FS_Interval
    <3>q. QED
      BY <1>1, <1>5, <3>1, RequestsFinite, FS_Subset
  <2>2. Cardinality(free \ {n}) = Cardinality(free) - 1 /\ Cardinality(H \cup {r}) = Cardinality(H) + 1
    BY <1>5, <2>1, FS_RemoveElement, FS_AddElement
  <2>3. Cardinality(free) \in Nat /\ Cardinality(H) \in Nat
    BY <2>1, FS_CardinalityType
  <2>q. QED
    BY <1>1, <2>2, <2>3
<1>q. QED
  BY <1>1, <1>4, <1>5, <1>7, <1>8, <1>9, AuthorizationCardinality DEF Authorization!Leased

\* or given back,
LEMMA LeaseReturned ==
    ASSUME Authorization!AuthorizationAssumption, NEW pool \in Nat, \A n \in 1..pool : n # None,
           NEW free, NEW holds, Authorization!Leased(free, holds, pool), NEW r \in Requests
    PROVE  Authorization!Leased(free \cup ({holds[r]} \ {None}), [holds EXCEPT ![r] = None], pool)
<1> PICK h : h = [holds EXCEPT ![r] = None]
  OBVIOUS
<1> PICK H : H = {s \in Requests : holds[s] # None}
  OBVIOUS
<1>1. /\ free \subseteq 1..pool /\ holds \in [Requests -> (1..pool \ free) \cup {None}]
      /\ \A s, t \in H : holds[s] = holds[t] => s = t
      /\ free \cup {holds[s] : s \in H} = 1..pool
      /\ Cardinality(free) + Cardinality(H) = pool
  BY AuthorizationCardinality DEF Authorization!Leased
<1>2. h[r] = None /\ \A s \in Requests \ {r} : h[s] = holds[s]
  BY <1>1
<1>3. CASE holds[r] = None
  BY <1>1, <1>2, <1>3
<1>4. CASE holds[r] # None
  <2>1. r \in H /\ holds[r] \in 1..pool /\ holds[r] \notin free /\ H \subseteq Requests
    BY <1>1, <1>4
  <2>2. {s \in Requests : h[s] # None} = H \ {r}
    BY <1>2
  <2>3. PICK n : n = holds[r] /\ n # None
    BY <1>4
  <2>4. \A s \in H \ {r} : h[s] = holds[s] /\ h[s] # n
    BY <1>1, <1>2, <2>1, <2>3
  <2>5. h \in [Requests -> (1..pool \ (free \cup {n})) \cup {None}]
    BY <1>1, <1>2, <2>4
  <2>6. (free \cup {n}) \cup {h[s] : s \in H \ {r}} = 1..pool
    BY <1>1, <2>1, <2>3, <2>4
  <2>7. Cardinality(free \cup {n}) + Cardinality(H \ {r}) = pool
    <3>1. IsFiniteSet(free) /\ IsFiniteSet(H)
      <4>1. IsFiniteSet(1..pool)
        BY FS_Interval
      <4>q. QED
        BY <1>1, <2>1, <4>1, RequestsFinite, FS_Subset
    <3>2. Cardinality(free \cup {n}) = Cardinality(free) + 1 /\ Cardinality(H \ {r}) = Cardinality(H) - 1
      BY <2>1, <2>3, <3>1, FS_RemoveElement, FS_AddElement
    <3>3. Cardinality(free) \in Nat /\ Cardinality(H) \in Nat
      BY <3>1, FS_CardinalityType
    <3>q. QED
      BY <1>1, <3>2, <3>3
  <2>8. \A s, t \in H \ {r} : h[s] = h[t] => s = t
    BY <1>1, <2>4
  <2>9. free \cup ({holds[r]} \ {None}) = free \cup {n} /\ free \cup {n} \subseteq 1..pool
    BY <1>1, <2>1, <2>3
  <2>10. Authorization!Leased(free \cup {n}, h, pool)
    BY <2>2, <2>5, <2>6, <2>7, <2>8, <2>9, AuthorizationCardinality DEF Authorization!Leased
  <2>q. QED
    BY <2>9, <2>10
<1>q. QED
  BY <1>3, <1>4

\* and the first one is free.
LEMMA LowestIsFree ==
    ASSUME NEW pool \in Nat, NEW free \in SUBSET (1..pool), free # {}
    PROVE  Authorization!Lowest(free) \in free
<1>1. \E n \in free : \A m \in free : n <= m
  BY Least
<1>q. QED
  BY <1>1 DEF Authorization!Lowest

\* What the requests hold of a pool when one of them changes.
LEMMA HoldsEdited ==
    ASSUME v4 = [s \in Requests |-> v4[s]], NEW r \in Requests, NEW q, v4' = [v4 EXCEPT ![r] = q],
           NEW f \in {"v4", "v6"}
    PROVE  Authorization!Holds(f)' = [Authorization!Holds(f) EXCEPT ![r] = q[f]]
BY DEF Authorization!Holds


\* What is known of a request's fields.
LEMMA SoundFields ==
    ASSUME NEW q, Authorization!Sound(q)
    PROVE  /\ q = [f \in Authorization!Fields |-> q[f]] /\ q.at \in Authorization!Stages
           /\ q.at # "idle" => q.ask \in Asks
           /\ q.at \in {"idle", "select", "sm"} => q.granted = None
           /\ q.at = "sm" => Authorization!Allows(q.sel, q.ask)
           /\ q.granted # None => Authorization!Fits(q)
           /\ q.at \notin {"lease6", "n4", "active"} => q.v4 = None
           /\ q.at \notin {"n4", "active"} => q.v6 = None
BY DEF Authorization!Sound

\* What fits depends on what was asked, read and granted alone.
LEMMA FitsFields ==
    ASSUME NEW q, NEW p, p.ask = q.ask, p.sel = q.sel, p.granted = q.granted, Authorization!Fits(q)
    PROVE  Authorization!Fits(p)
BY DEF Authorization!Fits

\* A document that changes leaves a request sound.
LEMMA Unsettled ==
    ASSUME NEW q, Authorization!Sound(q)
    PROVE  Authorization!Sound([q EXCEPT !.stable = FALSE])
<1> PICK p : p = [q EXCEPT !.stable = FALSE]
  OBVIOUS
<1>1. /\ p = [f \in Authorization!Fields |-> p[f]]
      /\ p.at = q.at /\ p.ask = q.ask /\ p.sel = q.sel /\ p.against = q.against
      /\ p.granted = q.granted /\ p.v4 = q.v4 /\ p.v6 = q.v6
  BY SoundFields DEF Authorization!Fields
<1>2. p.granted # None => Authorization!Fits(p)
  BY <1>1, SoundFields, FitsFields
<1>q. QED
  BY <1>1, <1>2 DEF Authorization!Sound

\* A request that goes on with the same grant stays sound, whatever addresses it has then.
GoneOn(q, x, m, n) == [q EXCEPT !.at = x, !.v4 = m, !.v6 = n]
LEMMA GoesOnWith ==
    ASSUME NEW q, Authorization!Sound(q), q.at \in {"lease4", "lease6", "n4", "active"},
           NEW x \in {"lease6", "n4", "active", "released", "failed"}, NEW m, NEW n,
           (m = q.v4 /\ x \in {"lease6", "n4", "active"}) \/ m = None \/ (q.at = "lease4" /\ x = "lease6"),
           n = None \/ x \in {"n4", "active"}
    PROVE  /\ Authorization!Sound(GoneOn(q, x, m, n))
           /\ GoneOn(q, x, m, n).v4 = m /\ GoneOn(q, x, m, n).v6 = n
<1> PICK p : p = GoneOn(q, x, m, n)
  OBVIOUS
<1>1. q = [f \in Authorization!Fields |-> q[f]] /\ q.ask \in Asks
  BY SoundFields
<1>2. /\ p = [f \in Authorization!Fields |-> p[f]] /\ p.at = x /\ p.ask = q.ask /\ p.sel = q.sel
      /\ p.granted = q.granted /\ p.v4 = m /\ p.v6 = n
  BY <1>1, SoundFields DEF Authorization!Fields, GoneOn
<1>3. p.granted # None => Authorization!Fits(p)
  BY <1>2, SoundFields, FitsFields
<1>4. (p.v4 = q.v4 /\ p.at \in {"lease6", "n4", "active"}) \/ p.v4 = None \/ (q.at = "lease4" /\ p.at = "lease6")
  BY <1>2
<1>5. p.v6 = None \/ p.at \in {"n4", "active"}
  BY <1>2
<1>6. Authorization!Sound(p)
  BY <1>2, <1>3, <1>4, <1>5, SoundFields DEF Authorization!Sound, Authorization!Stages
<1>q. QED
  BY <1>2, <1>6

\* The type negotiated uses families that are allowed, and the cause says what is missing.
LEMMA Negotiated ==
    ASSUME NEW conf, NEW wanted, NEW c,
           c = Authorization!negotiate_pdu_type(wanted, Authorization!parse_pdu_session_types(conf))
    PROVE  /\ \A f \in Authorization!Families(c.type) :
                f \in Authorization!Families(conf.default)
                \/ \E t \in conf.allowed : f \in Authorization!Families(t)
           /\ c.cause = (IF c.type = wanted THEN 0 ELSE IF c.type = "IPV4" THEN 50 ELSE 51)
<1> PICK allow : allow = Authorization!parse_pdu_session_types(conf)
  OBVIOUS
<1>1. \A f \in allow : f \in Authorization!Families(conf.default)
                       \/ \E t \in conf.allowed : f \in Authorization!Families(t)
  BY DEF Authorization!parse_pdu_session_types
<1>2. /\ \A t : Authorization!Families(t) \in {{4}, {6}, {4, 6}}
      /\ Authorization!Families("IPV4") = {4} /\ Authorization!Families("IPV6") = {6}
      /\ \A t : t \notin {"IPV4", "IPV6"} => Authorization!Families(t) = {4, 6}
  BY DEF Authorization!Families
<1>3. allow \in {{4}, {6}, {4, 6}}
  <2>1. Authorization!Families(conf.default) \subseteq allow
    BY DEF Authorization!parse_pdu_session_types
  <2>2. allow \subseteq {4, 6}
    BY <1>2 DEF Authorization!parse_pdu_session_types
  <2>q. QED
    BY <1>2, <2>1, <2>2
<1>4. /\ Authorization!Families(c.type) \subseteq allow
      /\ c.cause = (IF c.type = wanted THEN 0 ELSE IF c.type = "IPV4" THEN 50 ELSE 51)
  <2>1. CASE Authorization!Families(wanted) \subseteq allow
    <3>1. c.type = wanted /\ c.cause = 0
      BY <2>1 DEF Authorization!negotiate_pdu_type
    <3>q. QED
      BY <2>1, <3>1
  <2>2. CASE ~(Authorization!Families(wanted) \subseteq allow) /\ wanted = "IPV4"
    <3>1. c.type = "IPV6" /\ c.cause = 51
      BY <2>2 DEF Authorization!negotiate_pdu_type
    <3>2. allow = {6}
      BY <1>2, <1>3, <2>2
    <3>q. QED
      BY <1>2, <2>2, <3>1, <3>2
  <2>3. CASE ~(Authorization!Families(wanted) \subseteq allow) /\ wanted = "IPV6"
    <3>1. c.type = "IPV4" /\ c.cause = 50
      BY <2>3 DEF Authorization!negotiate_pdu_type
    <3>2. allow = {4}
      BY <1>2, <1>3, <2>3
    <3>q. QED
      BY <1>2, <2>3, <3>1, <3>2
  <2>4. CASE ~(Authorization!Families(wanted) \subseteq allow) /\ wanted \notin {"IPV4", "IPV6"}
    <3>1. allow \in {{4}, {6}}
      BY <1>2, <1>3, <2>4
    <3>2. CASE allow = {6}
      <4>1. c.type = "IPV6" /\ c.cause = 51
        BY <2>4, <3>2 DEF Authorization!negotiate_pdu_type
      <4>q. QED
        BY <1>2, <2>4, <3>2, <4>1
    <3>3. CASE allow = {4}
      <4>1. c.type = "IPV4" /\ c.cause = 50
        BY <2>4, <3>3 DEF Authorization!negotiate_pdu_type
      <4>q. QED
        BY <1>2, <2>4, <3>3, <4>1
    <3>q. QED
      BY <3>1, <3>2, <3>3
  <2>q. QED
    BY <2>1, <2>2, <2>3, <2>4
<1>q. QED
  BY <1>1, <1>4

\* The entry taken is one of the document's, of the slice asked for or with its DNN.
LEMMA EntryFound ==
    ASSUME Len(v2) \in Nat, NEW ask
    PROVE  LET Is(e) == IF ask.slice # None THEN Authorization!matches(e.snssai, ask.slice)
                        ELSE ask.dnn \in DOMAIN e.conf
           IN \/ \E i \in 1..Len(v2) : Is(v2[i]) /\ Authorization!Entry(ask) = v2[i]
              \/ Authorization!Entry(ask) = None /\ \A i \in 1..Len(v2) : ~Is(v2[i])
<1> DEFINE Is(e) == IF ask.slice # None THEN Authorization!matches(e.snssai, ask.slice)
                    ELSE ask.dnn \in DOMAIN e.conf
           is == {i \in 1..Len(v2) : Is(v2[i])}
<1>1. Authorization!Entry(ask) = IF is = {} THEN None ELSE v2[CHOOSE i \in is : \A j \in is : i <= j]
  BY DEF Authorization!Entry
<1>2. is \subseteq Nat /\ is \subseteq 1..Len(v2) /\ \A i \in is : Is(v2[i])
  OBVIOUS
<1>3. CASE is = {}
  BY <1>1, <1>3
<1>4. CASE is # {}
  <2> HIDE DEF is
  <2>1. \E i \in is : \A j \in is : i <= j
    BY <1>2, <1>4, Least
  <2>2. (CHOOSE i \in is : \A j \in is : i <= j) \in is
    BY <2>1
  <2>q. QED
    BY <1>1, <1>2, <1>4, <2>2
<1>q. QED
  BY <1>3, <1>4


\* A request that one of the two documents refuses.
LEMMA DenialIsSound ==
    ASSUME Authorization!AuthorizationInputs, NEW r \in Requests, Authorization!Sound(v4[r]),
           v4[r].at \in {"select", "sm"}, Authorization!ProfileInForce,
           v3 # None => v4[r].ask.dnn # v3.dnn
                        \/ (v4[r].ask.slice # None /\ ~Authorization!matches(v4[r].ask.slice, v3.snssai))
    PROVE  Authorization!Sound(Authorization!Denied(r))
<1> PICK q : q = v4[r]
  OBVIOUS
<1> PICK p : p = Authorization!Denied(r)
  OBVIOUS
<1> PICK d \in {v3, None} : d = IF q.stable THEN v3 ELSE None
  OBVIOUS
<1>0. p = [q EXCEPT !.at = "denied", !.against = d] /\ q = [f \in Authorization!Fields |-> q[f]]
  BY SoundFields DEF Authorization!Denied
<1>1. /\ p = [f \in Authorization!Fields |-> p[f]]
      /\ p.at = "denied" /\ p.against \in {v3, None} /\ p.ask = q.ask /\ p.granted = q.granted
      /\ p.v4 = q.v4 /\ p.v6 = q.v6
  BY <1>0 DEF Authorization!Fields
<1>2. p.granted = None /\ p.v4 = None /\ p.v6 = None /\ p.ask \in Asks
  BY <1>1, SoundFields
<1>3. p.against # None => p.ask.dnn # p.against.dnn
                          \/ (p.ask.slice # None /\ ~Authorization!matches(p.ask.slice, p.against.snssai))
  BY <1>1
<1>q. QED
  BY <1>1, <1>2, <1>3 DEF Authorization!Sound, Authorization!Stages

\* The first read: the selection data list the DNN, or the request is denied.
LEMMA SelectIsSound ==
    ASSUME Authorization!AuthorizationInputs, NEW r \in Requests, Authorization!Sound(v4[r]),
           Authorization!ProfileInForce, v4[r].at = "select"
    PROVE  Authorization!Sound(IF Authorization!Allows(v1, v4[r].ask)
                                 THEN [v4[r] EXCEPT !.at = "sm", !.sel = v1]
                                 ELSE Authorization!Denied(r))
<1> PICK q : q = v4[r]
  OBVIOUS
<1>q1. q.ask \in Asks /\ q.granted = None /\ q.v4 = None /\ q.v6 = None
  BY SoundFields
<1>1. CASE Authorization!Allows(v1, q.ask)
  <2> PICK p : p = [q EXCEPT !.at = "sm", !.sel = v1]
    OBVIOUS
  <2>0. q = [f \in Authorization!Fields |-> q[f]]
    BY SoundFields
  <2>1. /\ p = [f \in Authorization!Fields |-> p[f]]
        /\ p.at = "sm" /\ p.sel = v1 /\ p.ask = q.ask /\ p.granted = q.granted
        /\ p.v4 = q.v4 /\ p.v6 = q.v6
    BY <2>0 DEF Authorization!Fields
  <2>2. Authorization!Sound(p)
    BY <1>1, <1>q1, <2>1 DEF Authorization!Sound, Authorization!Stages
  <2>q. QED
    BY <1>1, <2>2
<1>2. CASE ~Authorization!Allows(v1, q.ask)
  <2> SUFFICES ASSUME v3 # None
               PROVE  q.ask.dnn # v3.dnn \/ (q.ask.slice # None /\ ~Authorization!matches(q.ask.slice, v3.snssai))
    BY <1>2, DenialIsSound
  <2>1. v3.snssai \in Typed /\ v1 # None
    BY DEF Authorization!ProfileInForce
  <2>2. PICK info : info = [key |-> v3.snssai, dnns |-> {v3.dnn}] /\ v1 = {info}
    BY DEF Authorization!ProfileInForce, Authorization!SelectionInfo
  <2>3. info.key = v3.snssai /\ info.dnns = {v3.dnn} /\ v1 = {info}
    BY <2>2
  <2>4. ~((q.ask.slice # None => info.key = Authorization!key(q.ask.slice)) /\ q.ask.dnn \in info.dnns)
    BY <1>2, <2>1, <2>3 DEF Authorization!Allows, Authorization!dnn_in_info
  <2>5. CASE q.ask.dnn \notin info.dnns
    BY <2>3, <2>5
  <2>6. CASE q.ask.slice # None /\ info.key # Authorization!key(q.ask.slice)
    <3>1. ~Authorization!matches(v3.snssai, q.ask.slice)
      BY <1>q1, <2>1, <2>3, <2>6 DEF Authorization!AuthorizationInputs
    <3>q. QED
      BY <2>6, <3>1 DEF Authorization!matches
  <2>q. QED
    BY <2>4, <2>5, <2>6
<1>q. QED
  BY <1>1, <1>2

\* The second read: the entry found has the DNN, or the request is denied.
LEMMA ConfigurationIsSound ==
    ASSUME Authorization!AuthorizationInputs, NEW r \in Requests, Authorization!Sound(v4[r]),
           Authorization!ProfileInForce, v2 = None \/ Len(v2) \in Nat, v4[r].at = "sm",
           Authorization!FetchSm(r)
    PROVE  \E q : /\ v4' = [v4 EXCEPT ![r] = q] /\ Authorization!Sound(q)
                  /\ q.v4 = v4[r].v4 /\ q.v6 = v4[r].v6
<1> PICK q : q = v4[r]
  OBVIOUS
<1>q1. /\ q.ask \in Asks /\ q.granted = None /\ q.v4 = None /\ q.v6 = None
       /\ Authorization!Allows(q.sel, q.ask) /\ q = [f \in Authorization!Fields |-> q[f]]
  BY SoundFields
<1> PICK ask : ask = q.ask
  OBVIOUS
<1> PICK entry : entry = IF v2 = None THEN None ELSE Authorization!Entry(ask)
  OBVIOUS
<1>1. CASE ~(entry # None /\ ask.dnn \in DOMAIN entry.conf)
  <2>1. v4' = [v4 EXCEPT ![r] = Authorization!Denied(r)]
    BY <1>1 DEF Authorization!FetchSm
  <2>2. ASSUME v3 # None
        PROVE  ask.dnn # v3.dnn \/ (ask.slice # None /\ ~Authorization!matches(ask.slice, v3.snssai))
    <3> SUFFICES ASSUME ask.dnn = v3.dnn, ask.slice = None \/ Authorization!matches(ask.slice, v3.snssai)
                 PROVE  FALSE
      OBVIOUS
    <3> PICK e : e = Authorization!SmEntry(v3.snssai, v3.dnn)
      OBVIOUS
    <3>1. v2 = <<e>> /\ v2 # None /\ v2[1] # None
      BY <2>2 DEF Authorization!ProfileInForce
    <3>2. Len(v2) = 1 /\ v2[1] = e /\ e.snssai = v3.snssai /\ DOMAIN e.conf = {v3.dnn}
      BY <3>1 DEF Authorization!SmEntry
    <3>3. IF ask.slice # None THEN Authorization!matches(e.snssai, ask.slice) ELSE ask.dnn \in DOMAIN e.conf
      BY <3>2 DEF Authorization!matches
    <3>4. Authorization!Entry(ask) = e
      <4>1. 1 \in 1..Len(v2) /\ \A i \in 1..Len(v2) : i = 1
        BY <3>2
      <4>q. QED
        BY <3>2, <3>3, <4>1, EntryFound
    <3>q. QED
      BY <1>1, <3>1, <3>2, <3>4
  <2>3. Authorization!Sound(Authorization!Denied(r))
    BY <2>2, DenialIsSound
  <2>4. Authorization!Denied(r).v4 = q.v4 /\ Authorization!Denied(r).v6 = q.v6
    BY <1>q1 DEF Authorization!Denied, Authorization!Fields
  <2>q. QED
    BY <2>1, <2>3, <2>4
<1>2. CASE entry # None /\ ask.dnn \in DOMAIN entry.conf
  <2> PICK conf : conf = entry.conf[ask.dnn]
    OBVIOUS
  <2> PICK wanted : wanted = IF ask.type = None THEN conf.default ELSE ask.type
    OBVIOUS
  <2>c. PICK c : c = Authorization!negotiate_pdu_type(wanted, Authorization!parse_pdu_session_types(conf))
    OBVIOUS
  <2> PICK g : g = [snssai |-> entry.snssai, conf |-> conf, wanted |-> wanted, type |-> c.type, cause |-> c.cause]
    OBVIOUS
  <2> PICK here : here = Authorization!Allows(v1, ask)
    OBVIOUS
  <2> PICK p : p = [q EXCEPT !.at = "lease4", !.current = here, !.granted = g]
    OBVIOUS
  <2>1. v4' = [v4 EXCEPT ![r] = p]
    BY <1>2, <2>c DEF Authorization!FetchSm
  <2>2. /\ p = [f \in Authorization!Fields |-> p[f]]
        /\ p.at = "lease4" /\ p.ask = ask /\ p.sel = q.sel /\ p.granted = g
        /\ p.v4 = None /\ p.v6 = None
    BY <1>q1 DEF Authorization!Fields
  <2>3. g.snssai = entry.snssai /\ g.conf = conf /\ g.wanted = wanted /\ g.type = c.type /\ g.cause = c.cause
    OBVIOUS
  <2>4. ask.slice # None => Authorization!matches(g.snssai, ask.slice)
    <3>1. Len(v2) \in Nat /\ entry = Authorization!Entry(ask)
      BY <1>2
    <3>q. QED
      BY <1>2, <2>3, <3>1, EntryFound
  <2>5. ask.slice # None =>
          \E info \in q.sel : Authorization!matches(info.key, g.snssai) /\ Authorization!dnn_in_info(info, ask.dnn)
    <3> SUFFICES ASSUME ask.slice # None
                 PROVE  \E info \in q.sel : Authorization!matches(info.key, g.snssai) /\ Authorization!dnn_in_info(info, ask.dnn)
      OBVIOUS
    <3>1. PICK info \in q.sel : info.key = Authorization!key(ask.slice) /\ Authorization!dnn_in_info(info, ask.dnn)
      BY <1>q1 DEF Authorization!Allows
    <3>2. info.key.sst = ask.slice.sst /\ info.key.sd = ask.slice.sd
      BY <1>q1, <3>1 DEF Authorization!key, Authorization!AuthorizationInputs
    <3>q. QED
      BY <2>4, <3>1, <3>2 DEF Authorization!matches
  <2>6. Authorization!Fits(p)
    <3>1. /\ \A f \in Authorization!Families(c.type) :
                f \in Authorization!Families(conf.default)
                \/ \E t \in conf.allowed : f \in Authorization!Families(t)
          /\ c.cause = (IF c.type = wanted THEN 0 ELSE IF c.type = "IPV4" THEN 50 ELSE 51)
      BY ONLY <2>c, Negotiated
    <3>2. p.ask = ask /\ p.sel = q.sel /\ p.granted = g
      BY <2>2
    <3>q. QED
      BY ONLY <2>3, <2>4, <2>5, <3>1, <3>2 DEF Authorization!Fits
  <2>7. Authorization!Sound(p)
    BY <1>q1, <2>2, <2>6 DEF Authorization!Sound, Authorization!Stages
  <2>8. p.v4 = v4[r].v4 /\ p.v6 = v4[r].v6
    BY <1>q1, <2>2
  <2>q. QED
    BY <2>1, <2>7, <2>8
<1>q. QED
  BY <1>1, <1>2

\* When one request changes and no document does,
LEMMA OneRequest ==
    ASSUME Authorization!AuthorizationIInv, NEW r \in Requests, NEW q, v4' = [v4 EXCEPT ![r] = q],
           Authorization!Sound(q), v1' = v1, v2' = v2, v3' = v3,
           Authorization!Leased(v5', [Authorization!Holds("v4") EXCEPT ![r] = q.v4], Pool4),
           Authorization!Leased(v6', [Authorization!Holds("v6") EXCEPT ![r] = q.v6], Pool6)
    PROVE  Authorization!AuthorizationIInv'
<1>1. v4 = [s \in Requests |-> v4[s]] /\ \A s \in Requests : Authorization!Sound(v4[s])
  BY DEF Authorization!AuthorizationIInv
<1>2. v4' = [s \in Requests |-> v4'[s]] /\ \A s \in Requests : v4'[s] = IF s = r THEN q ELSE v4[s]
  BY <1>1
<1>3. \A s \in Requests : Authorization!Sound(v4'[s])
  BY <1>1, <1>2
<1>4. /\ Authorization!Holds("v4")' = [Authorization!Holds("v4") EXCEPT ![r] = q.v4]
      /\ Authorization!Holds("v6")' = [Authorization!Holds("v6") EXCEPT ![r] = q.v6]
  BY <1>1, HoldsEdited
<1>5. Authorization!ProfileInForce'
  BY DEF Authorization!AuthorizationIInv, Authorization!ProfileInForce
<1>q. QED
  BY <1>2, <1>3, <1>4, <1>5 DEF Authorization!AuthorizationIInv

\* and its addresses stay what they are.
LEMMA SameHolds ==
    ASSUME v4 = [s \in Requests |-> v4[s]], NEW r \in Requests, NEW f \in {"v4", "v6"}
    PROVE  [Authorization!Holds(f) EXCEPT ![r] = v4[r][f]] = Authorization!Holds(f)
BY DEF Authorization!Holds

LEMMA AuthorizationInit ==
    ASSUME Authorization!AuthorizationAssumption, Authorization!Init
    PROVE  Authorization!AuthorizationIInv
<1>1. v4 = [s \in Requests |-> v4[s]] /\ \A s \in Requests : v4[s] = Authorization!NotAsked
  BY DEF Authorization!Init
<1>2. Authorization!Sound(Authorization!NotAsked)
  BY DEF Authorization!Sound, Authorization!NotAsked, Authorization!Fields, Authorization!Stages
<1>3. ASSUME NEW f \in {"v4", "v6"}, NEW pool \in Nat
      PROVE  Authorization!Leased(1..pool, Authorization!Holds(f), pool)
  <2>1. Authorization!Holds(f) = [s \in Requests |-> None]
    BY <1>1 DEF Authorization!Holds, Authorization!NotAsked
  <2>2. {s \in Requests : Authorization!Holds(f)[s] # None} = {}
    BY <2>1
  <2>3. Cardinality(1..pool) = pool /\ Cardinality({}) = 0
    BY FS_Interval, FS_EmptySet
  <2>4. Cardinality(1..pool) + Cardinality({}) = pool
    BY <2>3
  <2>q. QED
    BY <2>1, <2>2, <2>4, AuthorizationCardinality DEF Authorization!Leased
<1>4. v2 = None /\ v3 = None /\ v5 = 1..Pool4 /\ v6 = 1..Pool6 /\ Pool4 \in Nat /\ Pool6 \in Nat
  BY DEF Authorization!Init, Authorization!AuthorizationAssumption
<1>q. QED
  BY <1>1, <1>2, <1>3, <1>4 DEF Authorization!AuthorizationIInv, Authorization!ProfileInForce

\* Documents, the SMF's answers and its leases keep it.
LEMMA AuthorizationStep ==
    ASSUME Authorization!AuthorizationAssumption, Authorization!AuthorizationNone, Authorization!AuthorizationInputs,
           Authorization!AuthorizationIInv, [Authorization!Next]_(Authorization!vars)
    PROVE  Authorization!AuthorizationIInv'
<1>i. /\ v4 = [s \in Requests |-> v4[s]] /\ \A s \in Requests : Authorization!Sound(v4[s])
      /\ v2 = None \/ Len(v2) \in Nat
      /\ Authorization!ProfileInForce
      /\ Authorization!Leased(v5, Authorization!Holds("v4"), Pool4)
      /\ Authorization!Leased(v6, Authorization!Holds("v6"), Pool6)
  BY DEF Authorization!AuthorizationIInv
<1>n. /\ Pool4 \in Nat /\ Pool6 \in Nat
      /\ \A n \in 1..Pool4 : n # None
      /\ \A n \in 1..Pool6 : n # None
  BY DEF Authorization!AuthorizationAssumption, Authorization!AuthorizationNone
<1>1. ASSUME Authorization!Changed, v2' = None \/ Len(v2') \in Nat, Authorization!ProfileInForce'
      PROVE  Authorization!AuthorizationIInv'
  <2>1. /\ v4' = [s \in Requests |-> IF Authorization!Pending(s) THEN [v4[s] EXCEPT !.stable = FALSE] ELSE v4[s]]
        /\ v5' = v5 /\ v6' = v6
    BY <1>1 DEF Authorization!Changed
  <2>2. \A s \in Requests : Authorization!Sound(v4'[s])
    BY <1>i, <2>1, Unsettled
  <2>3. \A s \in Requests : v4'[s].v4 = v4[s].v4 /\ v4'[s].v6 = v4[s].v6
    <3> TAKE s \in Requests
    <3>1. v4[s] = [f \in Authorization!Fields |-> v4[s][f]] /\ v4'[s] \in {v4[s], [v4[s] EXCEPT !.stable = FALSE]}
      BY <1>i, <2>1, SoundFields
    <3>q. QED
      BY <3>1 DEF Authorization!Fields
  <2>4. Authorization!Holds("v4")' = Authorization!Holds("v4") /\ Authorization!Holds("v6")' = Authorization!Holds("v6")
    BY <2>3 DEF Authorization!Holds
  <2>q. QED
    BY <1>i, <1>1, <2>1, <2>2, <2>4 DEF Authorization!AuthorizationIInv
<1>2. ASSUME NEW slice \in Typed, NEW ask \in Asks, Authorization!dbctl_add(slice, ask.dnn)
      PROVE  Authorization!AuthorizationIInv'
  <2>1. /\ v1' = Authorization!SelectionInfo(slice, ask.dnn) /\ v2' = <<Authorization!SmEntry(slice, ask.dnn)>>
        /\ v3' = [snssai |-> slice, dnn |-> ask.dnn] /\ Authorization!Changed
    BY <1>2 DEF Authorization!dbctl_add
  <2>2. v3'.snssai = slice /\ v3'.dnn = ask.dnn
    BY <2>1
  <2>3. v1' # None /\ v2' # None /\ v2'[1] # None /\ Len(v2') = 1
    BY <2>1 DEF Authorization!AuthorizationNone
  <2>4. Authorization!ProfileInForce'
    BY <2>1, <2>2, <2>3 DEF Authorization!ProfileInForce, Authorization!SelectionInfo, Authorization!SmEntry
  <2>q. QED
    BY <1>1, <2>1, <2>3, <2>4
<1>3. CASE Authorization!put_smf_sel \/ Authorization!put_sm_data \/ Authorization!Withdraw
  <2>1. v3' = None /\ Authorization!Changed /\ v2' \in {v2, None} \cup SmDocs
    BY <1>3 DEF Authorization!put_smf_sel, Authorization!put_sm_data, Authorization!Withdraw
  <2>2. v2' = None \/ Len(v2') \in Nat
    BY <1>i, <2>1 DEF Authorization!AuthorizationInputs
  <2>q. QED
    BY <1>1, <2>1, <2>2 DEF Authorization!ProfileInForce
<1> DEFINE Same4(r) == [Authorization!Holds("v4") EXCEPT ![r] = v4[r].v4] = Authorization!Holds("v4")
           Same6(r) == [Authorization!Holds("v6") EXCEPT ![r] = v4[r].v6] = Authorization!Holds("v6")
<1>s. \A r \in Requests : Same4(r) /\ Same6(r)
  BY <1>i, SameHolds
<1> HIDE DEF Same4, Same6
<1>4. ASSUME NEW r \in Requests, NEW q, v4' = [v4 EXCEPT ![r] = q], Authorization!Sound(q),
             UNCHANGED Authorization!docs, v5' = v5, v6' = v6, q.v4 = v4[r].v4, q.v6 = v4[r].v6
      PROVE  Authorization!AuthorizationIInv'
  <2>1. /\ Authorization!Leased(v5', [Authorization!Holds("v4") EXCEPT ![r] = q.v4], Pool4)
        /\ Authorization!Leased(v6', [Authorization!Holds("v6") EXCEPT ![r] = q.v6], Pool6)
    BY <1>i, <1>4, <1>s DEF Same4, Same6
  <2>q. QED
    BY <1>4, <2>1, OneRequest DEF Authorization!docs
<1>5. ASSUME NEW r \in Requests, NEW ask \in Asks, Authorization!Create(r, ask)
      PROVE  Authorization!AuthorizationIInv'
  <2> PICK q : q = [v4[r] EXCEPT !.at = "select", !.ask = ask]
    OBVIOUS
  <2>1. v4' = [v4 EXCEPT ![r] = q] /\ UNCHANGED Authorization!docs /\ v5' = v5 /\ v6' = v6 /\ v4[r].at = "idle"
    BY <1>i, <1>5 DEF Authorization!Create, Authorization!pools
  <2>2. v4[r] = [f \in Authorization!Fields |-> v4[r][f]]
    BY <1>i, SoundFields
  <2>3. /\ q = [f \in Authorization!Fields |-> q[f]] /\ q.at = "select" /\ q.ask = ask
        /\ q.granted = v4[r].granted /\ q.v4 = v4[r].v4 /\ q.v6 = v4[r].v6
    BY <2>2 DEF Authorization!Fields
  <2>4. q.granted = None /\ q.v4 = None /\ q.v6 = None
    BY <1>i, <2>1, <2>3, SoundFields
  <2>5. Authorization!Sound(q)
    BY <2>3, <2>4 DEF Authorization!Sound, Authorization!Stages
  <2>q. QED
    BY <1>4, <2>1, <2>3, <2>5
<1>6. ASSUME NEW r \in Requests, Authorization!FetchSelect(r) PROVE Authorization!AuthorizationIInv'
  <2> PICK q : q = IF Authorization!Allows(v1, v4[r].ask) THEN [v4[r] EXCEPT !.at = "sm", !.sel = v1]
                   ELSE Authorization!Denied(r)
    OBVIOUS
  <2>1. v4' = [v4 EXCEPT ![r] = q] /\ UNCHANGED Authorization!docs /\ v5' = v5 /\ v6' = v6 /\ v4[r].at = "select"
    BY <1>6 DEF Authorization!FetchSelect, Authorization!pools
  <2>2. Authorization!Sound(q)
    BY <1>i, <2>1, SelectIsSound
  <2>3. v4[r] = [f \in Authorization!Fields |-> v4[r][f]]
    BY <1>i, SoundFields
  <2>4. q.v4 = v4[r].v4 /\ q.v6 = v4[r].v6
    BY <2>3 DEF Authorization!Fields, Authorization!Denied
  <2>q. QED
    BY <1>4, <2>1, <2>2, <2>4
<1>7. ASSUME NEW r \in Requests, Authorization!FetchSm(r) PROVE Authorization!AuthorizationIInv'
  <2>1. UNCHANGED Authorization!docs /\ v5' = v5 /\ v6' = v6 /\ v4[r].at = "sm"
    BY <1>7 DEF Authorization!FetchSm, Authorization!pools
  <2>2. PICK q : /\ v4' = [v4 EXCEPT ![r] = q] /\ Authorization!Sound(q)
                 /\ q.v4 = v4[r].v4 /\ q.v6 = v4[r].v6
    BY <1>i, <1>7, <2>1, ConfigurationIsSound
  <2>q. QED
    BY <1>4, <2>1, <2>2
<1>8. ASSUME NEW r \in Requests, Authorization!Unreachable(r) PROVE Authorization!AuthorizationIInv'
  <2> PICK q : q = [v4[r] EXCEPT !.at = "failed"]
    OBVIOUS
  <2>1. v4' = [v4 EXCEPT ![r] = q] /\ UNCHANGED Authorization!docs /\ v5' = v5 /\ v6' = v6 /\ v4[r].at \in {"select", "sm"}
    BY <1>i, <1>8 DEF Authorization!Unreachable, Authorization!Pending, Authorization!pools
  <2>2. v4[r] = [f \in Authorization!Fields |-> v4[r][f]] /\ v4[r].v4 = None /\ v4[r].v6 = None /\ v4[r].granted = None
    BY <1>i, <2>1, SoundFields
  <2>3. /\ q = [f \in Authorization!Fields |-> q[f]] /\ q.at = "failed" /\ q.ask = v4[r].ask
        /\ q.granted = v4[r].granted /\ q.v4 = v4[r].v4 /\ q.v6 = v4[r].v6
    BY <2>2 DEF Authorization!Fields
  <2>4. v4[r].ask \in Asks
    BY <1>i, <2>1, SoundFields
  <2>5. Authorization!Sound(q)
    BY <2>2, <2>3, <2>4 DEF Authorization!Sound, Authorization!Stages
  <2>q. QED
    BY <1>4, <2>1, <2>3, <2>5
<1>10. ASSUME NEW r \in Requests, NEW x \in {"released", "failed"}, v4[r].at \in {"lease6", "n4", "active"},
              Authorization!Returns(r, x), UNCHANGED Authorization!docs
       PROVE  Authorization!AuthorizationIInv'
  <2> PICK q : q = GoneOn(v4[r], x, None, None)
    OBVIOUS
  <2>1. /\ v4' = [v4 EXCEPT ![r] = q]
        /\ v5' = v5 \cup ({v4[r].v4} \ {None}) /\ v6' = v6 \cup ({v4[r].v6} \ {None})
    BY <1>i, <1>10 DEF Authorization!Returns, GoneOn
  <2>2. Authorization!Sound(q) /\ q.v4 = None /\ q.v6 = None
    BY <1>i, <1>10, GoesOnWith
  <2>3. Authorization!Holds("v4")[r] = v4[r].v4 /\ Authorization!Holds("v6")[r] = v4[r].v6
    BY DEF Authorization!Holds
  <2>4. Authorization!Leased(v5', [Authorization!Holds("v4") EXCEPT ![r] = q.v4], Pool4)
    BY <1>i, <1>n, <2>1, <2>2, <2>3, LeaseReturned
  <2>5. Authorization!Leased(v6', [Authorization!Holds("v6") EXCEPT ![r] = q.v6], Pool6)
    BY <1>i, <1>n, <2>1, <2>2, <2>3, LeaseReturned
  <2>q. QED
    BY <1>10, <2>1, <2>2, <2>4, <2>5, OneRequest DEF Authorization!docs
\* A step that leases nothing.
<1>11. ASSUME NEW r \in Requests, NEW x \in {"lease6", "n4", "active", "failed"}, v4[r].at \in {"lease4", "lease6", "n4"},
              v4' = [v4 EXCEPT ![r].at = x], v4[r].v4 = None \/ x # "failed", v4[r].v6 = None \/ x \in {"n4", "active"},
              v5' = v5, v6' = v6, UNCHANGED Authorization!docs
       PROVE  Authorization!AuthorizationIInv'
  <2> PICK q : q = GoneOn(v4[r], x, v4[r].v4, v4[r].v6)
    OBVIOUS
  <2>1. v4[r] = [f \in Authorization!Fields |-> v4[r][f]]
    BY <1>i, SoundFields
  <2>2. q = [v4[r] EXCEPT !.at = x]
    BY <2>1 DEF Authorization!Fields, GoneOn
  <2>3. v4' = [v4 EXCEPT ![r] = q]
    BY <1>i, <1>11, <2>2
  <2>4. Authorization!Sound(q) /\ q.v4 = v4[r].v4 /\ q.v6 = v4[r].v6
    <3>1. v4[r].at \in {"lease4", "lease6", "n4", "active"} /\ x \in {"lease6", "n4", "active", "released", "failed"}
      BY <1>11
    <3>2. (v4[r].v4 = v4[r].v4 /\ x \in {"lease6", "n4", "active"}) \/ v4[r].v4 = None
      BY <1>11
    <3>q. QED
      BY <1>i, <1>11, <3>1, <3>2, GoesOnWith
  <2>q. QED
    BY <1>4, <1>11, <2>3, <2>4
<1>12. ASSUME NEW r \in Requests, Authorization!alloc_ue_ip(r) PROVE Authorization!AuthorizationIInv'
  <2>1. v4[r].at = "lease4" /\ UNCHANGED Authorization!docs /\ v6' = v6
    BY <1>12 DEF Authorization!alloc_ue_ip
  <2>2. v4[r].v4 = None /\ v4[r].v6 = None
    BY <1>i, <2>1, SoundFields
  <2>3. CASE ~Authorization!Wants(r, 4)
    <3>1. v4' = [v4 EXCEPT ![r].at = "lease6"] /\ v5' = v5
      BY <1>12, <2>3 DEF Authorization!alloc_ue_ip
    <3>q. QED
      BY <1>11, <2>1, <2>2, <3>1
  <2>4. CASE Authorization!Wants(r, 4) /\ v5 = {}
    <3>1. v4' = [v4 EXCEPT ![r].at = "failed"] /\ v5' = v5
      BY <1>12, <2>4 DEF Authorization!alloc_ue_ip
    <3>q. QED
      BY <1>11, <2>1, <2>2, <3>1
  <2>5. CASE Authorization!Wants(r, 4) /\ v5 # {}
    <3> PICK n : n = Authorization!Lowest(v5)
      OBVIOUS
    <3>1. v4' = [v4 EXCEPT ![r].at = "lease6", ![r].v4 = n] /\ v5' = v5 \ {n}
      BY <1>12, <2>5 DEF Authorization!alloc_ue_ip
    <3>2. n \in v5
      BY <1>i, <1>n, <2>5, LowestIsFree DEF Authorization!Leased
    <3> PICK q : q = GoneOn(v4[r], "lease6", n, None)
      OBVIOUS
    <3>3. v4[r] = [f \in Authorization!Fields |-> v4[r][f]]
      BY <1>i, SoundFields
    <3>4. q = [v4[r] EXCEPT !.at = "lease6", !.v4 = n]
      BY <2>2, <3>3 DEF Authorization!Fields, GoneOn
    <3>5. v4' = [v4 EXCEPT ![r] = q]
      BY <1>i, <3>1, <3>4
    <3>6. Authorization!Sound(q) /\ q.v4 = n /\ q.v6 = None
      BY <1>i, <2>1, GoesOnWith
    <3>7. Authorization!Holds("v4")[r] = None
      BY <2>2 DEF Authorization!Holds
    <3>8. Authorization!Leased(v5', [Authorization!Holds("v4") EXCEPT ![r] = q.v4], Pool4)
      BY <1>i, <1>n, <3>1, <3>2, <3>6, <3>7, LeaseTaken
    <3>9. Authorization!Leased(v6', [Authorization!Holds("v6") EXCEPT ![r] = q.v6], Pool6)
      BY <1>i, <1>s, <2>1, <2>2, <3>6 DEF Same6
    <3>q. QED
      BY <2>1, <3>5, <3>6, <3>8, <3>9, OneRequest DEF Authorization!docs
  <2>q. QED
    BY <2>3, <2>4, <2>5
<1>13. ASSUME NEW r \in Requests, Authorization!alloc_ue_ipv6(r) PROVE Authorization!AuthorizationIInv'
  <2>1. v4[r].at = "lease6" /\ UNCHANGED Authorization!docs
    BY <1>13 DEF Authorization!alloc_ue_ipv6
  <2>2. v4[r].v6 = None
    BY <1>i, <2>1, SoundFields
  <2>3. CASE Authorization!Wants(r, 6) /\ v6 = {}
    <3>1. Authorization!Returns(r, "failed")
      BY <1>13, <2>3 DEF Authorization!alloc_ue_ipv6
    <3>q. QED
      BY <1>10, <2>1, <3>1
  <2>4. CASE ~Authorization!Wants(r, 6)
    <3>1. v4' = [v4 EXCEPT ![r].at = "n4"] /\ v5' = v5 /\ v6' = v6
      BY <1>13, <2>4 DEF Authorization!alloc_ue_ipv6, Authorization!pools
    <3>q. QED
      BY <1>11, <2>1, <3>1
  <2>5. CASE Authorization!Wants(r, 6) /\ v6 # {}
    <3> PICK n : n = Authorization!Lowest(v6)
      OBVIOUS
    <3>1. v4' = [v4 EXCEPT ![r].at = "n4", ![r].v6 = n] /\ v6' = v6 \ {n} /\ v5' = v5
      BY <1>13, <2>5 DEF Authorization!alloc_ue_ipv6
    <3>2. n \in v6
      BY <1>i, <1>n, <2>5, LowestIsFree DEF Authorization!Leased
    <3> PICK m : m = v4[r].v4
      OBVIOUS
    <3> PICK q : q = GoneOn(v4[r], "n4", m, n)
      OBVIOUS
    <3>3. v4[r] = [f \in Authorization!Fields |-> v4[r][f]]
      BY <1>i, SoundFields
    <3>4. q = [v4[r] EXCEPT !.at = "n4", !.v6 = n]
      BY <3>3 DEF Authorization!Fields, GoneOn
    <3>5. v4' = [v4 EXCEPT ![r] = q]
      BY <1>i, <3>1, <3>4
    <3>6. Authorization!Sound(q) /\ q.v4 = m /\ q.v6 = n
      BY <1>i, <2>1, GoesOnWith
    <3>7. Authorization!Holds("v6")[r] = None
      BY <2>2 DEF Authorization!Holds
    <3>8. Authorization!Leased(v6', [Authorization!Holds("v6") EXCEPT ![r] = q.v6], Pool6)
      BY <1>i, <1>n, <3>1, <3>2, <3>6, <3>7, LeaseTaken
    <3>9. Authorization!Leased(v5', [Authorization!Holds("v4") EXCEPT ![r] = q.v4], Pool4)
      BY <1>i, <1>s, <3>1, <3>6 DEF Same4
    <3>q. QED
      BY <2>1, <3>5, <3>6, <3>8, <3>9, OneRequest DEF Authorization!docs
  <2>q. QED
    BY <2>3, <2>4, <2>5
<1>14. ASSUME NEW r \in Requests, Authorization!Established(r) \/ Authorization!Release(r)
       PROVE  Authorization!AuthorizationIInv'
  <2>1. CASE v4[r].at = "n4" /\ v4' = [v4 EXCEPT ![r].at = "active"] /\ UNCHANGED Authorization!pools /\ UNCHANGED Authorization!docs
    BY <1>11, <2>1 DEF Authorization!pools
  <2>2. CASE /\ v4[r].at \in {"n4", "active"} /\ UNCHANGED Authorization!docs
             /\ \E x \in {"released", "failed"} : Authorization!Returns(r, x)
    BY <1>10, <2>2
  <2>q. QED
    BY <1>14, <2>1, <2>2 DEF Authorization!Established, Authorization!Release
<1>15. CASE UNCHANGED Authorization!vars
  <2>1. Authorization!Holds("v4")' = Authorization!Holds("v4") /\ Authorization!Holds("v6")' = Authorization!Holds("v6")
    BY <1>15 DEF Authorization!vars, Authorization!Holds
  <2>q. QED
    BY <1>i, <1>15, <2>1 DEF Authorization!vars, Authorization!AuthorizationIInv, Authorization!ProfileInForce
<1>q. QED
  BY <1>2, <1>3, <1>5, <1>6, <1>7, <1>8, <1>12, <1>13, <1>14, <1>15 DEF Authorization!Next, Authorization!Done

\* What it says of the requests.
LEMMA AuthorizationHolds ==
    ASSUME Authorization!AuthorizationIInv
    PROVE  /\ Authorization!AskedPairIsAuthorized /\ Authorization!TypeIsAllowed
           /\ Authorization!LeasesAccounted /\ Authorization!ProvisionedIsServed
<1>1. \A r \in Requests : Authorization!Sound(v4[r])
  BY DEF Authorization!AuthorizationIInv
<1>2. \A r \in Requests : v4[r].granted # None => Authorization!Fits(v4[r])
  BY <1>1, SoundFields
<1>3. Authorization!AskedPairIsAuthorized /\ Authorization!TypeIsAllowed
  BY <1>2 DEF Authorization!AskedPairIsAuthorized, Authorization!TypeIsAllowed, Authorization!Granted, Authorization!Listed, Authorization!Fits
<1>4. Authorization!ProvisionedIsServed
  BY <1>1 DEF Authorization!ProvisionedIsServed, Authorization!Sound
<1>5. ASSUME NEW f \in {"v4", "v6"}, NEW free, NEW pool, Authorization!Leased(free, Authorization!Holds(f), pool)
      PROVE  LET Held == {r \in Requests : v4[r][f] # None}
             IN free \cup {v4[r][f] : r \in Held} = 1..pool
                /\ Authorization!Cardinality(free) + Authorization!Cardinality(Held) = pool
  <2> PICK h : h = Authorization!Holds(f)
    OBVIOUS
  <2>1. \A r \in Requests : h[r] = v4[r][f]
    BY DEF Authorization!Holds
  <2> PICK H : H = {r \in Requests : h[r] # None}
    OBVIOUS
  <2>2. free \cup {h[r] : r \in H} = 1..pool /\ Authorization!Cardinality(free) + Authorization!Cardinality(H) = pool
    BY <1>5 DEF Authorization!Leased
  <2>3. H = {r \in Requests : v4[r][f] # None} /\ {h[r] : r \in H} = {v4[r][f] : r \in H}
    BY <2>1
  <2>q. QED
    BY <2>2, <2>3
<1>6. Authorization!LeasesAccounted
  BY <1>5 DEF Authorization!AuthorizationIInv, Authorization!LeasesAccounted
<1>q. QED
  BY <1>3, <1>4, <1>6

-----------------------------------------------------------------------------
(* Bound and Refreshed: v1 is pcf, v2 policy, v3 upf, v4 upf_ambr, v6 missed *)

LEMMA BoundCardinality == \A S : Bound!Cardinality(S) = Cardinality(S) /\ (Bound!IsFiniteSet(S) <=> IsFiniteSet(S))
  BY DEF Bound!Cardinality, Cardinality, Bound!IsFiniteSet, IsFiniteSet

\* Every order of the rules has a place for each of them.
LEMMA OrdersPlaceEveryRule ==
    ASSUME Bound!BindingAssumption, NEW o \in Bound!Orders, NEW r \in RuleIds
    PROVE  Bound!Pos(o, r) \in Int
<1> PICK n : n = Cardinality(RuleIds)
  OBVIOUS
<1>1. IsFiniteSet(RuleIds)
  BY BoundCardinality DEF Bound!BindingAssumption
<1>2. n \in Nat
  BY <1>1, FS_CardinalityType
<1>3. o \in [1..n -> RuleIds] /\ \A i, j \in 1..n : o[i] = o[j] => i = j
  BY BoundCardinality DEF Bound!Orders
<1>4. o \in Injection(1..n, RuleIds)
  BY <1>3 DEF Injection, IsInjective
<1>5. Cardinality(1..n) = n
  BY <1>2, FS_Interval
<1>6. o \in Surjection(1..n, RuleIds)
  BY <1>1, <1>4, <1>5, FS_Injection
<1>7. \E i \in 1..n : o[i] = r
  BY <1>6 DEF Surjection
<1>8. DOMAIN o = 1..n
  BY <1>3
<1>q. QED
  BY <1>7, <1>8 DEF Bound!Pos

\* The representative of a QoS decision whose rules have precedences of their own is one rule,
\* whichever order the map yields.
LEMMA OneRepresentative ==
    ASSUME Bound!BindingAssumption, NEW d, NEW q,
           DOMAIN d.rules \subseteq RuleIds, \A r \in DOMAIN d.rules : d.rules[r].precedence \in Nat,
           \A r, s \in Bound!Bound(d, q) : d.rules[r].precedence = d.rules[s].precedence => r = s,
           Bound!Bound(d, q) # {}
    PROVE  \E r \in Bound!Bound(d, q) : \A o \in Bound!Orders : Bound!Representative(d, q, o) = r
<1> PICK B : B = Bound!Bound(d, q)
  OBVIOUS
<1> PICK P : P = {d.rules[r].precedence : r \in B}
  OBVIOUS
<1>1. B \subseteq RuleIds /\ B # {} /\ \A r \in B : d.rules[r].precedence \in Nat
  BY DEF Bound!Bound
<1>2. PICK r \in B : \A s \in B : d.rules[r].precedence <= d.rules[s].precedence
  <2>1. P \in SUBSET Nat /\ P # {}
    BY <1>1
  <2>2. PICK n \in P : \A m \in P : n <= m
    BY <2>1, Least
  <2>3. PICK r \in B : d.rules[r].precedence = n
    BY <2>2
  <2>q. QED
    BY <2>2, <2>3
<1> SUFFICES ASSUME NEW o \in Bound!Orders PROVE Bound!Representative(d, q, o) = r
  OBVIOUS
<1>3. Bound!Pos(o, r) \in Int
  BY <1>1, OrdersPlaceEveryRule
<1>4. \A s \in B : \/ d.rules[r].precedence < d.rules[s].precedence
                   \/ d.rules[r].precedence = d.rules[s].precedence /\ Bound!Pos(o, r) <= Bound!Pos(o, s)
  <2> SUFFICES ASSUME NEW s \in B, ~(d.rules[r].precedence < d.rules[s].precedence)
               PROVE  d.rules[r].precedence = d.rules[s].precedence /\ Bound!Pos(o, r) <= Bound!Pos(o, s)
    OBVIOUS
  <2>1. d.rules[r].precedence = d.rules[s].precedence
    BY <1>1, <1>2
  <2>2. r = s
    BY <2>1
  <2>q. QED
    BY <1>3, <2>1, <2>2
<1> PICK x : x = Bound!Representative(d, q, o)
  OBVIOUS
<1>5. x \in B /\ \A s \in B : \/ d.rules[x].precedence < d.rules[s].precedence
                              \/ d.rules[x].precedence = d.rules[s].precedence /\ Bound!Pos(o, x) <= Bound!Pos(o, s)
  BY <1>4 DEF Bound!Representative
<1>6. d.rules[x].precedence = d.rules[r].precedence
  BY <1>1, <1>2, <1>5
<1>q. QED
  BY <1>5, <1>6

LEMMA SameFlows ==
    ASSUME Bound!BindingAssumption, NEW d,
           DOMAIN d.rules \subseteq RuleIds, \A r \in DOMAIN d.rules : d.rules[r].precedence \in Nat,
           Bound!WellFormed(d), NEW o \in Bound!Orders, NEW p \in Bound!Orders
    PROVE  Bound!qos_flows(d, o) = Bound!qos_flows(d, p)
<1>1. \A q \in DOMAIN d.qos : Bound!Bound(d, q) # {} => Bound!Representative(d, q, o) = Bound!Representative(d, q, p)
  BY OneRepresentative DEF Bound!WellFormed
<1>q. QED
  BY <1>1 DEF Bound!qos_flows

\* A flow is the QoS decision its QFI names.
LEMMA FlowOfQfi ==
    ASSUME NEW d, NEW o, Bound!WellFormed(d),
           NEW f \in Bound!qos_flows(d, o), NEW g \in Bound!qos_flows(d, o), f.qfi = g.qfi
    PROVE  f = g
<1>1. PICK q \in DOMAIN d.qos : LET r == d.rules[Bound!Representative(d, q, o)] IN
        f = [qfi |-> d.qos[q].qfi, gbr |-> d.qos[q].gbr, filter |-> r.flow_info,
             ref_chg_data |-> r.ref_chg_data, gate |-> r.flow_status]
  BY DEF Bound!qos_flows
<1>2. PICK p \in DOMAIN d.qos : LET r == d.rules[Bound!Representative(d, p, o)] IN
        g = [qfi |-> d.qos[p].qfi, gbr |-> d.qos[p].gbr, filter |-> r.flow_info,
             ref_chg_data |-> r.ref_chg_data, gate |-> r.flow_status]
  BY DEF Bound!qos_flows
<1>3. f.qfi = d.qos[q].qfi /\ g.qfi = d.qos[p].qfi
  BY <1>1, <1>2
<1>4. p = q
  BY <1>3 DEF Bound!WellFormed
<1>q. QED
  BY <1>1, <1>2, <1>4

LEMMA FlowFields ==
    ASSUME NEW d, NEW o, NEW f \in Bound!qos_flows(d, o)
    PROVE  f = [qfi |-> f.qfi, gbr |-> f.gbr, filter |-> f.filter, ref_chg_data |-> f.ref_chg_data, gate |-> f.gate]
<1>1. PICK q \in DOMAIN d.qos : LET r == d.rules[Bound!Representative(d, q, o)] IN
        f = [qfi |-> d.qos[q].qfi, gbr |-> d.qos[q].gbr, filter |-> r.flow_info,
             ref_chg_data |-> r.ref_chg_data, gate |-> r.flow_status]
  BY DEF Bound!qos_flows
<1>q. QED
  BY <1>1

LEMMA BindingHolds ==
    ASSUME Bound!BindingAssumption, Bound!BindingData, v2 \in MadeDecisions
    PROVE  Bound!BindingIsStable /\ Bound!FlowsRoundTrip
<1>d. /\ DOMAIN v2.rules \subseteq RuleIds /\ IsFiniteSet(DOMAIN v2.qos)
      /\ \A r \in DOMAIN v2.rules : v2.rules[r].precedence \in Nat
  BY BoundCardinality DEF Bound!BindingData
<1> SUFFICES ASSUME Bound!WellFormed(v2), NEW o \in Bound!Orders, NEW p \in Bound!Orders
             PROVE  /\ Bound!qos_flows(v2, o) = Bound!qos_flows(v2, p)
                    /\ Cardinality(Bound!Qfis(Bound!qos_flows(v2, o))) = Cardinality(Bound!qos_flows(v2, o))
                    /\ Bound!Qfis(Bound!qos_flows(v2, o)) \subseteq RuleIds =>
                         Bound!qos_flows(Bound!set_flows(Bound!qos_flows(v2, o)), p) = Bound!qos_flows(v2, o)
  BY BoundCardinality DEF Bound!BindingIsStable, Bound!FlowsRoundTrip
<1>1. Bound!qos_flows(v2, o) = Bound!qos_flows(v2, p)
  BY <1>d, SameFlows
<1> PICK fs : fs = Bound!qos_flows(v2, o)
  OBVIOUS
<1> PICK Q : Q = {f.qfi : f \in fs}
  OBVIOUS
<1>u. \A f, g \in fs : f.qfi = g.qfi => f = g
  BY FlowOfQfi
<1>f. \A f \in fs : f = [qfi |-> f.qfi, gbr |-> f.gbr, filter |-> f.filter, ref_chg_data |-> f.ref_chg_data, gate |-> f.gate]
  BY FlowFields
<1>2. Cardinality(Q) = Cardinality(fs)
  <2> PICK D : D = {q \in DOMAIN v2.qos : Bound!Bound(v2, q) # {}}
    OBVIOUS
  <2>1. IsFiniteSet(D)
    BY <1>d, FS_Subset
  <2> PICK m : m = [q \in D |-> LET r == v2.rules[Bound!Representative(v2, q, o)] IN
                     [qfi |-> v2.qos[q].qfi, gbr |-> v2.qos[q].gbr, filter |-> r.flow_info,
                      ref_chg_data |-> r.ref_chg_data, gate |-> r.flow_status]]
    OBVIOUS
  <2>2. fs = {m[q] : q \in D}
    BY DEF Bound!qos_flows
  <2>3. m \in Surjection(D, fs)
    BY <2>2 DEF Surjection
  <2>4. IsFiniteSet(fs)
    BY <2>1, <2>3, FS_Surjection
  <2> PICK n : n = [f \in fs |-> f.qfi]
    OBVIOUS
  <2>5. n \in Bijection(fs, Q)
    BY <1>u DEF Bijection, Injection, Surjection, IsInjective
  <2>q. QED
    BY <2>4, <2>5, FS_Bijection DEF ExistsBijection
<1>3. ASSUME Q \subseteq RuleIds
      PROVE  Bound!qos_flows(Bound!set_flows(fs), p) = fs
  <2> PICK c : c = [q \in Q |-> CHOOSE f \in fs : f.qfi = q]
    OBVIOUS
  <2>1. \A q \in Q : c[q] \in fs /\ c[q].qfi = q
    OBVIOUS
  <2>2. \A f \in fs : f.qfi \in Q /\ c[f.qfi] = f
    BY <1>u, <2>1
  <2> PICK E : E = Bound!set_flows(fs)
    OBVIOUS
  <2>3. /\ DOMAIN E.qos = Q /\ DOMAIN E.rules = Q
        /\ \A q \in Q : /\ E.qos[q] = [qfi |-> q, gbr |-> c[q].gbr]
                        /\ E.rules[q] = [precedence |-> q, flow_info |-> c[q].filter, ref_qos_data |-> q,
                                         ref_chg_data |-> c[q].ref_chg_data, flow_status |-> c[q].gate]
    BY DEF Bound!set_flows
  <2>a. \A q \in Q : /\ E.qos[q].qfi = q /\ E.qos[q].gbr = c[q].gbr
                     /\ E.rules[q].flow_info = c[q].filter /\ E.rules[q].ref_qos_data = q
                     /\ E.rules[q].ref_chg_data = c[q].ref_chg_data /\ E.rules[q].flow_status = c[q].gate
    <3> SUFFICES ASSUME NEW q \in Q
                 PROVE  /\ E.qos[q].qfi = q /\ E.qos[q].gbr = c[q].gbr
                        /\ E.rules[q].flow_info = c[q].filter /\ E.rules[q].ref_qos_data = q
                        /\ E.rules[q].ref_chg_data = c[q].ref_chg_data /\ E.rules[q].flow_status = c[q].gate
      OBVIOUS
    <3> PICK x : x = c[q]
      OBVIOUS
    <3>1. E.qos[q] = [qfi |-> q, gbr |-> x.gbr]
      BY <2>3
    <3>2. E.rules[q] = [precedence |-> q, flow_info |-> x.filter, ref_qos_data |-> q,
                        ref_chg_data |-> x.ref_chg_data, flow_status |-> x.gate]
      <4>1. E.rules[q] = [precedence |-> q, flow_info |-> c[q].filter, ref_qos_data |-> q,
                          ref_chg_data |-> c[q].ref_chg_data, flow_status |-> c[q].gate]
        BY ONLY <2>3, q \in Q, Zenon
      <4>q. QED
        BY ONLY <4>1, x = c[q]
    <3>3. E.qos[q].qfi = q /\ E.qos[q].gbr = x.gbr
      BY ONLY <3>1
    <3>4. /\ E.rules[q].flow_info = x.filter /\ E.rules[q].ref_qos_data = q
          /\ E.rules[q].ref_chg_data = x.ref_chg_data /\ E.rules[q].flow_status = x.gate
      BY ONLY <3>2
    <3>q. QED
      BY <3>3, <3>4
  <2>4. \A q \in Q : Bound!Bound(E, q) = {q}
    <3> SUFFICES ASSUME NEW q \in Q PROVE Bound!Bound(E, q) = {q}
      OBVIOUS
    <3>1. \A r \in DOMAIN E.rules : E.rules[r].ref_qos_data = q <=> r = q
      BY <2>3, <2>a
    <3>2. q \in DOMAIN E.rules
      BY <2>3
    <3>q. QED
      BY ONLY <3>1, <3>2 DEF Bound!Bound
  <2>5. \A q \in Q : Bound!Representative(E, q, p) = q
    <3> SUFFICES ASSUME NEW q \in Q PROVE Bound!Representative(E, q, p) = q
      OBVIOUS
    <3>1. Bound!Pos(p, q) <= Bound!Pos(p, q)
      BY <1>3, OrdersPlaceEveryRule
    <3>q. QED
      BY <2>4, <3>1 DEF Bound!Representative
  <2>6. ASSUME NEW q \in Q
        PROVE  LET r == E.rules[Bound!Representative(E, q, p)] IN
               [qfi |-> E.qos[q].qfi, gbr |-> E.qos[q].gbr, filter |-> r.flow_info,
                ref_chg_data |-> r.ref_chg_data, gate |-> r.flow_status] = c[q]
    <3>1. c[q] = [qfi |-> q, gbr |-> c[q].gbr, filter |-> c[q].filter,
                  ref_chg_data |-> c[q].ref_chg_data, gate |-> c[q].gate]
      BY <1>f, <2>1
    <3>2. Bound!Representative(E, q, p) = q
      BY <2>5
    <3>3. /\ E.qos[q].qfi = q /\ E.qos[q].gbr = c[q].gbr
          /\ E.rules[q].flow_info = c[q].filter
          /\ E.rules[q].ref_chg_data = c[q].ref_chg_data /\ E.rules[q].flow_status = c[q].gate
      BY <2>a
    <3>q. QED
      BY ONLY <3>1, <3>2, <3>3
  <2>7. {q \in DOMAIN E.qos : Bound!Bound(E, q) # {}} = Q
    BY <2>3, <2>4
  <2>8. Bound!qos_flows(E, p) = {c[q] : q \in Q}
    <3>1. Bound!qos_flows(E, p) =
            {LET r == E.rules[Bound!Representative(E, q, p)] IN
               [qfi |-> E.qos[q].qfi, gbr |-> E.qos[q].gbr, filter |-> r.flow_info,
                ref_chg_data |-> r.ref_chg_data, gate |-> r.flow_status] : q \in Q}
      BY ONLY <2>7 DEF Bound!qos_flows
    <3>q. QED
      BY ONLY <2>6, <3>1
  <2>9. {c[q] : q \in Q} = fs
    BY ONLY <2>1, <2>2
  <2>q. QED
    BY <2>8, <2>9
<1>q. QED
  BY <1>1, <1>2, <1>3 DEF Bound!Qfis

\* The part that changes the decision has the same rules as the one that takes it on.
LEMMA SameRules ==
    /\ Refreshed!Orders = Bound!Orders
    /\ \A d : Refreshed!WellFormed(d) <=> Bound!WellFormed(d)
    /\ \A d, o : Refreshed!qos_flows(d, o) = Bound!qos_flows(d, o)
<1>1. Refreshed!Orders = Bound!Orders
  BY DEF Refreshed!Orders, Bound!Orders, Refreshed!Cardinality, Bound!Cardinality
<1>2. \A d, q : Refreshed!Bound(d, q) = Bound!Bound(d, q)
  BY DEF Refreshed!Bound, Bound!Bound
<1>3. \A d : Refreshed!WellFormed(d) <=> Bound!WellFormed(d)
  BY <1>2 DEF Refreshed!WellFormed, Bound!WellFormed
<1>4. \A d, o : Refreshed!qos_flows(d, o) = Bound!qos_flows(d, o)
  <2>1. \A d, q, o : Refreshed!Representative(d, q, o) = Bound!Representative(d, q, o)
    BY DEF Refreshed!Representative, Bound!Representative, Refreshed!Bound, Bound!Bound, Refreshed!Pos, Bound!Pos
  <2>q. QED
    BY <1>2, <2>1 DEF Refreshed!qos_flows, Bound!qos_flows
<1>q. QED
  BY <1>1, <1>3, <1>4

\* The flows policed one by one: the same in every order, and one for a QFI.
Policed(flows) ==
    /\ \A f \in flows : f = [qfi |-> f.qfi, filter |-> f.filter, mfbr |-> f.mfbr, gate |-> f.gate]
    /\ \A f, g \in flows : f.qfi = g.qfi => f = g

LEMMA FlowsArePoliced ==
    ASSUME Bound!BindingAssumption, NEW d,
           DOMAIN d.rules \subseteq RuleIds, \A r \in DOMAIN d.rules : d.rules[r].precedence \in Nat,
           Refreshed!WellFormed(d), NEW o \in Refreshed!Orders
    PROVE  /\ Policed(Refreshed!flow_qers(d, o))
           /\ \A p \in Refreshed!Orders : Refreshed!flow_qers(d, o) = Refreshed!flow_qers(d, p)
<1>1. \A p \in Refreshed!Orders : Refreshed!qos_flows(d, o) = Refreshed!qos_flows(d, p)
  BY SameRules, SameFlows
<1>2. \A p \in Refreshed!Orders : Refreshed!flow_qers(d, o) = Refreshed!flow_qers(d, p)
  BY <1>1 DEF Refreshed!flow_qers
<1> PICK fs : fs = Refreshed!qos_flows(d, o)
  OBVIOUS
<1>3. \A f, g \in fs : f.qfi = g.qfi => f = g
  BY SameRules, FlowOfQfi
<1> PICK qs : qs = Refreshed!flow_qers(d, o)
  OBVIOUS
<1>4. \A x \in qs : \E f \in fs : x = [qfi |-> f.qfi, filter |-> f.filter, mfbr |-> Refreshed!bitrate_to_bps(f.gbr), gate |-> f.gate]
  BY DEF Refreshed!flow_qers
<1>5. ASSUME NEW x \in qs, NEW y \in qs
      PROVE  /\ x = [qfi |-> x.qfi, filter |-> x.filter, mfbr |-> x.mfbr, gate |-> x.gate]
             /\ x.qfi = y.qfi => x = y
  <2>1. PICK f \in fs : x = [qfi |-> f.qfi, filter |-> f.filter, mfbr |-> Refreshed!bitrate_to_bps(f.gbr), gate |-> f.gate]
    BY <1>4
  <2>2. PICK g \in fs : y = [qfi |-> g.qfi, filter |-> g.filter, mfbr |-> Refreshed!bitrate_to_bps(g.gbr), gate |-> g.gate]
    BY <1>4
  <2>3. x.qfi = y.qfi => f = g
    BY <1>3, <2>1, <2>2
  <2>q. QED
    BY <2>1, <2>2, <2>3
<1>q. QED
  BY <1>2, <1>5 DEF Policed

\* What the SMF sends brings the UPF from the one set of flows to the other, and nothing is sent
\* only where nothing differs.
LEMMA DiffThenModified ==
    ASSUME NEW old, NEW new, Policed(old), Policed(new)
    PROVE  LET m == Refreshed!diff_flows(old, new)
           IN /\ Refreshed!Modified(old, m) = new
              /\ m.create = {} /\ m.update = {} /\ m.remove = {} => old = new
<1> PICK m : m = Refreshed!diff_flows(old, new)
  OBVIOUS
<1>p. /\ \A f \in old : f = [qfi |-> f.qfi, filter |-> f.filter, mfbr |-> f.mfbr, gate |-> f.gate]
      /\ \A f \in new : f = [qfi |-> f.qfi, filter |-> f.filter, mfbr |-> f.mfbr, gate |-> f.gate]
      /\ \A f, g \in old : f.qfi = g.qfi => f = g
      /\ \A f, g \in new : f.qfi = g.qfi => f = g
  BY DEF Policed
<1> PICK C : C = {n \in new : \A x \in old : x.qfi = n.qfi => x.filter # n.filter}
  OBVIOUS
<1>U. PICK U : U = {n \in new : \E x \in old : x.qfi = n.qfi /\ x.filter = n.filter /\ x # n}
  OBVIOUS
<1> PICK G : G = {x \in old : \A n \in new : n.qfi = x.qfi => n.filter # x.filter}
  OBVIOUS
<1> PICK R : R = {x.qfi : x \in G}
  OBVIOUS
<1>1. m.create = C /\ m.update = U /\ m.remove = R
  BY <1>U DEF Refreshed!diff_flows
<1>m. PICK M : M = {f \in old : f.qfi \notin R} \cup C
  OBVIOUS
<1>2. \A f \in old : f.qfi \in R <=> f \in G
  BY <1>p
<1>3. \A f \in M : f.qfi \in Refreshed!Qfis(U) <=> \E u \in U : u.qfi = f.qfi
  BY DEF Refreshed!Qfis
<1>h. PICK h : h = [f \in M |-> IF f.qfi \in Refreshed!Qfis(U)
                   THEN [f EXCEPT !.mfbr = (CHOOSE u \in U : u.qfi = f.qfi).mfbr, !.gate = (CHOOSE u \in U : u.qfi = f.qfi).gate]
                   ELSE f]
  OBVIOUS
<1>4. Refreshed!Modified(old, m) = {h[f] : f \in M}
  <2> PICK K : K = {f \in old : f.qfi \notin m.remove} \cup m.create
    OBVIOUS
  <2>1. K = M
    BY <1>1, <1>m
  <2>2. Refreshed!Modified(old, m) =
          {IF f.qfi \in Refreshed!Qfis(m.update)
           THEN [f EXCEPT !.mfbr = (CHOOSE u \in m.update : u.qfi = f.qfi).mfbr, !.gate = (CHOOSE u \in m.update : u.qfi = f.qfi).gate]
           ELSE f : f \in K}
    BY DEF Refreshed!Modified
  <2>3. Refreshed!Modified(old, m) =
          {IF f.qfi \in Refreshed!Qfis(U)
           THEN [f EXCEPT !.mfbr = (CHOOSE u \in U : u.qfi = f.qfi).mfbr, !.gate = (CHOOSE u \in U : u.qfi = f.qfi).gate]
           ELSE f : f \in M}
    BY ONLY <1>1, <2>1, <2>2
  <2>q. QED
    BY ONLY <1>h, <2>3
<1>5. ASSUME NEW f \in M
      PROVE  h[f] \in new /\ h[f].qfi = f.qfi
  <2>1. CASE \E u \in U : u.qfi = f.qfi
    <3> PICK u : u = CHOOSE w \in U : w.qfi = f.qfi
      OBVIOUS
    <3>1. u \in U /\ u.qfi = f.qfi
      BY <2>1
    <3>2. u \in new /\ \E x \in old : x.qfi = u.qfi /\ x.filter = u.filter
      BY ONLY <1>U, <3>1
    <3>3. f \in old
      BY <1>m, <1>p, <3>1, <3>2
    <3>4. f.filter = u.filter
      BY <1>p, <3>1, <3>2, <3>3
    <3>5. h[f] = [f EXCEPT !.mfbr = u.mfbr, !.gate = u.gate]
      BY <1>h, <1>3, <2>1
    <3>6. f = [qfi |-> f.qfi, filter |-> f.filter, mfbr |-> f.mfbr, gate |-> f.gate]
      BY <1>p, <3>3
    <3>7. u = [qfi |-> u.qfi, filter |-> u.filter, mfbr |-> u.mfbr, gate |-> u.gate]
      BY <1>p, <3>2
    <3>8. h[f] = [qfi |-> f.qfi, filter |-> f.filter, mfbr |-> u.mfbr, gate |-> u.gate]
      BY ONLY <3>5, <3>6
    <3>9. h[f] = u
      BY ONLY <3>1, <3>4, <3>7, <3>8
    <3>q. QED
      BY <3>1, <3>2, <3>9
  <2>2. CASE ~(\E u \in U : u.qfi = f.qfi)
    <3>1. h[f] = f
      BY <1>h, <1>3, <2>2
    <3>2. CASE f \in C
      BY <3>1, <3>2
    <3>3. CASE f \in old /\ f \notin C
      <4>1. PICK n \in new : n.qfi = f.qfi /\ n.filter = f.filter
        BY <1>m, <1>2, <3>3
      <4>2. n = f
        BY <1>U, <1>p, <2>2, <3>3, <4>1
      <4>q. QED
        BY <3>1, <4>2
    <3>q. QED
      BY <1>m, <1>h, <1>U, <3>2, <3>3
  <2>q. QED
    BY <2>1, <2>2
<1>6. ASSUME NEW n \in new
      PROVE  \E f \in M : h[f] = n
  <2>1. CASE n \in C
    BY <1>m, <1>p, <1>5, <2>1
  <2>2. CASE n \notin C
    <3>1. PICK x \in old : x.qfi = n.qfi /\ x.filter = n.filter
      BY <2>2
    <3>2. x \in M
      BY <1>m, <1>2, <3>1
    <3>q. QED
      <4>1. h[x] \in new /\ h[x].qfi = n.qfi
        BY <1>5, <3>1, <3>2
      <4>2. h[x] = n
        BY ONLY <1>p, <4>1, n \in new
      <4>q. QED
        BY <3>2, <4>2
  <2>q. QED
    BY <2>1, <2>2
<1>7. {h[f] : f \in M} = new
  BY ONLY <1>5, <1>6
<1>8. ASSUME C = {}, U = {}, R = {}
      PROVE  old = new
  <2>1. M = old
    BY <1>m, <1>8
  <2>2. \A f \in M : h[f] = f
    BY <1>h, <1>m, <1>3, <1>8
  <2>q. QED
    BY ONLY <1>7, <2>1, <2>2
<1>q. QED
  BY <1>1, <1>4, <1>7, <1>8

LEMMA BindingInit ==
    ASSUME Bound!BindingAssumption, Refreshed!BindingData, Refreshed!Init
    PROVE  Refreshed!BindingIInv
<1>1. v1 \in LaterDecisions /\ v2 = v1 /\ v4 = Refreshed!ambr_bps(v2)
  BY DEF Refreshed!Init
<1>2. PICK o \in Refreshed!Orders : v3 = Refreshed!flow_qers(v2, o)
  BY DEF Refreshed!Init
<1>3. DOMAIN v2.rules \subseteq RuleIds /\ \A r \in DOMAIN v2.rules : v2.rules[r].precedence \in Nat
  BY <1>1 DEF Refreshed!BindingData
<1>4. Refreshed!WellFormed(v2) => \A p \in Refreshed!Orders : v3 = Refreshed!flow_qers(v2, p)
  BY <1>2, <1>3, FlowsArePoliced
<1>q. QED
  BY <1>1, <1>4 DEF Refreshed!BindingIInv, Refreshed!UpfFollowsPolicy

LEMMA BindingStep ==
    ASSUME Bound!BindingAssumption, Refreshed!BindingData, \A d \in LaterDecisions : Refreshed!WellFormed(d),
           Refreshed!BindingIInv, Refreshed!Next
    PROVE  Refreshed!BindingIInv'
<1>i. v1 \in LaterDecisions /\ v2 \in LaterDecisions
  BY DEF Refreshed!BindingIInv
<1>u. ~v6 => \A o \in Refreshed!Orders : v3 = Refreshed!flow_qers(v2, o)
                /\ (Refreshed!ambr_bps(v2) # None => v4 = Refreshed!ambr_bps(v2))
  BY <1>i DEF Refreshed!BindingIInv, Refreshed!UpfFollowsPolicy
<1>1. CASE \E d \in LaterDecisions : Refreshed!PcfChanges(d)
  <2>1. v1' \in LaterDecisions /\ v2' = v2 /\ v3' = v3 /\ v4' = v4 /\ v6' = v6
    BY <1>1 DEF Refreshed!PcfChanges
  <2>2. ~v6' => \A o \in Refreshed!Orders : v3' = Refreshed!flow_qers(v2', o)
                /\ (Refreshed!ambr_bps(v2') # None => v4' = Refreshed!ambr_bps(v2'))
    BY <1>u, <2>1
  <2>q. QED
    BY <1>i, <2>1, <2>2 DEF Refreshed!BindingIInv, Refreshed!UpfFollowsPolicy
<1>2. CASE Refreshed!refresh_sm_policy
  <2>1. PICK o, p \in Refreshed!Orders, okAmbr, okFlows \in BOOLEAN :
          LET old == Refreshed!flow_qers(v2, o)
              new == Refreshed!flow_qers(v1, p)
              m == Refreshed!diff_flows(old, new)
              ambrSent == Refreshed!ambr_bps(v1) # Refreshed!ambr_bps(v2) /\ Refreshed!ambr_bps(v1) # None
              flowsSent == m.create # {} \/ m.update # {} \/ m.remove # {}
              lost == (ambrSent /\ ~okAmbr) \/ (flowsSent /\ ~okFlows)
          IN /\ v6' = (v6 \/ lost)
             /\ v4' = IF ambrSent /\ okAmbr THEN Refreshed!ambr_bps(v1) ELSE v4
             /\ v3' = IF flowsSent /\ okFlows THEN Refreshed!Modified(v3, m) ELSE v3
    BY <1>2 DEF Refreshed!refresh_sm_policy
  <2>2. v2' = v1 /\ v1' = v1
    BY <1>2 DEF Refreshed!refresh_sm_policy
  <2> PICK old : old = Refreshed!flow_qers(v2, o)
    OBVIOUS
  <2> PICK new : new = Refreshed!flow_qers(v1, p)
    OBVIOUS
  <2> PICK m : m = Refreshed!diff_flows(old, new)
    OBVIOUS
  <2>3. Policed(old) /\ Policed(new) /\ \A q \in Refreshed!Orders : new = Refreshed!flow_qers(v1, q)
    BY <1>i, FlowsArePoliced DEF Refreshed!BindingData
  <2>4. Refreshed!Modified(old, m) = new /\ (m.create = {} /\ m.update = {} /\ m.remove = {} => old = new)
    BY <2>3, DiffThenModified
  <2>5. ASSUME ~v6', NEW q \in Refreshed!Orders
        PROVE  v3' = Refreshed!flow_qers(v1, q)
               /\ (Refreshed!ambr_bps(v1) # None => v4' = Refreshed!ambr_bps(v1))
    <3>1. ~v6 /\ v3 = old /\ (Refreshed!ambr_bps(v2) # None => v4 = Refreshed!ambr_bps(v2))
      BY <1>u, <2>1, <2>5
    <3>2. v3' = new
      BY <2>1, <2>4, <2>5, <3>1
    <3>3. Refreshed!ambr_bps(v1) # None => v4' = Refreshed!ambr_bps(v1)
      BY <2>1, <2>5, <3>1
    <3>q. QED
      BY <2>3, <3>2, <3>3
  <2>6. ~v6' => \A q \in Refreshed!Orders : v3' = Refreshed!flow_qers(v2', q)
                /\ (Refreshed!ambr_bps(v2') # None => v4' = Refreshed!ambr_bps(v2'))
    BY <2>2, <2>5
  <2>q. QED
    BY <1>i, <2>2, <2>6 DEF Refreshed!BindingIInv, Refreshed!UpfFollowsPolicy
<1>q. QED
  BY <1>1, <1>2 DEF Refreshed!Next

-----------------------------------------------------------------------------
(* Policies: what a partial update carries, for maps of any keys and values. *)

\* npcf.rs diff and apply: a receiver that holds the decision the update was
\* computed from ends with exactly the decision it was computed for.
THEOREM DiffThenApply ==
    ASSUME NEW K, NEW V, Null \notin V,
           NEW P \in SUBSET K, NEW N \in SUBSET K,
           NEW prev \in [P -> V], NEW next \in [N -> V]
    PROVE  Policies!ApplyKeyed(prev, Policies!DiffKeyed(prev, next)) = next
<1> DEFINE d == Policies!DiffKeyed(prev, next)
           r == Policies!ApplyKeyed(prev, d)
           D == {i \in N : i \notin P \/ prev[i] # next[i]} \cup (P \ N)
<1>1. DOMAIN prev = P /\ DOMAIN next = N
  OBVIOUS
<1>2. d = [id \in D |-> IF id \in N THEN next[id] ELSE Null]
  BY <1>1 DEF Policies!DiffKeyed
<1>3. DOMAIN d = D /\ \A i \in D : d[i] = IF i \in N THEN next[i] ELSE Null
  BY <1>2
<1>4. \A i \in N : next[i] \in V /\ next[i] # Null
  OBVIOUS
<1> DEFINE R == {i \in P : i \notin D} \cup {i \in D : d[i] # Null}
<1>5. r = [id \in R |-> IF id \in D THEN d[id] ELSE prev[id]]
  BY <1>1, <1>3 DEF Policies!ApplyKeyed
<1> HIDE DEF d, r
<1>6. R = N
  <2>1. ASSUME NEW i \in R PROVE i \in N
    BY <2>1, <1>3
  <2>2. ASSUME NEW i \in N PROVE i \in R
    BY <2>2, <1>3, <1>4
  <2> QED BY <2>1, <2>2
<1>7. ASSUME NEW i \in N PROVE (IF i \in D THEN d[i] ELSE prev[i]) = next[i]
  BY <1>3, <1>7
<1>8. r = [id \in N |-> next[id]]
  BY <1>5, <1>6, <1>7
<1> QED BY <1>8 DEF r, d

\* npcf.rs diff: nothing is sent if and only if nothing changed.
THEOREM DiffIsEmptyIffEqual ==
    ASSUME NEW K, NEW V, Null \notin V,
           NEW P \in SUBSET K, NEW N \in SUBSET K,
           NEW prev \in [P -> V], NEW next \in [N -> V]
    PROVE  DOMAIN Policies!DiffKeyed(prev, next) = {} <=> prev = next
<1>1. DOMAIN Policies!DiffKeyed(prev, next)
        = {i \in N : i \notin P \/ prev[i] # next[i]} \cup (P \ N)
  BY DEF Policies!DiffKeyed
<1>2. ASSUME prev = next PROVE DOMAIN Policies!DiffKeyed(prev, next) = {}
  <2>1. P = N
    BY <1>2
  <2> QED BY <1>1, <1>2, <2>1
<1>3. ASSUME DOMAIN Policies!DiffKeyed(prev, next) = {} PROVE prev = next
  <2>1. P = N
    BY <1>1, <1>3
  <2>2. \A i \in N : prev[i] = next[i]
    BY <1>1, <1>3
  <2> QED BY <2>1, <2>2
<1> QED BY <1>2, <1>3

\* policy.rs: what one attribute carries survives the wire, and brings a receiver
\* that had the previous value to the next one.
THEOREM FieldUpdateRoundTrip ==
    ASSUME NEW V, Null \notin V, NEW prev \in V \cup {Null}, NEW next \in V \cup {Null}
    PROVE  Policies!FieldApply(Policies!FromWire(Policies!Wire(Policies!FieldDiff(prev, next))), prev) = next
<1>1. CASE prev = next
  BY <1>1 DEF Policies!FieldDiff, Policies!FieldApply, Policies!Wire, Policies!FromWire, Policies!Keep, Policies!Clear, Policies!Set
<1>2. CASE prev # next /\ next = Null
  BY <1>2 DEF Policies!FieldDiff, Policies!FieldApply, Policies!Wire, Policies!FromWire, Policies!Keep, Policies!Clear, Policies!Set
<1>3. CASE prev # next /\ next # Null
  BY <1>3 DEF Policies!FieldDiff, Policies!FieldApply, Policies!Wire, Policies!FromWire, Policies!Keep, Policies!Clear, Policies!Set
<1> QED BY <1>1, <1>2, <1>3

-----------------------------------------------------------------------------
(* Policies: v1 is base, v2 infl, v3 assoc, v4 held, v5 creating, v6 made, v7 upd, v9 unsettled *)

\* A decision is made of the policy data and the influences,
LEMMA DecisionsAreInSpace ==
    ASSUME Policies!PolicyData, Policies!PolicyTypes
    PROVE  Policies!Decisions \subseteq Policies!Space
<1> SUFFICES ASSUME NEW d \in Policies!Decisions PROVE d \in Policies!Space
  OBVIOUS
<1> PICK p \in PolicyDocs \cup {Default} : d = [k \in DOMAIN p \cup v2 |-> IF k \in v2 THEN Policies!Route ELSE p[k]]
  BY DEF Policies!Decisions, Policies!BaseDecisions, Policies!PolicyTypes
<1>0. \A k \in DOMAIN p : k \in Policies!Entries
  BY DEF Policies!Entries
<1>1. DOMAIN p \cup v2 \in SUBSET Policies!Entries
  <2>1. v2 \subseteq Influences
    BY DEF Policies!PolicyTypes
  <2>2. Influences \subseteq Policies!Entries
    BY DEF Policies!Entries
  <2>q. QED
    BY <1>0, <2>1, <2>2
<1>2. \A k \in DOMAIN p \cup v2 : d[k] \in Policies!Values
  BY DEF Policies!Values
<1>3. d \in [DOMAIN p \cup v2 -> Policies!Values]
  BY <1>2
<1>q. QED
  BY <1>1, <1>3 DEF Policies!Space

\* and is what the SMF has when it applies the difference to the one before.
LEMMA UpdateBringsNext ==
    ASSUME Policies!PolicyNone, NEW prev \in Policies!Space, NEW next \in Policies!Space
    PROVE  Policies!ApplyKeyed(prev, Policies!DiffKeyed(prev, next)) = next
<1> PICK P \in SUBSET Policies!Entries : prev \in [P -> Policies!Values]
  BY DEF Policies!Space
<1> PICK N \in SUBSET Policies!Entries : next \in [N -> Policies!Values]
  BY DEF Policies!Space
<1>1. Null \notin Policies!Values
  BY DEF Policies!PolicyNone
<1>q. QED
  BY <1>1, DiffThenApply

\* Whatever it is applied to, the SMF has a decision then.
LEMMA UpdateKeepsSpace ==
    ASSUME NEW d \in Policies!Space, NEW prev \in Policies!Space, NEW next \in Policies!Space
    PROVE  Policies!ApplyKeyed(d, Policies!DiffKeyed(prev, next)) \in Policies!Space
<1> PICK D \in SUBSET Policies!Entries : d \in [D -> Policies!Values]
  BY DEF Policies!Space
<1> PICK P \in SUBSET Policies!Entries : prev \in [P -> Policies!Values]
  BY DEF Policies!Space
<1> PICK N \in SUBSET Policies!Entries : next \in [N -> Policies!Values]
  BY DEF Policies!Space
<1> PICK m : m = Policies!DiffKeyed(prev, next)
  OBVIOUS
<1> PICK M : M = DOMAIN m
  OBVIOUS
<1>1. M \subseteq P \cup N /\ \A i \in M : m[i] = IF i \in N THEN next[i] ELSE Null
  BY DEF Policies!DiffKeyed
<1>2. \A i \in M : m[i] \in Policies!Values \/ m[i] = Null
  BY <1>1
<1> PICK R : R = {i \in D : i \notin M} \cup {i \in M : m[i] # Null}
  OBVIOUS
<1>3. Policies!ApplyKeyed(d, m) = [i \in R |-> IF i \in M THEN m[i] ELSE d[i]]
  BY DEF Policies!ApplyKeyed
<1>4. R \in SUBSET Policies!Entries /\ \A i \in R : (IF i \in M THEN m[i] ELSE d[i]) \in Policies!Values
  BY <1>1, <1>2
<1>5. [i \in R |-> IF i \in M THEN m[i] ELSE d[i]] \in [R -> Policies!Values]
  BY <1>4
<1>q. QED
  BY <1>3, <1>4, <1>5 DEF Policies!Space

LEMMA PolicyInit ==
    ASSUME Policies!PolicyData, Policies!PolicyNone, Policies!Init
    PROVE  Policies!PolicyIInv
<1>1. Policies!PolicyTypes
  BY DEF Policies!Init, Policies!PolicyTypes, Policies!Idle
<1>2. Policies!OneLife
  BY DEF Policies!Init, Policies!OneLife
<1>3. Policies!InStep
  BY DEF Policies!Init, Policies!InStep, Policies!Idle
<1>q. QED
  BY <1>1, <1>2, <1>3 DEF Policies!PolicyIInv


\* What an update is about, and whether its session is busy, is the same for the others.
LEMMA PolicyFields ==
    ASSUME Policies!PolicyTypes
    PROVE  /\ v3 \in [PolicySessions -> Policies!Space \cup {None}] /\ v4 \in [PolicySessions -> Policies!Space \cup {None}]
           /\ v5 \in [PolicySessions -> Policies!Space \cup {None}]
           /\ v7 = [u \in Updates |-> v7[u]]
           /\ \A u \in Updates :
                /\ v7[u] = [at |-> v7[u].at, s |-> v7[u].s, prev |-> v7[u].prev, fresh |-> v7[u].fresh]
                /\ v7[u].at \in {"idle", "read", "decided", "answered"}
                /\ v7[u].prev \in Policies!Space \cup {None} /\ v7[u].fresh \in Policies!Space \cup {None}
                /\ v7[u].at # "idle" =>
                     /\ v7[u].s \in v6 /\ v7[u].s \in PolicySessions /\ v7[u].prev # None
                     /\ v7[u].at # "read" => v7[u].fresh # None
BY DEF Policies!PolicyTypes

\* The decision on record is read; an update that overlaps another one unsettles the session.
LEMMA BeginsKeeps ==
    ASSUME Policies!PolicyIInv, Policies!PolicyNone, NEW u \in Updates, NEW s \in PolicySessions, Policies!Begins(u, s),
           v1' = v1, v2' = v2, v3' = v3, v4' = v4, v5' = v5, v6' = v6
    PROVE  Policies!PolicyIInv'
<1>i. Policies!PolicyTypes /\ Policies!OneLife /\ Policies!InStep
  BY DEF Policies!PolicyIInv
<1> PICK q : q = [at |-> "read", s |-> s, prev |-> v3[s], fresh |-> None]
  OBVIOUS
<1>1. /\ v7[u].at = "idle" /\ v3[s] # None /\ v7' = [v7 EXCEPT ![u] = q]
      /\ v9' = IF Policies!Busy(s) THEN v9 \cup {s} ELSE v9
  BY DEF Policies!Begins
<1>2. q.at = "read" /\ q.s = s /\ q.prev = v3[s] /\ q.fresh = None
  OBVIOUS
<1>3. v7'[u] = q /\ \A w \in Updates \ {u} : v7'[w] = v7[w]
  BY <1>i, <1>1, PolicyFields
<1>4. v3[s] \in Policies!Space /\ v4[s] # None /\ s \in v6
  BY <1>i, <1>1, PolicyFields DEF Policies!OneLife
<1>5. Policies!PolicyTypes'
  <2>1. v7' \in [Updates -> [at : {"idle", "read", "decided", "answered"}, s : PolicySessions \cup {None},
                             prev : Policies!Space \cup {None}, fresh : Policies!Space \cup {None}]]
    BY <1>i, <1>1, <1>2, <1>4 DEF Policies!PolicyTypes
  <2>2. \A w \in Updates : v7'[w].at # "idle" =>
          /\ v7'[w].s \in v6 /\ v7'[w].s \in PolicySessions /\ v7'[w].prev # None
          /\ v7'[w].at # "read" => v7'[w].fresh # None
    BY <1>i, <1>1, <1>2, <1>3, <1>4, PolicyFields
  <2>q. QED
    BY <1>i, <2>1, <2>2 DEF Policies!PolicyTypes
<1>6. Policies!OneLife'
  BY <1>i DEF Policies!OneLife
<1>7. Policies!InStep'
  <2> SUFFICES ASSUME NEW t \in PolicySessions, v4[t] # None, t \notin v9'
               PROVE  /\ ~Policies!Busy(t)' => v4[t] = v3[t]
                      /\ \A w \in Updates : v7'[w].at # "idle" /\ v7'[w].s = t =>
                           /\ v7'[w].prev = v4[t]
                           /\ v3[t] = IF v7'[w].at = "answered" THEN v7'[w].fresh ELSE v4[t]
                           /\ \A x \in Updates : v7'[x].at # "idle" /\ v7'[x].s = t => x = w
    BY DEF Policies!InStep
  <2>1. t \notin v9
    BY <1>1
  <2>2. CASE t = s
    <3>1. ~Policies!Busy(s)
      BY <1>1, <2>2
    <3>2. v4[s] = v3[s] /\ \A w \in Updates : ~(v7[w].at # "idle" /\ v7[w].s = s)
      BY <1>i, <2>1, <2>2, <3>1 DEF Policies!InStep, Policies!Busy
    <3>q. QED
      BY <1>2, <1>3, <2>2, <3>2
  <2>3. CASE t # s
    <3>1. \A w \in Updates : v7'[w].at # "idle" /\ v7'[w].s = t => v7'[w] = v7[w]
      BY <1>2, <1>3, <2>3
    <3>2. \A w \in Updates : v7[w].at # "idle" /\ v7[w].s = t => v7'[w] = v7[w]
      BY <1>1, <1>3
    <3>3. Policies!Busy(t)' <=> Policies!Busy(t)
      BY <3>1, <3>2 DEF Policies!Busy
    <3>q. QED
      BY <1>i, <2>1, <3>1, <3>3 DEF Policies!InStep
  <2>q. QED
    BY <2>2, <2>3
<1>q. QED
  BY <1>5, <1>6, <1>7 DEF Policies!PolicyIInv

\* Nothing of a session's decisions and updates changes,
LEMMA SameDecisions ==
    ASSUME Policies!PolicyIInv, v1' \in PolicyDocs, v2' \subseteq Influences,
           v3' = v3, v4' = v4, v5' = v5, v6' = v6, v7' = v7, v9' = v9
    PROVE  Policies!PolicyIInv'
<1>1. Policies!PolicyTypes'
  BY DEF Policies!PolicyIInv, Policies!PolicyTypes
<1>2. Policies!OneLife'
  BY DEF Policies!PolicyIInv, Policies!OneLife
<1>3. Policies!InStep'
  BY DEF Policies!PolicyIInv, Policies!InStep, Policies!Busy
<1>q. QED
  BY <1>1, <1>2, <1>3 DEF Policies!PolicyIInv

\* or one association is made or deleted,
LEMMA AssociationKeeps ==
    ASSUME Policies!PolicyIInv, Policies!PolicyData, Policies!PolicyNone, NEW s \in PolicySessions,
           Policies!CreateDecide(s) \/ Policies!CreateInsert(s) \/ Policies!Delete(s)
    PROVE  Policies!PolicyIInv'
<1>i. Policies!PolicyTypes /\ Policies!OneLife /\ Policies!InStep
  BY DEF Policies!PolicyIInv
<1>f. v3 \in [PolicySessions -> Policies!Space \cup {None}] /\ v4 \in [PolicySessions -> Policies!Space \cup {None}]
      /\ v5 \in [PolicySessions -> Policies!Space \cup {None}]
  BY <1>i, PolicyFields
<1>1. CASE Policies!CreateDecide(s)
  <2> PICK d \in Policies!Decisions : v5' = [v5 EXCEPT ![s] = d]
    BY <1>1 DEF Policies!CreateDecide
  <2>0. s \notin v6 /\ v1' = v1 /\ v2' = v2 /\ v3' = v3 /\ v4' = v4 /\ v6' = v6 /\ v7' = v7 /\ v9' = v9
    BY <1>1 DEF Policies!CreateDecide
  <2>1. d \in Policies!Space
    BY <1>i, DecisionsAreInSpace
  <2>2. Policies!PolicyTypes'
    <3>1. v5' \in [PolicySessions -> Policies!Space \cup {None}]
      BY <1>f, <2>1
    <3>q. QED
      BY <1>i, <2>0, <3>1 DEF Policies!PolicyTypes
  <2>3. Policies!OneLife'
    BY <1>i, <1>f, <2>0 DEF Policies!OneLife
  <2>4. Policies!InStep'
    BY <1>i, <2>0 DEF Policies!InStep, Policies!Busy
  <2>q. QED
    BY <2>2, <2>3, <2>4 DEF Policies!PolicyIInv
<1>2. CASE Policies!CreateInsert(s)
  <2> PICK d : d = v5[s]
    OBVIOUS
  <2>0. /\ d # None /\ v3' = [v3 EXCEPT ![s] = d] /\ v4' = [v4 EXCEPT ![s] = d]
        /\ v5' = [v5 EXCEPT ![s] = None] /\ v6' = v6 \cup {s}
        /\ v1' = v1 /\ v2' = v2 /\ v7' = v7 /\ v9' = v9
    BY <1>2 DEF Policies!CreateInsert
  <2>1. d \in Policies!Space /\ s \notin v6
    BY <1>i, <1>f, <2>0 DEF Policies!OneLife
  <2>2. Policies!PolicyTypes'
    <3>1. {v3', v4', v5'} \subseteq [PolicySessions -> Policies!Space \cup {None}]
      BY <1>f, <2>0, <2>1
    <3>2. \A u \in Updates : v7'[u].at # "idle" =>
            /\ v7'[u].s \in v6' /\ v7'[u].s \in PolicySessions /\ v7'[u].prev # None
            /\ v7'[u].at # "read" => v7'[u].fresh # None
      BY <1>i, <2>0, PolicyFields
    <3>q. QED
      BY <1>i, <2>0, <3>1, <3>2 DEF Policies!PolicyTypes
  <2>3. Policies!OneLife'
    BY <1>i, <1>f, <2>0 DEF Policies!OneLife
  <2>4. Policies!InStep'
    <3>1. \A u \in Updates : ~(v7[u].at # "idle" /\ v7[u].s = s)
      BY <1>i, <2>1, PolicyFields
    <3>2. v3'[s] = d /\ v4'[s] = d /\ \A t \in PolicySessions \ {s} : v3'[t] = v3[t] /\ v4'[t] = v4[t]
      BY <1>f, <2>0
    <3>q. QED
      BY <1>i, <2>0, <3>1, <3>2 DEF Policies!InStep, Policies!Busy
  <2>q. QED
    BY <2>2, <2>3, <2>4 DEF Policies!PolicyIInv
<1>3. CASE Policies!Delete(s)
  <2>0. /\ v4[s] # None /\ v3' = [v3 EXCEPT ![s] = None] /\ v4' = [v4 EXCEPT ![s] = None]
        /\ v5' = v5 /\ v6' = v6 /\ v1' = v1 /\ v2' = v2 /\ v7' = v7 /\ v9' = v9 \ {s}
    BY <1>3 DEF Policies!Delete
  <2>1. v3'[s] = None /\ v4'[s] = None /\ \A t \in PolicySessions \ {s} : v3'[t] = v3[t] /\ v4'[t] = v4[t]
    BY <1>f, <2>0
  <2>2. Policies!PolicyTypes'
    <3>1. {v3', v4'} \subseteq [PolicySessions -> Policies!Space \cup {None}]
      BY <1>f, <2>0
    <3>q. QED
      BY <1>i, <2>0, <3>1 DEF Policies!PolicyTypes
  <2>3. Policies!OneLife'
    BY <1>i, <2>0, <2>1 DEF Policies!OneLife
  <2>4. Policies!InStep'
    BY <1>i, <2>0, <2>1 DEF Policies!InStep, Policies!Busy
  <2>q. QED
    BY <2>2, <2>3, <2>4 DEF Policies!PolicyIInv
<1>q. QED
  BY <1>1, <1>2, <1>3

\* or one update goes a step further: its decision is made,
LEMMA DecideKeeps ==
    ASSUME Policies!PolicyIInv, Policies!PolicyData, Policies!PolicyNone, NEW u \in Updates, Policies!UpdateDecide(u)
    PROVE  Policies!PolicyIInv'
<1>i. Policies!PolicyTypes /\ Policies!OneLife /\ Policies!InStep
  BY DEF Policies!PolicyIInv
<1> PICK d \in Policies!Decisions : v7' = [v7 EXCEPT ![u].at = "decided", ![u].fresh = d]
  BY DEF Policies!UpdateDecide
<1>0. v7[u].at = "read" /\ v1' = v1 /\ v2' = v2 /\ v3' = v3 /\ v4' = v4 /\ v5' = v5 /\ v6' = v6 /\ v9' = v9
  BY DEF Policies!UpdateDecide
<1> PICK q : q = [at |-> "decided", s |-> v7[u].s, prev |-> v7[u].prev, fresh |-> d]
  OBVIOUS
<1>1. q.at = "decided" /\ q.s = v7[u].s /\ q.prev = v7[u].prev /\ q.fresh = d
  OBVIOUS
<1>2. d \in Policies!Space
  BY <1>i, DecisionsAreInSpace
<1>3. v7'[u] = q /\ \A w \in Updates \ {u} : v7'[w] = v7[w]
  <2>1. v7[u] = [at |-> v7[u].at, s |-> v7[u].s, prev |-> v7[u].prev, fresh |-> v7[u].fresh]
    BY <1>i, PolicyFields
  <2>2. v7 = [w \in Updates |-> v7[w]]
    BY <1>i, PolicyFields
  <2>q. QED
    BY <2>1, <2>2
<1>4. v7' = [w \in Updates |-> v7'[w]]
  <2>2. v7 = [w \in Updates |-> v7[w]]
    BY <1>i, PolicyFields
  <2>q. QED
    BY <2>2
<1>5. Policies!PolicyTypes'
  <2>1. \A w \in Updates : v7'[w] \in [at : {"idle", "read", "decided", "answered"}, s : PolicySessions \cup {None},
                             prev : Policies!Space \cup {None}, fresh : Policies!Space \cup {None}]
    BY <1>i, <1>1, <1>2, <1>3 DEF Policies!PolicyTypes
  <2>2. v7' \in [Updates -> [at : {"idle", "read", "decided", "answered"}, s : PolicySessions \cup {None},
                             prev : Policies!Space \cup {None}, fresh : Policies!Space \cup {None}]]
    BY <1>4, <2>1
  <2>3. \A w \in Updates : v7'[w].at # "idle" =>
          /\ v7'[w].s \in v6 /\ v7'[w].s \in PolicySessions /\ v7'[w].prev # None
          /\ v7'[w].at # "read" => v7'[w].fresh # None
    BY <1>i, <1>0, <1>1, <1>2, <1>3, PolicyFields DEF Policies!PolicyNone
  <2>q. QED
    BY <1>i, <1>0, <2>2, <2>3 DEF Policies!PolicyTypes
<1>6. Policies!OneLife'
  BY <1>i, <1>0 DEF Policies!OneLife
<1>7. Policies!InStep'
  <2>1. \A w \in Updates : /\ (v7'[w].at # "idle" <=> v7[w].at # "idle") /\ v7'[w].s = v7[w].s
                           /\ v7'[w].prev = v7[w].prev
                           /\ (v7'[w].at = "answered" <=> v7[w].at = "answered")
                           /\ v7[w].at = "answered" => v7'[w].fresh = v7[w].fresh
    BY <1>0, <1>1, <1>3
  <2>2. \A t \in PolicySessions : Policies!Busy(t)' <=> Policies!Busy(t)
    BY <2>1 DEF Policies!Busy
  <2> SUFFICES ASSUME NEW t \in PolicySessions, v4'[t] # None, t \notin v9'
               PROVE  /\ ~Policies!Busy(t)' => v4'[t] = v3'[t]
                      /\ \A w \in Updates : v7'[w].at # "idle" /\ v7'[w].s = t =>
                           /\ v7'[w].prev = v4'[t]
                           /\ v3'[t] = IF v7'[w].at = "answered" THEN v7'[w].fresh ELSE v4'[t]
                           /\ \A x \in Updates : v7'[x].at # "idle" /\ v7'[x].s = t => x = w
    BY DEF Policies!InStep
  <2>0. v4[t] # None /\ t \notin v9
    BY <1>0
  <2>3. ~Policies!Busy(t)' => v4[t] = v3[t]
    BY <1>i, <2>0, <2>2 DEF Policies!InStep
  <2>4. \A w \in Updates : v7[w].at # "idle" /\ v7[w].s = t =>
          /\ v7[w].prev = v4[t]
          /\ v3[t] = IF v7[w].at = "answered" THEN v7[w].fresh ELSE v4[t]
          /\ \A x \in Updates : v7[x].at # "idle" /\ v7[x].s = t => x = w
    BY <1>i, <2>0 DEF Policies!InStep
  <2>5. ASSUME NEW w \in Updates, v7'[w].at # "idle", v7'[w].s = t
        PROVE  /\ v7'[w].prev = v4[t]
               /\ v3[t] = IF v7'[w].at = "answered" THEN v7'[w].fresh ELSE v4[t]
               /\ \A x \in Updates : v7'[x].at # "idle" /\ v7'[x].s = t => x = w
    <3>1. v7[w].prev = v4[t] /\ \A x \in Updates : v7[x].at # "idle" /\ v7[x].s = t => x = w
      BY <2>1, <2>4, <2>5
    <3>2. v3[t] = IF v7[w].at = "answered" THEN v7[w].fresh ELSE v4[t]
      BY <2>1, <2>4, <2>5
    <3>3. v3[t] = IF v7'[w].at = "answered" THEN v7'[w].fresh ELSE v4[t]
      BY <2>1, <3>2, w \in Updates
    <3>q. QED
      BY <2>1, <3>1, <3>3
  <2>q. QED
    BY <1>0, <2>3, <2>5
<1>q. QED
  BY <1>5, <1>6, <1>7 DEF Policies!PolicyIInv

\* it is put on record,
LEMMA StoreKeeps ==
    ASSUME Policies!PolicyIInv, Policies!PolicyNone, NEW u \in Updates, Policies!UpdateStore(u)
    PROVE  Policies!PolicyIInv'
<1>i. Policies!PolicyTypes /\ Policies!OneLife /\ Policies!InStep
  BY DEF Policies!PolicyIInv
<1> PICK s : s = v7[u].s
  OBVIOUS
<1> PICK d : d = v7[u].fresh
  OBVIOUS
<1> PICK n : n = IF v3[s] = None THEN None ELSE d
  OBVIOUS
<1>0. /\ v7[u].at = "decided" /\ v3' = [v3 EXCEPT ![s] = n] /\ v7' = [v7 EXCEPT ![u].at = "answered"]
      /\ v1' = v1 /\ v2' = v2 /\ v4' = v4 /\ v5' = v5 /\ v6' = v6 /\ v9' = v9
  BY DEF Policies!UpdateStore
<1> PICK q : q = [at |-> "answered", s |-> s, prev |-> v7[u].prev, fresh |-> d]
  OBVIOUS
<1>1. q.at = "answered" /\ q.s = s /\ q.prev = v7[u].prev /\ q.fresh = d
  OBVIOUS
<1>2. s \in PolicySessions /\ s \in v6 /\ d \in Policies!Space
  BY <1>i, <1>0, PolicyFields
<1>3. v7'[u] = q /\ \A w \in Updates \ {u} : v7'[w] = v7[w]
  <2>1. v7[u] = [at |-> v7[u].at, s |-> v7[u].s, prev |-> v7[u].prev, fresh |-> v7[u].fresh]
    BY <1>i, PolicyFields
  <2>2. v7 = [w \in Updates |-> v7[w]]
    BY <1>i, PolicyFields
  <2>q. QED
    BY <1>0, <2>1, <2>2
<1>4. v7' = [w \in Updates |-> v7'[w]]
  <2>2. v7 = [w \in Updates |-> v7[w]]
    BY <1>i, PolicyFields
  <2>q. QED
    BY <1>0, <2>2
<1>a. v3'[s] = n /\ \A t \in PolicySessions \ {s} : v3'[t] = v3[t]
  BY <1>i, <1>0, <1>2, PolicyFields
<1>5. Policies!PolicyTypes'
  <2>1. \A w \in Updates : v7'[w] \in [at : {"idle", "read", "decided", "answered"}, s : PolicySessions \cup {None},
                             prev : Policies!Space \cup {None}, fresh : Policies!Space \cup {None}]
    BY <1>i, <1>1, <1>2, <1>3, PolicyFields DEF Policies!PolicyTypes
  <2>2. v7' \in [Updates -> [at : {"idle", "read", "decided", "answered"}, s : PolicySessions \cup {None},
                             prev : Policies!Space \cup {None}, fresh : Policies!Space \cup {None}]]
    BY <1>4, <2>1
  <2>3. \A w \in Updates : v7'[w].at # "idle" =>
          /\ v7'[w].s \in v6 /\ v7'[w].s \in PolicySessions /\ v7'[w].prev # None
          /\ v7'[w].at # "read" => v7'[w].fresh # None
    BY <1>i, <1>0, <1>1, <1>2, <1>3, PolicyFields DEF Policies!PolicyNone
  <2>4. v3' \in [PolicySessions -> Policies!Space \cup {None}]
    BY <1>i, <1>0, <1>2, PolicyFields
  <2>q. QED
    BY <1>i, <1>0, <2>2, <2>3, <2>4 DEF Policies!PolicyTypes
<1>6. Policies!OneLife'
  BY <1>i, <1>0, <1>a DEF Policies!OneLife
<1>7. Policies!InStep'
  <2> SUFFICES ASSUME NEW t \in PolicySessions, v4'[t] # None, t \notin v9'
               PROVE  /\ ~Policies!Busy(t)' => v4'[t] = v3'[t]
                      /\ \A w \in Updates : v7'[w].at # "idle" /\ v7'[w].s = t =>
                           /\ v7'[w].prev = v4'[t]
                           /\ v3'[t] = IF v7'[w].at = "answered" THEN v7'[w].fresh ELSE v4'[t]
                           /\ \A x \in Updates : v7'[x].at # "idle" /\ v7'[x].s = t => x = w
    BY DEF Policies!InStep
  <2>0. v4[t] # None /\ t \notin v9
    BY <1>0
  <2>4. /\ ~Policies!Busy(t) => v4[t] = v3[t]
        /\ \A w \in Updates : v7[w].at # "idle" /\ v7[w].s = t =>
             /\ v7[w].prev = v4[t]
             /\ v3[t] = IF v7[w].at = "answered" THEN v7[w].fresh ELSE v4[t]
             /\ \A x \in Updates : v7[x].at # "idle" /\ v7[x].s = t => x = w
    BY <1>i, <2>0 DEF Policies!InStep
  <2>5. CASE t = s
    <3>1. v7[u].prev = v4[s] /\ v3[s] = v4[s] /\ \A x \in Updates : v7[x].at # "idle" /\ v7[x].s = s => x = u
      BY <1>0, <2>4, <2>5
    <3>2. v3'[s] = d
      BY <1>a, <2>0, <2>5, <3>1
    <3>3. \A x \in Updates : v7'[x].at # "idle" /\ v7'[x].s = s => x = u
      BY <1>3, <3>1
    <3>4. Policies!Busy(s)'
      BY <1>1, <1>3 DEF Policies!Busy
    <3>q. QED
      BY <1>0, <1>1, <1>3, <2>5, <3>1, <3>2, <3>3, <3>4
  <2>6. CASE t # s
    <3>1. \A w \in Updates : v7'[w].at # "idle" /\ v7'[w].s = t => v7'[w] = v7[w] /\ w # u
      BY <1>1, <1>3, <2>6
    <3>2. \A w \in Updates : v7[w].at # "idle" /\ v7[w].s = t => v7'[w] = v7[w]
      BY <1>3, <2>6
    <3>3. Policies!Busy(t)' <=> Policies!Busy(t)
      BY <3>1, <3>2 DEF Policies!Busy
    <3>4. v3'[t] = v3[t] /\ v4'[t] = v4[t]
      BY <1>0, <1>a, <2>6
    <3>5. ASSUME NEW w \in Updates, v7'[w].at # "idle", v7'[w].s = t
          PROVE  /\ v7'[w].prev = v4[t]
                 /\ v3[t] = IF v7'[w].at = "answered" THEN v7'[w].fresh ELSE v4[t]
                 /\ \A x \in Updates : v7'[x].at # "idle" /\ v7'[x].s = t => x = w
      <4>1. v7'[w] = v7[w]
        BY <3>1, <3>5
      <4>2. v7[w].at # "idle" /\ v7[w].s = t
        BY <3>5, <4>1
      <4>3. v7[w].prev = v4[t] /\ v3[t] = (IF v7[w].at = "answered" THEN v7[w].fresh ELSE v4[t])
        BY <2>4, <4>2
      <4>4. \A x \in Updates : v7[x].at # "idle" /\ v7[x].s = t => x = w
        BY <2>4, <4>2
      <4>q. QED
        BY <3>1, <4>1, <4>3, <4>4
    <3>q. QED
      BY <2>4, <3>3, <3>4, <3>5
  <2>q. QED
    BY <2>5, <2>6
<1>q. QED
  BY <1>5, <1>6, <1>7 DEF Policies!PolicyIInv

\* and its answer is taken or lost: the SMF has the decision on record again, or the session is unsettled.
LEMMA AnswerKeeps ==
    ASSUME Policies!PolicyIInv, Policies!PolicyNone, NEW u \in Updates,
           Policies!UpdateApply(u) \/ Policies!UpdateLost(u)
    PROVE  Policies!PolicyIInv'
<1>i. Policies!PolicyTypes /\ Policies!OneLife /\ Policies!InStep
  BY DEF Policies!PolicyIInv
<1> PICK s : s = v7[u].s
  OBVIOUS
<1> PICK d : d = v7[u].fresh
  OBVIOUS
<1> PICK p : p = v7[u].prev
  OBVIOUS
<1> PICK n : n = IF v4[s] = None THEN None ELSE Policies!ApplyKeyed(v4[s], Policies!DiffKeyed(p, d))
  OBVIOUS
<1>0. /\ v7[u].at = "answered" /\ v7' = [v7 EXCEPT ![u] = Policies!Idle]
      /\ v1' = v1 /\ v2' = v2 /\ v3' = v3 /\ v5' = v5 /\ v6' = v6
      /\ \/ v4' = [v4 EXCEPT ![s] = n] /\ v9' = v9
         \/ v4' = v4 /\ v9' = v9 \cup {s}
  BY DEF Policies!UpdateApply, Policies!UpdateLost
<1>2. s \in PolicySessions /\ s \in v6 /\ d \in Policies!Space /\ p \in Policies!Space
  BY <1>i, <1>0, PolicyFields
<1>3. v7'[u].at = "idle" /\ \A w \in Updates \ {u} : v7'[w] = v7[w]
  <2>2. v7 = [w \in Updates |-> v7[w]]
    BY <1>i, PolicyFields
  <2>q. QED
    BY <1>0, <2>2 DEF Policies!Idle
<1>n. n \in Policies!Space \cup {None} /\ (v4[s] = None <=> n = None)
  <2>1. v4[s] # None => v4[s] \in Policies!Space
    BY <1>i, <1>2, PolicyFields
  <2>q. QED
    BY <1>2, <2>1, UpdateKeepsSpace DEF Policies!PolicyNone
<1>a. /\ v4' \in [PolicySessions -> Policies!Space \cup {None}]
      /\ \A t \in PolicySessions \ {s} : v4'[t] = v4[t]
      /\ v4'[s] = n \/ s \in v9'
      /\ \A t \in PolicySessions : v4'[t] = None <=> v4[t] = None
  <2>1. v4 \in [PolicySessions -> Policies!Space \cup {None}]
    BY <1>i, PolicyFields
  <2>2. CASE v4' = [v4 EXCEPT ![s] = n]
    BY <1>2, <1>n, <2>1, <2>2
  <2>3. CASE v4' = v4 /\ v9' = v9 \cup {s}
    BY <2>1, <2>3
  <2>q. QED
    BY <1>0, <2>2, <2>3
<1>5. Policies!PolicyTypes'
  <2>2. v7' \in [Updates -> [at : {"idle", "read", "decided", "answered"}, s : PolicySessions \cup {None},
                             prev : Policies!Space \cup {None}, fresh : Policies!Space \cup {None}]]
    BY <1>i, <1>0 DEF Policies!PolicyTypes, Policies!Idle
  <2>3. \A w \in Updates : v7'[w].at # "idle" =>
          /\ v7'[w].s \in v6 /\ v7'[w].s \in PolicySessions /\ v7'[w].prev # None
          /\ v7'[w].at # "read" => v7'[w].fresh # None
    BY <1>i, <1>0, <1>3, PolicyFields
  <2>q. QED
    BY <1>i, <1>0, <1>a, <2>2, <2>3 DEF Policies!PolicyTypes
<1>6. Policies!OneLife'
  BY <1>i, <1>0, <1>a DEF Policies!OneLife
<1>7. Policies!InStep'
  <2> SUFFICES ASSUME NEW t \in PolicySessions, v4'[t] # None, t \notin v9'
               PROVE  /\ ~Policies!Busy(t)' => v4'[t] = v3'[t]
                      /\ \A w \in Updates : v7'[w].at # "idle" /\ v7'[w].s = t =>
                           /\ v7'[w].prev = v4'[t]
                           /\ v3'[t] = IF v7'[w].at = "answered" THEN v7'[w].fresh ELSE v4'[t]
                           /\ \A x \in Updates : v7'[x].at # "idle" /\ v7'[x].s = t => x = w
    BY DEF Policies!InStep
  <2>0. v4[t] # None /\ t \notin v9
    BY <1>0, <1>a
  <2>4. /\ ~Policies!Busy(t) => v4[t] = v3[t]
        /\ \A w \in Updates : v7[w].at # "idle" /\ v7[w].s = t =>
             /\ v7[w].prev = v4[t]
             /\ v3[t] = IF v7[w].at = "answered" THEN v7[w].fresh ELSE v4[t]
             /\ \A x \in Updates : v7[x].at # "idle" /\ v7[x].s = t => x = w
    BY <1>i, <2>0 DEF Policies!InStep
  <2>5. CASE t = s
    <3>1. p = v4[s] /\ v3[s] = d /\ \A x \in Updates : v7[x].at # "idle" /\ v7[x].s = s => x = u
      BY <1>0, <2>4, <2>5
    <3>2. v4'[s] = d
      <4>1. v4'[s] = n
        BY <1>a, <2>5
      <4>2. n = Policies!ApplyKeyed(p, Policies!DiffKeyed(p, d))
        BY <2>0, <2>5, <3>1
      <4>q. QED
        BY <1>2, <4>1, <4>2, UpdateBringsNext
    <3>3. \A x \in Updates : ~(v7'[x].at # "idle" /\ v7'[x].s = s)
      BY <1>3, <3>1
    <3>q. QED
      BY <1>0, <2>5, <3>1, <3>2, <3>3
  <2>6. CASE t # s
    <3>1. \A w \in Updates : v7'[w].at # "idle" /\ v7'[w].s = t => v7'[w] = v7[w] /\ w # u
      BY <1>3, <2>6
    <3>2. \A w \in Updates : v7[w].at # "idle" /\ v7[w].s = t => v7'[w] = v7[w]
      BY <1>3, <2>6
    <3>3. Policies!Busy(t)' <=> Policies!Busy(t)
      BY <3>1, <3>2 DEF Policies!Busy
    <3>4. v3'[t] = v3[t] /\ v4'[t] = v4[t]
      BY <1>0, <1>a, <2>6
    <3>5. ASSUME NEW w \in Updates, v7'[w].at # "idle", v7'[w].s = t
          PROVE  /\ v7'[w].prev = v4[t]
                 /\ v3[t] = IF v7'[w].at = "answered" THEN v7'[w].fresh ELSE v4[t]
                 /\ \A x \in Updates : v7'[x].at # "idle" /\ v7'[x].s = t => x = w
      <4>1. v7'[w] = v7[w]
        BY <3>1, <3>5
      <4>2. v7[w].at # "idle" /\ v7[w].s = t
        BY <3>5, <4>1
      <4>3. v7[w].prev = v4[t] /\ v3[t] = (IF v7[w].at = "answered" THEN v7[w].fresh ELSE v4[t])
        BY <2>4, <4>2
      <4>4. \A x \in Updates : v7[x].at # "idle" /\ v7[x].s = t => x = w
        BY <2>4, <4>2
      <4>q. QED
        BY <3>1, <4>1, <4>3, <4>4
    <3>q. QED
      BY <2>4, <3>3, <3>4, <3>5
  <2>q. QED
    BY <2>5, <2>6
<1>q. QED
  BY <1>5, <1>6, <1>7 DEF Policies!PolicyIInv

\* Every step keeps the invariant, which says of the settled sessions that both sides agree.
LEMMA PolicyStep ==
    ASSUME Policies!PolicyIInv, Policies!PolicyData, Policies!PolicyNone, Policies!Next
    PROVE  Policies!PolicyIInv'
<1>i. v1 \in PolicyDocs /\ v2 \subseteq Influences
  BY DEF Policies!PolicyIInv, Policies!PolicyTypes
<1>1. CASE Policies!Provision
  BY <1>i, <1>1, SameDecisions DEF Policies!Provision
<1>2. ASSUME NEW s \in PolicySessions, Policies!CreateDecide(s) \/ Policies!CreateInsert(s) \/ Policies!Delete(s)
      PROVE  Policies!PolicyIInv'
  BY <1>2, AssociationKeeps
<1>3. ASSUME NEW u \in Updates, NEW s \in PolicySessions, Policies!Refresh(u, s)
      PROVE  Policies!PolicyIInv'
  BY <1>3, BeginsKeeps DEF Policies!Refresh
<1>4. ASSUME NEW u \in Updates, Policies!UpdateDecide(u)
      PROVE  Policies!PolicyIInv'
  BY <1>4, DecideKeeps
<1>5. ASSUME NEW u \in Updates, Policies!UpdateStore(u)
      PROVE  Policies!PolicyIInv'
  BY <1>5, StoreKeeps
<1>6. ASSUME NEW u \in Updates, Policies!UpdateApply(u) \/ Policies!UpdateLost(u)
      PROVE  Policies!PolicyIInv'
  BY <1>6, AnswerKeeps
<1>7. ASSUME NEW i \in Influences, Policies!AfCreate(i) \/ Policies!AfDelete(i) \/ Policies!AfAnswer(i)
      PROVE  Policies!PolicyIInv'
  BY <1>i, <1>7, SameDecisions DEF Policies!AfCreate, Policies!AfDelete, Policies!AfAnswer
<1>8. ASSUME NEW i \in Influences, Policies!AfNotify(i)
      PROVE  Policies!PolicyIInv'
  <2>0. v1' = v1 /\ v2' = v2 /\ v3' = v3 /\ v4' = v4 /\ v5' = v5 /\ v6' = v6
    BY <1>8 DEF Policies!AfNotify
  <2>1. CASE \E s \in PolicySessions, u \in Updates : Policies!Begins(u, s)
    BY <2>0, <2>1, BeginsKeeps
  <2>2. CASE v7' = v7 /\ v9' = v9
    BY <1>i, <2>0, <2>2, SameDecisions
  <2>q. QED
    BY <1>8, <2>1, <2>2 DEF Policies!AfNotify
<1>q. QED
  BY <1>1, <1>2, <1>3, <1>4, <1>5, <1>6, <1>7, <1>8 DEF Policies!Next

LEMMA PolicyAgreed ==
    ASSUME Policies!PolicyIInv
    PROVE  Policies!MergedIsOnRecord /\ Policies!DeletedStaysDeleted
<1>1. Policies!MergedIsOnRecord
  BY DEF Policies!PolicyIInv, Policies!InStep, Policies!MergedIsOnRecord
<1>2. Policies!DeletedStaysDeleted
  BY DEF Policies!PolicyIInv, Policies!OneLife, Policies!DeletedStaysDeleted
<1>q. QED
  BY <1>1, <1>2

-----------------------------------------------------------------------------
(* Charging: v1 is upf, v2 queue, v4 task, v6 sent, v7 cdr, v8 carried *)

\* What is given up frees what follows: requests taken from the middle stay in order.
LEMMA Removed ==
    ASSUME NEW S, NEW s \in Seq(S), NEW i \in DOMAIN s
    PROVE  /\ Charged!Without(s, i) \in Seq(S)
           /\ \A j \in DOMAIN Charged!Without(s, i) :
                \E k \in DOMAIN s \ {i} : Charged!Without(s, i)[j] = s[k]
           /\ \A j, l \in DOMAIN Charged!Without(s, i) : j # l =>
                \E k, m \in DOMAIN s \ {i} : k # m /\ Charged!Without(s, i)[j] = s[k] /\ Charged!Without(s, i)[l] = s[m]
<1>1. PICK x : x = SubSeq(s, 1, i-1)
  OBVIOUS
<1>2. PICK y : y = SubSeq(s, i+1, Len(s))
  OBVIOUS
<1>3. PICK t : t = Charged!Without(s, i)
  OBVIOUS
<1>4. x \in Seq(S) /\ Len(x) = i-1 /\ \A j \in 1..i-1 : x[j] = s[j]
  BY <1>1
<1>5. y \in Seq(S) /\ Len(y) = Len(s) - i /\ \A j \in 1..Len(s)-i : y[j] = s[i+j]
  BY <1>2
<1>6. t = x \o y
  BY <1>1, <1>2, <1>3 DEF Charged!Without
<1>7. t \in Seq(S) /\ Len(t) = Len(s) - 1 /\ DOMAIN t = 1..Len(s)-1
  BY <1>4, <1>5, <1>6
<1>8. \A j \in 1..Len(s)-1 : t[j] = s[IF j < i THEN j ELSE j+1]
  BY <1>4, <1>5, <1>6
<1>9. \A j \in 1..Len(s)-1 : (IF j < i THEN j ELSE j+1) \in DOMAIN s \ {i}
  OBVIOUS
<1>10. \A j, l \in 1..Len(s)-1 : j # l =>
         \E k, m \in DOMAIN s \ {i} : k # m /\ t[j] = s[k] /\ t[l] = s[m]
  <2> SUFFICES ASSUME NEW j \in 1..Len(s)-1, NEW l \in 1..Len(s)-1, j # l
               PROVE  \E k, m \in DOMAIN s \ {i} : k # m /\ t[j] = s[k] /\ t[l] = s[m]
    OBVIOUS
  <2>1. (IF j < i THEN j ELSE j+1) # (IF l < i THEN l ELSE l+1)
    OBVIOUS
  <2>q. QED
    BY <1>8, <1>9, <2>1
<1>11. \A j \in DOMAIN t : \E k \in DOMAIN s \ {i} : t[j] = s[k]
  BY <1>7, <1>8, <1>9
<1>12. \A j, l \in DOMAIN t : j # l => \E k, m \in DOMAIN s \ {i} : k # m /\ t[j] = s[k] /\ t[l] = s[m]
  BY <1>7, <1>10
<1>q. QED
  BY <1>3, <1>7, <1>11, <1>12

\* What two usages come to.
LEMMA Added ==
    ASSUME NEW u \in [{0, 1} -> Nat], NEW w \in [{0, 1} -> Nat]
    PROVE  /\ Charged!Plus(u, w) \in [{0, 1} -> Nat]
           /\ Charged!Plus(u, w)[0] = u[0] + w[0] /\ Charged!Plus(u, w)[1] = u[1] + w[1]
<1>1. u[0] \in Nat /\ u[1] \in Nat /\ w[0] \in Nat /\ w[1] \in Nat
  OBVIOUS
<1>2. u[0] + w[0] \in Nat /\ u[1] + w[1] \in Nat
  BY <1>1
<1>3. \A g \in {0, 1} : u[g] + w[g] \in Nat
  BY <1>2
<1>q. QED
  BY <1>3 DEF Charged!Plus, Charged!Groups

\* At first nothing was carried.
LEMMA ChargingInit == Charged!Init => Charged!ChargingIInv
<1> SUFFICES ASSUME Charged!Init PROVE Charged!ChargingIInv  OBVIOUS
<1>1. PICK r \in [0..Len(v2) -> Nat] : r = [i \in 0..0 |-> 0]
  BY DEF Charged!Init
<1>2. Charged!RunsUp(r)
  BY <1>1 DEF Charged!Init, Charged!RunsUp, Charged!InHand, Charged!FinalUsage, Charged!Nothing, Charged!Groups
<1>3. Charged!ChargingTypes /\ Charged!OneFinal
  BY DEF Charged!Init, Charged!ChargingTypes, Charged!OneFinal, Charged!Nothing, Charged!Groups, Charged!Stages
<1>q. QED
  BY <1>2, <1>3 DEF Charged!ChargingIInv

\* What every step needs of the types.
LEMMA ChargingFacts ==
    ASSUME Charged!ChargingTypes
    PROVE  /\ v1.live \in BOOLEAN /\ v1.bytes \in Nat /\ v1.reported \in Nat /\ v1.flow \in Nat
           /\ v1.reported <= v1.bytes
           /\ Charged!FinalUsage \in [{0, 1} -> Nat]
           /\ Charged!FinalUsage[0] = IF v1.live THEN v1.bytes - v1.reported ELSE 0
           /\ Charged!FinalUsage[1] = IF v1.live THEN v1.flow ELSE 0
           /\ v4.vol \in Nat /\ Charged!InHand \in Nat /\ v7.usage \in [{0, 1} -> Nat] /\ Charged!Groups = {0, 1}
           /\ v7.released \in BOOLEAN
           /\ Charged!Nothing \in [{0, 1} -> Nat] /\ Charged!Nothing[0] = 0 /\ Charged!Nothing[1] = 0
           /\ ~v1.live => Charged!FinalUsage = Charged!Nothing
BY DEF Charged!ChargingTypes, Charged!FinalUsage, Charged!InHand, Charged!Groups, Charged!Nothing

LEMMA ChargingStep ==
    ASSUME Charged!ChargingAssumption, Charged!ChargingIInv, [Charged!Next]_(Charged!vars)
    PROVE  Charged!ChargingIInv'
<1> PICK r \in [0..Len(v2) -> Nat] : Charged!RunsUp(r)
  BY DEF Charged!ChargingIInv
<1>0. Charged!ChargingTypes /\ Charged!OneFinal
  BY DEF Charged!ChargingIInv
<1>t. v2 \in Seq(Nat) /\ v6 \in Seq([{0, 1} -> Nat]) /\ v8 \in [{0, 1} -> Nat] /\ Len(v2) \in Nat
  BY <1>0 DEF Charged!ChargingTypes, Charged!Groups
<1>f. /\ v1.live \in BOOLEAN /\ v1.bytes \in Nat /\ v1.reported \in Nat /\ v1.flow \in Nat
      /\ v1.reported <= v1.bytes
      /\ Charged!FinalUsage \in [{0, 1} -> Nat]
      /\ Charged!FinalUsage[0] = IF v1.live THEN v1.bytes - v1.reported ELSE 0
      /\ Charged!FinalUsage[1] = IF v1.live THEN v1.flow ELSE 0
      /\ v4.vol \in Nat /\ Charged!InHand \in Nat /\ v7.usage \in [{0, 1} -> Nat] /\ Charged!Groups = {0, 1}
      /\ v7.released \in BOOLEAN
      /\ Charged!Nothing \in [{0, 1} -> Nat] /\ Charged!Nothing[0] = 0 /\ Charged!Nothing[1] = 0
      /\ ~v1.live => Charged!FinalUsage = Charged!Nothing
  BY <1>0, ChargingFacts
<1>r. /\ v7.usage[0] + Charged!InHand <= r[0]
      /\ \A i \in DOMAIN v6 : v7.usage[0] + Charged!InHand + v6[i][0] <= r[0]
      /\ \A i \in 1..Len(v2) : r[i-1] + v2[i] <= r[i]
      /\ \A i \in 0..Len(v2) : r[i] + Charged!FinalUsage[0] <= v8[0]
  BY DEF Charged!RunsUp
<1>n. /\ \A i \in 0..Len(v2) : r[i] \in Nat
      /\ v8[0] \in Nat /\ v8[1] \in Nat /\ v7.usage[0] \in Nat /\ v7.usage[1] \in Nat
      /\ \A i \in DOMAIN v6 : v6[i][0] \in Nat /\ v6[i][1] \in Nat
      /\ \A i \in 1..Len(v2) : v2[i] \in Nat
  <2>1. \A i \in 0..Len(v2) : r[i] \in Nat
    OBVIOUS
  <2>2. v8[0] \in Nat /\ v8[1] \in Nat
    BY <1>t
  <2>3. v7.usage[0] \in Nat /\ v7.usage[1] \in Nat
    BY <1>f
  <2>4. \A i \in DOMAIN v6 : v6[i] \in [{0, 1} -> Nat]
    BY <1>t
  <2>5. \A i \in 1..Len(v2) : v2[i] \in Nat
    BY <1>t
  <2>q. QED
    BY <2>1, <2>2, <2>3, <2>4, <2>5
<1>1. CASE Charged!ReportUsage
  <2> PICK d : d = v1.bytes - v1.reported
    OBVIOUS
  <2>d. d \in Nat
    BY <1>f
  <2>e. v1' = [v1 EXCEPT !.reported = v1.bytes]
    BY <1>1 DEF Charged!ReportUsage
  <2>1. v4' = v4 /\ v6' = v6 /\ v7' = v7 /\ v8' = v8 /\ v1.live = TRUE
    BY <1>1 DEF Charged!ReportUsage
  <2>s. v2' = v2 \/ v2' = Append(v2, d)
    BY <1>1 DEF Charged!ReportUsage
  <2>2. v1'.reported = v1.bytes /\ v1'.bytes = v1.bytes /\ v1'.live = TRUE /\ v1'.flow = v1.flow
    BY <1>0, <2>1, <2>e DEF Charged!ChargingTypes
  <2>3. Charged!ChargingTypes'
    <3>1. v1' \in [live : BOOLEAN, bytes : Nat, reported : Nat, flow : Nat]
      BY <1>0, <1>f, <2>e DEF Charged!ChargingTypes
    <3>2. v2' \in Seq(Nat)
      <4>1. CASE v2' = v2
        BY <1>t, <4>1
      <4>2. CASE v2' = Append(v2, d)
        BY <1>t, <2>d, <4>2
      <4>q. QED
        BY <2>s, <4>1, <4>2
    <3>q. QED
      BY <1>0, <2>1, <2>2, <3>1, <3>2 DEF Charged!ChargingTypes
  <2>o. Charged!OneFinal'
    BY <1>0, <2>1, <2>2 DEF Charged!OneFinal
  <2>4. Charged!InHand' = Charged!InHand
    BY <2>1 DEF Charged!InHand
  <2>5. Charged!FinalUsage'[0] = 0
    <3>1. Charged!FinalUsage'[0] = v1'.bytes - v1'.reported
      BY <2>2 DEF Charged!FinalUsage, Charged!Groups
    <3>q. QED
      BY <1>f, <2>2, <3>1
  <2>6. CASE v2' = v2
    <3>1. Charged!FinalUsage[0] \in Nat
      BY <1>f
    <3>2. \A i \in 0..Len(v2) : r[i] + 0 <= v8[0]
      BY <1>r, <1>n, <3>1
    <3>3. Charged!RunsUp(r)'
      BY <1>r, <2>1, <2>4, <2>5, <2>6, <3>2 DEF Charged!RunsUp
    <3>q. QED
      BY <2>3, <2>o, <2>6, <3>3 DEF Charged!ChargingIInv
  <2>7. CASE v2' = Append(v2, d)
    <3>2. PICK q : q = [i \in 0..Len(v2)+1 |-> IF i <= Len(v2) THEN r[i] ELSE r[Len(v2)] + d]
      OBVIOUS
    <3>3. Len(v2') = Len(v2) + 1 /\ \A i \in 1..Len(v2)+1 : v2'[i] = IF i <= Len(v2) THEN v2[i] ELSE d
      BY <1>t, <2>7, <2>d
    <3>n. r[Len(v2)] \in Nat /\ r[Len(v2)] + d \in Nat /\ Len(v2)+1 \in Nat /\ 0 <= Len(v2)
      BY <1>n, <1>t, <2>d
    <3>4. /\ q[Len(v2)+1] = r[Len(v2)] + d /\ \A i \in 0..Len(v2) : q[i] = r[i]
          /\ \A i \in 0..Len(v2)+1 : q[i] \in Nat
      BY <1>n, <1>t, <3>n, <3>2
    <3>5. q \in [0..Len(v2') -> Nat]
      BY <3>2, <3>3, <3>4
    <3>6. \A i \in 1..Len(v2)+1 : q[i-1] + v2'[i] <= q[i]
      <4> TAKE i \in 1..Len(v2)+1
      <4>1. CASE i \in 1..Len(v2)
        <5>1. q[i-1] = r[i-1] /\ q[i] = r[i] /\ v2'[i] = v2[i]
          BY <1>t, <3>3, <3>4, <4>1
        <5>q. QED
          BY <1>r, <4>1, <5>1
      <4>2. CASE i = Len(v2)+1
        <5>1. q[i-1] = r[Len(v2)] /\ q[i] = r[Len(v2)] + d /\ v2'[i] = d
          BY <1>t, <3>3, <3>4, <4>2
        <5>q. QED
          BY <3>n, <2>d, <5>1
      <4>q. QED
        BY <1>t, <4>1, <4>2
    <3>7. \A i \in 0..Len(v2)+1 : q[i] + 0 <= v8[0]
      <4>1. \A i \in 0..Len(v2) : r[i] + d <= v8[0]
        BY <1>r, <1>f, <2>1
      <4>2. \A i \in 0..Len(v2) : r[i] + 0 <= v8[0]
        BY <1>n, <2>d, <4>1
      <4>3. Len(v2) \in 0..Len(v2) /\ \A i \in 0..Len(v2)+1 : i \in 0..Len(v2) \/ i = Len(v2)+1
        BY <1>t
      <4>q. QED
        BY <3>n, <3>4, <4>1, <4>2, <4>3
    <3>8. q[0] = r[0]
      BY <3>4, <3>n, <1>t
    <3>9. Charged!RunsUp(q)'
      BY <1>r, <2>1, <2>4, <2>5, <3>3, <3>6, <3>7, <3>8 DEF Charged!RunsUp
    <3>q. QED
      BY <2>3, <2>o, <3>5, <3>9 DEF Charged!ChargingIInv
  <2>q. QED
    BY <2>s, <2>6, <2>7
<1>2. CASE \E g \in Charged!Groups : Charged!Carry(g)
  <2> PICK g \in {0, 1} : Charged!Carry(g)
    BY <1>2, <1>f
  <2>1. v2' = v2 /\ v4' = v4 /\ v6' = v6 /\ v7' = v7 /\ v1.live = TRUE
    BY <1>f DEF Charged!Carry
  <2>e. v8' = [v8 EXCEPT ![g] = v8[g] + 1]
    BY <1>f DEF Charged!Carry
  <2>f. v1' = IF g = 0 THEN [v1 EXCEPT !.bytes = v1.bytes + 1] ELSE [v1 EXCEPT !.flow = v1.flow + 1]
    BY <1>f DEF Charged!Carry
  <2>g. v1 \in [live : BOOLEAN, bytes : Nat, reported : Nat, flow : Nat]
    BY <1>0 DEF Charged!ChargingTypes
  <2>2. /\ v1'.reported = v1.reported /\ v1'.live = TRUE
        /\ v1'.bytes = v1.bytes + (IF g = 0 THEN 1 ELSE 0) /\ v1'.flow = v1.flow + (IF g = 1 THEN 1 ELSE 0)
    BY <1>f, <2>1, <2>f, <2>g
  <2>3. v8'[0] = v8[0] + (IF g = 0 THEN 1 ELSE 0) /\ v8'[1] = v8[1] + (IF g = 1 THEN 1 ELSE 0)
    BY <1>t, <1>n, <2>e
  <2>4. Charged!ChargingTypes'
    <3>1. v1' \in [live : BOOLEAN, bytes : Nat, reported : Nat, flow : Nat]
      <4>1. v1.bytes + 1 \in Nat /\ v1.flow + 1 \in Nat
        BY <1>f
      <4>q. QED
        BY <2>f, <2>g, <4>1
    <3>2. v8' \in [{0, 1} -> Nat]
      <4>1. v8[g] + 1 \in Nat
        BY <1>n
      <4>q. QED
        BY <1>t, <2>e, <4>1
    <3>3. v1'.reported <= v1'.bytes
      BY <1>f, <2>2
    <3>q. QED
      BY <1>0, <1>f, <2>1, <3>1, <3>2, <3>3 DEF Charged!ChargingTypes, Charged!Groups
  <2>5. Charged!OneFinal'
    <3>1. v7.usage[1] = 0 /\ v1.flow <= v8[1] /\ \A i \in DOMAIN v6 : v6[i] = Charged!Nothing
      BY <1>0, <2>1 DEF Charged!OneFinal
    <3>2. v1'.flow <= v8'[1] /\ v7.usage[1] <= v8'[1]
      BY <1>f, <1>n, <2>2, <2>3, <3>1
    <3>3. \A i \in DOMAIN v6 : v7.usage[1] + v6[i][1] <= v8'[1]
      BY <1>f, <1>n, <3>1, <3>2
    <3>q. QED
      BY <2>1, <2>2, <3>1, <3>2, <3>3 DEF Charged!OneFinal, Charged!Nothing, Charged!Groups
  <2>6. Charged!InHand' = Charged!InHand
    BY <2>1 DEF Charged!InHand
  <2>7. Charged!FinalUsage'[0] = v1'.bytes - v1'.reported
    BY <2>2 DEF Charged!FinalUsage, Charged!Groups
  <2>8. \A i \in 0..Len(v2) : r[i] + Charged!FinalUsage'[0] <= v8'[0]
    <3>1. \A i \in 0..Len(v2) : r[i] \in Nat
      BY <1>n
    <3>2. \A i \in 0..Len(v2) : r[i] + (v1.bytes - v1.reported) <= v8[0]
      BY <1>r, <1>f, <2>1
    <3>3. PICK e \in {0, 1} : e = IF g = 0 THEN 1 ELSE 0
      OBVIOUS
    <3>4. v1'.bytes = v1.bytes + e /\ v1'.reported = v1.reported /\ v8'[0] = v8[0] + e
      BY <2>2, <2>3, <3>3
    <3>5. v1.bytes \in Nat /\ v1.reported \in Nat /\ v8[0] \in Nat
      BY <1>f, <1>n
    <3>q. QED
      BY <2>7, <3>1, <3>2, <3>4, <3>5
  <2>9. Charged!RunsUp(r)'
    BY <1>r, <2>1, <2>6, <2>8 DEF Charged!RunsUp
  <2>q. QED
    BY <2>1, <2>4, <2>5, <2>9 DEF Charged!ChargingIInv
<1>3. CASE Charged!Receive
  <2>1. /\ v1' = v1 /\ v6' = v6 /\ v7' = v7 /\ v8' = v8 /\ v2 # <<>> /\ v2' = Tail(v2) /\ v4.pc = "recv"
        /\ v4' = IF v3 THEN [pc |-> "update", vol |-> Head(v2)] ELSE v4
    BY <1>3 DEF Charged!Receive
  <2>2. /\ Len(v2) >= 1 /\ Head(v2) = v2[1] /\ Head(v2) \in Nat /\ v2' \in Seq(Nat) /\ Len(v2') = Len(v2) - 1
        /\ \A i \in 1..Len(v2)-1 : v2'[i] = v2[i+1]
    BY <1>t, <2>1
  <2>3. Charged!ChargingTypes'
    BY <1>0, <2>1, <2>2 DEF Charged!ChargingTypes, Charged!Stages
  <2>4. Charged!OneFinal'
    BY <1>0, <2>1 DEF Charged!OneFinal
  <2>5. Charged!FinalUsage' = Charged!FinalUsage
    BY <2>1 DEF Charged!FinalUsage
  <2>6. Charged!InHand = 0 /\ Charged!InHand' \in {0, v2[1]}
    BY <2>1, <2>2 DEF Charged!InHand
  <2>7. PICK q : q = [i \in 0..Len(v2)-1 |-> r[i+1]]
    OBVIOUS
  <2>8. \A i \in 0..Len(v2)-1 : q[i] = r[i+1] /\ q[i] \in Nat
    BY <1>t, <1>n, <2>2, <2>7
  <2>9. q \in [0..Len(v2') -> Nat] /\ q[Len(v2')] = r[Len(v2)] /\ q[0] = r[1]
    BY <1>t, <2>2, <2>7, <2>8
  <2>10. r[0] + v2[1] <= r[1] /\ r[0] \in Nat /\ r[1] \in Nat /\ v2[1] \in Nat
    BY <1>t, <1>n, <1>r, <2>2
  <2>11. v7.usage[0] + Charged!InHand' <= r[1]
    BY <1>r, <1>n, <2>6, <2>10
  <2>12. \A i \in DOMAIN v6 : v7.usage[0] + Charged!InHand' + v6[i][0] <= r[1]
    <3> TAKE i \in DOMAIN v6
    <3>1. v7.usage[0] + 0 + v6[i][0] <= r[0] /\ v6[i][0] \in Nat
      BY <1>r, <1>n, <2>6
    <3>2. v7.usage[0] \in Nat
      BY <1>n
    <3>3. CASE Charged!InHand' = 0
      BY <2>10, <3>1, <3>2, <3>3
    <3>4. CASE Charged!InHand' = v2[1]
      BY <2>10, <3>1, <3>2, <3>4
    <3>q. QED
      BY <2>6, <3>3, <3>4
  <2>13. \A i \in 1..Len(v2') : q[i-1] + v2'[i] <= q[i]
    <3> TAKE i \in 1..Len(v2')
    <3>1. q[i-1] = r[i] /\ q[i] = r[i+1] /\ v2'[i] = v2[i+1] /\ i+1 \in 1..Len(v2) /\ i \in Nat
      <4>0. PICK n, m : n = Len(v2) /\ m = Len(v2') /\ n \in Nat /\ m = n - 1
        BY <1>t, <2>2
      <4>1. i-1 \in 0..Len(v2)-1 /\ i \in 0..Len(v2)-1 /\ (i-1)+1 = i /\ i \in 1..Len(v2)-1 /\ i+1 \in 1..Len(v2) /\ i \in Nat
        <5>1. i \in 1..m
          BY <4>0
        <5>2. i-1 \in 0..n-1 /\ i \in 0..n-1 /\ (i-1)+1 = i /\ i \in 1..n-1 /\ i+1 \in 1..n /\ i \in Nat
          BY ONLY <4>0, <5>1
        <5>q. QED
          BY ONLY <4>0, <5>2
      <4>2. q[i-1] = r[(i-1)+1] /\ q[i] = r[i+1] /\ v2'[i] = v2[i+1]
        BY <2>2, <2>8, <4>1
      <4>q. QED
        BY <4>1, <4>2
    <3>2. r[(i+1)-1] + v2[i+1] <= r[i+1]
      BY <1>r, <3>1
    <3>q. QED
      BY <3>1, <3>2
  <2>14. \A i \in 0..Len(v2') : q[i] + Charged!FinalUsage[0] <= v8[0]
    <3>1. \A i \in 0..Len(v2') : i \in 0..Len(v2)-1 /\ i+1 \in 0..Len(v2)
      BY <1>t, <2>2
    <3>q. QED
      BY <1>r, <2>8, <3>1
  <2>15. Charged!RunsUp(q)'
    BY <1>r, <2>1, <2>5, <2>9, <2>11, <2>12, <2>13, <2>14 DEF Charged!RunsUp
  <2>q. QED
    BY <2>3, <2>4, <2>9, <2>15 DEF Charged!ChargingIInv
<1>4. CASE Charged!update
  <2>1. v1' = v1 /\ v2' = v2 /\ v6' = v6 /\ v8' = v8 /\ v4.pc = "update"
    BY <1>4 DEF Charged!update
  <2>2. /\ v4' \in {[v4 EXCEPT !.pc = "recv"], [v4 EXCEPT !.pc = "terminate"]}
        /\ v7' = v7 \/ v7' = [v7 EXCEPT !.usage = Charged!Plus(v7.usage, Charged!Only(v4.vol))]
    BY <1>4 DEF Charged!update, Charged!absorb
  <2>3. v4' \in [pc : Charged!Stages, vol : Nat] /\ Charged!InHand' = 0 /\ Charged!InHand = v4.vol
    BY <1>0, <1>f, <2>1, <2>2 DEF Charged!ChargingTypes, Charged!Stages, Charged!InHand
  <2>4. PICK u : u = Charged!Plus(v7.usage, Charged!Only(v4.vol))
    OBVIOUS
  <2>5. u \in [{0, 1} -> Nat] /\ u[0] = v7.usage[0] + v4.vol /\ u[1] = v7.usage[1]
    BY <1>f, <2>4 DEF Charged!Plus, Charged!Only, Charged!Groups
  <2>6. /\ v7'.usage \in [{0, 1} -> Nat] /\ v7'.usage[1] = v7.usage[1]
        /\ v7'.usage[0] = v7.usage[0] \/ v7'.usage[0] = v7.usage[0] + v4.vol
        /\ v7' \in [usage : [{0, 1} -> Nat], released : BOOLEAN]
    BY <1>0, <1>f, <2>2, <2>4, <2>5 DEF Charged!ChargingTypes
  <2>7. Charged!ChargingTypes'
    BY <1>0, <1>f, <2>1, <2>3, <2>6 DEF Charged!ChargingTypes, Charged!Groups
  <2>8. Charged!OneFinal'
    BY <1>0, <2>1, <2>6 DEF Charged!OneFinal, Charged!Nothing, Charged!Groups
  <2>9. Charged!FinalUsage' = Charged!FinalUsage
    BY <2>1 DEF Charged!FinalUsage
  <2>10. v4.vol \in Nat /\ v7.usage[0] + v4.vol <= r[0] /\ r[0] \in Nat /\ v7'.usage[0] \in Nat
    BY <1>f, <1>n, <1>r, <1>t, <2>3, <2>6
  <2>11. v7'.usage[0] + 0 <= r[0]
    BY <1>n, <2>6, <2>10
  <2>12. \A i \in DOMAIN v6 : v7'.usage[0] + 0 + v6[i][0] <= r[0]
    <3> TAKE i \in DOMAIN v6
    <3>1. v7.usage[0] + v4.vol + v6[i][0] <= r[0] /\ v6[i][0] \in Nat
      BY <1>r, <1>n, <2>3
    <3>q. QED
      BY <1>n, <2>6, <2>10, <3>1
  <2>13. Charged!RunsUp(r)'
    BY <1>r, <2>1, <2>3, <2>9, <2>11, <2>12 DEF Charged!RunsUp
  <2>q. QED
    BY <2>1, <2>7, <2>8, <2>13 DEF Charged!ChargingIInv
<1>5. CASE Charged!release
  <2> PICK i \in DOMAIN v6 :
        /\ v6' = Charged!Without(v6, i)
        /\ \/ v7' = [usage |-> Charged!Plus(v7.usage, v6[i]), released |-> TRUE]
           \/ v7' = v7
    BY <1>5 DEF Charged!release
  <2>1. v1' = v1 /\ v2' = v2 /\ v4' = v4 /\ v8' = v8
    BY <1>5 DEF Charged!release
  <2>2. /\ v6' \in Seq([{0, 1} -> Nat])
        /\ \A j \in DOMAIN v6' : \E k \in DOMAIN v6 \ {i} : v6'[j] = v6[k]
        /\ \A j, l \in DOMAIN v6' : j # l =>
             \E k, m \in DOMAIN v6 \ {i} : k # m /\ v6'[j] = v6[k] /\ v6'[l] = v6[m]
    <3> PICK T : T = [{0, 1} -> Nat]
      OBVIOUS
    <3>1. v6 \in Seq(T)
      BY <1>t
    <3>2. /\ Charged!Without(v6, i) \in Seq(T)
          /\ \A j \in DOMAIN Charged!Without(v6, i) :
               \E k \in DOMAIN v6 \ {i} : Charged!Without(v6, i)[j] = v6[k]
          /\ \A j, l \in DOMAIN Charged!Without(v6, i) : j # l =>
               \E k, m \in DOMAIN v6 \ {i} : k # m /\ Charged!Without(v6, i)[j] = v6[k] /\ Charged!Without(v6, i)[l] = v6[m]
      BY ONLY <3>1, i \in DOMAIN v6, Removed
    <3>q. QED
      BY <3>2
  <2>3. v6[i] \in [{0, 1} -> Nat] /\ v6[i][0] \in Nat /\ v6[i][1] \in Nat
    BY <1>t
  <2>4. PICK e \in {Charged!Nothing, v6[i]} : (v7' = v7 /\ e = Charged!Nothing) \/ (v7'.usage = Charged!Plus(v7.usage, v6[i]) /\ e = v6[i])
    OBVIOUS
  <2>5. /\ v7'.usage[0] = v7.usage[0] + e[0] /\ v7'.usage[1] = v7.usage[1] + e[1]
        /\ e[0] \in Nat /\ e[1] \in Nat /\ v7'.usage[0] \in Nat /\ v7'.usage[1] \in Nat
    <3>0. v7.usage \in [{0, 1} -> Nat] /\ v7.usage[0] \in Nat /\ v7.usage[1] \in Nat
      BY <1>f, <1>n
    <3>1. CASE v7' = v7 /\ e = Charged!Nothing
      <4>1. v7'.usage = v7.usage /\ e[0] = 0 /\ e[1] = 0
        BY <1>f, <3>1
      <4>q. QED
        BY <3>0, <4>1
    <3>2. CASE v7'.usage = Charged!Plus(v7.usage, v6[i]) /\ e = v6[i]
      <4>1. v7'.usage[0] = v7.usage[0] + v6[i][0] /\ v7'.usage[1] = v7.usage[1] + v6[i][1]
        BY <2>3, <3>0, <3>2, Added
      <4>2. e[0] = v6[i][0] /\ e[1] = v6[i][1]
        BY <3>2
      <4>q. QED
        BY <2>3, <3>0, <4>1, <4>2
    <3>q. QED
      BY <2>4, <3>1, <3>2
  <2>6. Charged!ChargingTypes'
    <3>1. v7' \in [usage : [{0, 1} -> Nat], released : BOOLEAN]
      <4>1. v7 \in [usage : [{0, 1} -> Nat], released : BOOLEAN]
        BY <1>0, <1>f DEF Charged!ChargingTypes
      <4>2. PICK u : u = Charged!Plus(v7.usage, v6[i])
        OBVIOUS
      <4>3. u \in [{0, 1} -> Nat]
        BY <1>f, <2>3, <4>2, Added
      <4>4. CASE v7' = v7
        BY <4>1, <4>4
      <4>5. CASE v7' = [usage |-> Charged!Plus(v7.usage, v6[i]), released |-> TRUE]
        BY <4>2, <4>3, <4>5
      <4>q. QED
        BY <4>4, <4>5
    <3>q. QED
      BY <1>0, <1>f, <2>1, <2>2, <3>1 DEF Charged!ChargingTypes
  <2>8. /\ \A k \in DOMAIN v6 \ {i} : e = Charged!Nothing \/ v6[k] = Charged!Nothing
        /\ v1.live => e = Charged!Nothing
        /\ e = Charged!Nothing \/ e = v6[i]
    BY <1>0, <2>4 DEF Charged!OneFinal
  <2>9. Charged!OneFinal'
    <3>1. v1.live => v7'.usage[1] = 0 /\ v1.flow <= v8[1] /\ \A j \in DOMAIN v6' : v6'[j] = Charged!Nothing
      BY <1>0, <1>f, <2>2, <2>5, <2>8 DEF Charged!OneFinal
    <3>2. v7'.usage[1] <= v8[1]
      BY <1>0, <1>f, <1>n, <2>3, <2>5, <2>8 DEF Charged!OneFinal
    <3>3. \A j \in DOMAIN v6' : v7'.usage[1] + v6'[j][1] <= v8[1]
      <4> TAKE j \in DOMAIN v6'
      <4> PICK k \in DOMAIN v6 \ {i} : v6'[j] = v6[k]
        BY <2>2
      <4>1. v7.usage[1] + v6[k][1] <= v8[1] /\ v6[k][1] \in Nat
        BY <1>0, <1>n DEF Charged!OneFinal
      <4>2. CASE e = Charged!Nothing
        BY <1>f, <1>n, <2>5, <4>1, <4>2
      <4>3. CASE v6[k] = Charged!Nothing
        BY <1>f, <1>n, <2>5, <3>2, <4>3
      <4>q. QED
        BY <2>8, <4>2, <4>3
    <3>4. \A j, l \in DOMAIN v6' : j # l => v6'[j] = Charged!Nothing \/ v6'[l] = Charged!Nothing
      <4> SUFFICES ASSUME NEW j \in DOMAIN v6', NEW l \in DOMAIN v6', j # l
                   PROVE  v6'[j] = Charged!Nothing \/ v6'[l] = Charged!Nothing
        OBVIOUS
      <4> PICK k \in DOMAIN v6 \ {i}, m \in DOMAIN v6 \ {i} : k # m /\ v6'[j] = v6[k] /\ v6'[l] = v6[m]
        BY <2>2
      <4>q. QED
        BY <1>0 DEF Charged!OneFinal
    <3>q. QED
      BY <2>1, <3>1, <3>2, <3>3, <3>4 DEF Charged!OneFinal, Charged!Nothing, Charged!Groups
  <2>10. Charged!InHand' = Charged!InHand /\ Charged!FinalUsage' = Charged!FinalUsage
    BY <2>1 DEF Charged!InHand, Charged!FinalUsage
  <2>11. v7'.usage[0] + Charged!InHand <= r[0]
    <3>1. r[0] \in Nat
      BY <1>n, <1>t
    <3>2. CASE e = Charged!Nothing
      BY <1>f, <1>n, <1>r, <2>5, <3>1, <3>2
    <3>3. CASE e = v6[i]
      <4>1. v7.usage[0] + Charged!InHand + v6[i][0] <= r[0]
        BY <1>r
      <4>q. QED
        BY <1>f, <1>n, <2>3, <2>5, <3>1, <3>3, <4>1
    <3>q. QED
      BY <2>8, <3>2, <3>3
  <2>12. \A j \in DOMAIN v6' : v7'.usage[0] + Charged!InHand + v6'[j][0] <= r[0]
    <3> TAKE j \in DOMAIN v6'
    <3> PICK k \in DOMAIN v6 \ {i} : v6'[j] = v6[k]
      BY <2>2
    <3>1. v7.usage[0] + Charged!InHand + v6[k][0] <= r[0] /\ v6[k][0] \in Nat /\ r[0] \in Nat
      BY <1>n, <1>r, <1>t
    <3>2. CASE e = Charged!Nothing
      BY <1>f, <1>n, <2>5, <3>1, <3>2
    <3>3. CASE v6[k] = Charged!Nothing
      BY <1>f, <1>n, <2>5, <2>11, <3>1, <3>3
    <3>q. QED
      BY <2>8, <3>2, <3>3
  <2>13. Charged!RunsUp(r)'
    BY <1>r, <2>1, <2>10, <2>11, <2>12 DEF Charged!RunsUp
  <2>q. QED
    BY <2>1, <2>6, <2>9, <2>13 DEF Charged!ChargingIInv
<1>6. ASSUME Charged!Deleted, Charged!InHand' = Charged!InHand, v4' \in [pc : Charged!Stages, vol : Nat]
      PROVE  Charged!ChargingIInv'
  <2> PICK f \in [{0, 1} -> Nat] : f = Charged!FinalUsage
    BY <1>f
  <2>1. v1' = [v1 EXCEPT !.live = FALSE] /\ v6' = Append(v6, f) /\ v2' = v2 /\ v7' = v7 /\ v8' = v8
    BY <1>6 DEF Charged!Deleted
  <2>2. /\ v1' \in [live : BOOLEAN, bytes : Nat, reported : Nat, flow : Nat]
        /\ v1'.live = FALSE /\ v1'.reported = v1.reported /\ v1'.bytes = v1.bytes
    BY <1>0, <1>f, <2>1 DEF Charged!ChargingTypes
  <2>3. /\ v6' \in Seq([{0, 1} -> Nat]) /\ DOMAIN v6' = 1..Len(v6)+1 /\ DOMAIN v6 = 1..Len(v6) /\ Len(v6) \in Nat
        /\ \A i \in 1..Len(v6) : v6'[i] = v6[i]
        /\ v6'[Len(v6)+1] = f
    BY <1>t, <2>1
  <2>4. Charged!ChargingTypes'
    BY <1>0, <1>6, <1>f, <2>1, <2>2, <2>3 DEF Charged!ChargingTypes, Charged!Groups
  <2>5. /\ f[0] = IF v1.live THEN v1.bytes - v1.reported ELSE 0
        /\ f[1] = IF v1.live THEN v1.flow ELSE 0
        /\ f[0] \in Nat /\ f[1] \in Nat
        /\ ~v1.live => f = Charged!Nothing
    BY <1>f
  <2>6. v7.usage[1] + f[1] <= v8[1] /\ v7.usage[1] <= v8[1]
    BY <1>0, <1>f, <1>n, <2>5 DEF Charged!OneFinal
  <2>7. \A i \in DOMAIN v6' : v7.usage[1] + v6'[i][1] <= v8[1]
    BY <1>0, <2>3, <2>6 DEF Charged!OneFinal
  <2>8. \A i, j \in DOMAIN v6' : i # j => v6'[i] = Charged!Nothing \/ v6'[j] = Charged!Nothing
    <3>1. v1.live => \A i \in DOMAIN v6 : v6[i] = Charged!Nothing
      BY <1>0 DEF Charged!OneFinal
    <3>2. \A i, j \in DOMAIN v6 : i # j => v6[i] = Charged!Nothing \/ v6[j] = Charged!Nothing
      BY <1>0 DEF Charged!OneFinal
    <3>3. \A i \in DOMAIN v6' : i \in DOMAIN v6 \/ i = Len(v6) + 1
      BY <2>3
    <3>4. \A i \in DOMAIN v6 : v6'[i] = v6[i]
      BY <2>3
    <3>5. f = Charged!Nothing \/ \A i \in DOMAIN v6 : v6[i] = Charged!Nothing
      BY <1>f, <2>5, <3>1
    <3> SUFFICES ASSUME NEW i \in DOMAIN v6', NEW j \in DOMAIN v6', i # j
                 PROVE  v6'[i] = Charged!Nothing \/ v6'[j] = Charged!Nothing
      OBVIOUS
    <3>6. CASE i \in DOMAIN v6 /\ j \in DOMAIN v6
      BY <3>2, <3>4, <3>6
    <3>7. CASE i = Len(v6) + 1 /\ j \in DOMAIN v6
      BY <2>3, <3>4, <3>5, <3>7
    <3>8. CASE j = Len(v6) + 1 /\ i \in DOMAIN v6
      BY <2>3, <3>4, <3>5, <3>8
    <3>q. QED
      BY <3>3, <3>6, <3>7, <3>8
  <2>9. Charged!OneFinal'
    BY <2>1, <2>2, <2>6, <2>7, <2>8 DEF Charged!OneFinal, Charged!Nothing, Charged!Groups
  <2>10. Charged!FinalUsage'[0] = 0
    BY <2>2 DEF Charged!FinalUsage, Charged!Nothing, Charged!Groups
  <2>11. PICK q : q = [i \in 0..Len(v2) |-> r[i] + f[0]]
    OBVIOUS
  <2>12. /\ \A i \in 0..Len(v2) : q[i] = r[i] + f[0] /\ q[i] \in Nat
         /\ q \in [0..Len(v2) -> Nat]
    BY <1>n, <2>5, <2>11
  <2>13. q[0] = r[0] + f[0] /\ r[0] \in Nat /\ q[Len(v2)] = r[Len(v2)] + f[0]
    <3>1. 0 \in 0..Len(v2) /\ Len(v2) \in 0..Len(v2)
      BY <1>t
    <3>q. QED
      BY <1>n, <2>12, <3>1
  <2>14. v7.usage[0] + Charged!InHand <= q[0]
    BY <1>f, <1>n, <1>r, <2>5, <2>13
  <2>15. \A i \in DOMAIN v6' : v7.usage[0] + Charged!InHand + v6'[i][0] <= q[0]
    <3> TAKE i \in DOMAIN v6'
    <3>1. CASE i \in DOMAIN v6
      <4>1. v7.usage[0] + Charged!InHand + v6[i][0] <= r[0] /\ v6[i][0] \in Nat
        BY <1>n, <1>r, <3>1
      <4>q. QED
        <5>1. v6'[i][0] = v6[i][0]
          BY <2>3, <3>1
        <5>2. f[0] \in Nat /\ v7.usage[0] \in Nat /\ Charged!InHand \in Nat
          BY <1>f, <1>n, <2>5
        <5>q. QED
          BY <2>13, <4>1, <5>1, <5>2
    <3>2. CASE i = Len(v6)+1
      <4>1. v6'[i][0] = f[0] /\ f[0] \in Nat /\ v7.usage[0] \in Nat /\ Charged!InHand \in Nat
        BY <1>f, <1>n, <2>3, <2>5, <3>2
      <4>2. v7.usage[0] + Charged!InHand <= r[0]
        BY <1>r
      <4>q. QED
        BY <2>13, <4>1, <4>2
    <3>q. QED
      BY <2>3, <3>1, <3>2
  <2>16. \A i \in 1..Len(v2) : q[i-1] + v2[i] <= q[i]
    <3> TAKE i \in 1..Len(v2)
    <3>1. i-1 \in 0..Len(v2) /\ i \in 0..Len(v2)
      BY <1>t
    <3>2. q[i-1] = r[i-1] + f[0] /\ q[i] = r[i] + f[0] /\ r[i-1] \in Nat /\ r[i] \in Nat /\ v2[i] \in Nat
      BY <1>n, <2>12, <3>1
    <3>q. QED
      BY <1>r, <2>5, <3>2
  <2>17. \A i \in 0..Len(v2) : q[i] + 0 <= v8[0]
    <3>1. \A i \in 0..Len(v2) : r[i] + f[0] <= v8[0]
      BY <1>r
    <3>q. QED
      BY <2>12, <3>1
  <2>18. Charged!RunsUp(q)'
    BY <1>6, <2>1, <2>10, <2>14, <2>15, <2>16, <2>17 DEF Charged!RunsUp
  <2>q. QED
    BY <2>1, <2>4, <2>9, <2>12, <2>18 DEF Charged!ChargingIInv
<1>7. ASSUME Charged!Unanswered, Charged!InHand' = Charged!InHand, v4' \in [pc : Charged!Stages, vol : Nat]
      PROVE  Charged!ChargingIInv'
  <2>1. v6' = v6 /\ v2' = v2 /\ v7' = v7 /\ v8' = v8 /\ v1' \in {v1, [v1 EXCEPT !.live = FALSE]}
    BY <1>7 DEF Charged!Unanswered
  <2>2. /\ v1' \in [live : BOOLEAN, bytes : Nat, reported : Nat, flow : Nat]
        /\ v1'.live => v1' = v1
        /\ v1'.reported = v1.reported /\ v1'.bytes = v1.bytes
    BY <1>0, <1>f, <2>1 DEF Charged!ChargingTypes
  <2>3. Charged!ChargingTypes'
    BY <1>0, <1>7, <1>f, <2>1, <2>2 DEF Charged!ChargingTypes
  <2>4. Charged!OneFinal'
    BY <1>0, <2>1, <2>2 DEF Charged!OneFinal, Charged!Nothing, Charged!Groups
  <2>5. Charged!FinalUsage'[0] = 0 \/ Charged!FinalUsage'[0] = Charged!FinalUsage[0]
    <3>1. CASE v1'.live
      BY <2>2, <3>1 DEF Charged!FinalUsage
    <3>2. CASE ~v1'.live
      BY <3>2 DEF Charged!FinalUsage, Charged!Nothing, Charged!Groups
    <3>q. QED
      BY <3>1, <3>2
  <2>6. \A i \in 0..Len(v2) : r[i] + Charged!FinalUsage'[0] <= v8[0]
    <3>1. Charged!FinalUsage[0] \in Nat
      BY <1>f
    <3>q. QED
      BY <1>n, <1>r, <2>5, <3>1
  <2>7. Charged!RunsUp(r)'
    BY <1>7, <1>r, <2>1, <2>6 DEF Charged!RunsUp
  <2>q. QED
    BY <2>1, <2>3, <2>4, <2>7 DEF Charged!ChargingIInv
<1>8. CASE Charged!TeardownByQuota \/ Charged!TeardownByAmf \/ UNCHANGED Charged!vars
  <2>1. /\ v1' = v1 /\ v2' = v2 /\ v6' = v6 /\ v7' = v7 /\ v8' = v8
        /\ v4' \in {v4, [v4 EXCEPT !.pc = "delete"], [v4 EXCEPT !.pc = "recv"]}
        /\ v4' = v4 \/ v4.pc = "terminate"
    BY <1>8 DEF Charged!TeardownByQuota, Charged!TeardownByAmf, Charged!vars
  <2>2. v4' \in [pc : Charged!Stages, vol : Nat] /\ Charged!InHand' = Charged!InHand
    BY <1>0, <2>1 DEF Charged!ChargingTypes, Charged!Stages, Charged!InHand
  <2>3. Charged!ChargingTypes' /\ Charged!OneFinal'
    BY <1>0, <2>1, <2>2 DEF Charged!ChargingTypes, Charged!OneFinal
  <2>4. Charged!FinalUsage' = Charged!FinalUsage
    BY <2>1 DEF Charged!FinalUsage
  <2>5. Charged!RunsUp(r)'
    BY <1>r, <2>1, <2>2, <2>4 DEF Charged!RunsUp
  <2>q. QED
    BY <2>1, <2>3, <2>5 DEF Charged!ChargingIInv
<1>9. CASE Charged!QuotaDeletes
  <2>1. v4' = [v4 EXCEPT !.pc = "recv"] /\ v4.pc = "delete"
    BY <1>9 DEF Charged!QuotaDeletes
  <2>2. v4' \in [pc : Charged!Stages, vol : Nat] /\ Charged!InHand' = Charged!InHand
    BY <1>0, <2>1 DEF Charged!ChargingTypes, Charged!Stages, Charged!InHand
  <2>q. QED
    BY <1>6, <1>7, <1>9, <2>2 DEF Charged!QuotaDeletes
<1>10. CASE Charged!AmfDeletes
  <2>1. v4' \in [pc : Charged!Stages, vol : Nat] /\ Charged!InHand' = Charged!InHand
    BY <1>0, <1>10 DEF Charged!AmfDeletes, Charged!ChargingTypes, Charged!InHand
  <2>q. QED
    BY <1>6, <1>7, <1>10, <2>1 DEF Charged!AmfDeletes
<1>q. QED
  BY <1>1, <1>2, <1>3, <1>4, <1>5, <1>8, <1>9, <1>10 DEF Charged!Next

\* What the strengthened invariant says of the bill.
LEMMA ChargingBill == Charged!ChargingIInv => Charged!NeverOverbilled
<1> SUFFICES ASSUME Charged!ChargingIInv PROVE Charged!NeverOverbilled  OBVIOUS
<1> PICK r \in [0..Len(v2) -> Nat] : Charged!RunsUp(r)
  BY DEF Charged!ChargingIInv
<1>1. v2 \in Seq(Nat) /\ Charged!ChargingTypes /\ v7.usage[1] <= v8[1]
  BY DEF Charged!ChargingIInv, Charged!ChargingTypes, Charged!OneFinal
<1>2. /\ Charged!InHand \in Nat /\ Charged!FinalUsage[0] \in Nat /\ v7.usage[0] \in Nat
      /\ Charged!Groups = {0, 1}
  BY <1>1, ChargingFacts
<1>3. v8[0] \in Nat /\ 0 \in 0..Len(v2) /\ r[0] \in Nat
  <2>1. v8 \in [{0, 1} -> Nat]
    BY <1>1 DEF Charged!ChargingTypes, Charged!Groups
  <2>2. Len(v2) \in Nat
    BY <1>1
  <2>3. 0 \in 0..Len(v2)
    BY <2>2
  <2>q. QED
    BY <2>1, <2>3
<1>4. v7.usage[0] + Charged!InHand <= r[0] /\ r[0] + Charged!FinalUsage[0] <= v8[0]
  BY <1>3 DEF Charged!RunsUp
<1>5. v7.usage[0] <= v8[0]
  BY <1>2, <1>3, <1>4
<1>q. QED
  BY <1>1, <1>2, <1>5 DEF Charged!NeverOverbilled

-----------------------------------------------------------------------------
(* Traffic: v1 is sessions, v3 nextSeid, v10 charged *)

\* A session measures: its record has the two counters of its URR.
Measures(s) == {"bytes", "reported"} \subseteq DOMAIN s /\ s["bytes"] \in Int /\ s["reported"] \in Int

\* Every session in the table measures and was given its id from the counter, and what each id
\* was charged is a number.
MeteringIInv ==
    /\ v3 \in Nat \ {0}
    /\ DOMAIN v1 \subseteq Traffic!Ids
    /\ \A i \in DOMAIN v1 : i < v3 /\ Measures(v1[i])
    /\ v10 = [i \in Traffic!Ids |-> v10[i]]
    /\ \A i \in Traffic!Ids : "session" \in DOMAIN v10[i] /\ v10[i]["session"] \in Int

\* What the ledger sees of the table: the volume no report covered yet, and the volume charged.
Volume == [i \in Traffic!Ids |-> IF i \in DOMAIN v1 THEN Traffic!Unreported(v1[i]) ELSE 0]
Account == [i \in Traffic!Ids |-> v10[i]["session"]]

\* What a step does to them: nothing, or what one of the ledger's actions does.
Unmetered == DOMAIN v1' = DOMAIN v1 /\ Volume' = Volume /\ Account' = Account
Opens(i) == i \notin DOMAIN v1 /\ DOMAIN v1' = DOMAIN v1 \cup {i} /\ Volume' = Volume /\ Account' = Account
Carries(i) ==
    /\ i \in DOMAIN v1 /\ DOMAIN v1' = DOMAIN v1
    /\ Volume' = [Volume EXCEPT ![i] = @ + 1] /\ Account' = Account
Bills(i) ==
    /\ i \in DOMAIN v1 /\ DOMAIN v1' \in {DOMAIN v1, DOMAIN v1 \ {i}}
    /\ Volume' = [Volume EXCEPT ![i] = 0] /\ Account' = [Account EXCEPT ![i] = @ + Volume[i]]
LedgerStep == Unmetered \/ \E i \in Traffic!Ids : Opens(i) \/ Carries(i) \/ Bills(i)

\* What the operations of the table do to a session's counters: a packet is counted once or
\* with a flow of its own,
LEMMA CountedOnce ==
    ASSUME NEW s, NEW pkt, Measures(s)
    PROVE  /\ Measures(Traffic!Counted(s, pkt))
           /\ Traffic!Unreported(Traffic!Counted(s, pkt)) \in {Traffic!Unreported(s), Traffic!Unreported(s) + 1}
<1> PICK i : i = Traffic!Classify(s, pkt)
  OBVIOUS
<1>1. CASE i # 0
  <2>1. PICK F : Traffic!Counted(s, pkt) = [s EXCEPT !["flows"] = F]
    BY <1>1 DEF Traffic!Counted
  <2>q. QED
    BY <2>1 DEF Measures, Traffic!Unreported
<1>2. CASE i = 0
  <2>1. PICK d : Traffic!Counted(s, pkt) = [s EXCEPT !["bytes"] = s["bytes"] + 1, !["due"] = d]
    BY <1>2 DEF Traffic!Counted
  <2>q. QED
    BY <2>1 DEF Measures, Traffic!Unreported
<1>q. QED
  BY <1>1, <1>2

\* and what a modification changes the counters are not among.
LEMMA ModifiedUncounted ==
    ASSUME NEW s, NEW msg, Measures(s)
    PROVE  LET t == Traffic!BranchesApplied(Traffic!QersApplied(Traffic!FarApplied(s, msg), msg), msg)
           IN Measures(t) /\ Traffic!Unreported(t) = Traffic!Unreported(s)
<1> PICK f : f = Traffic!FarApplied(s, msg)
  OBVIOUS
<1> PICK q : q = Traffic!QersApplied(f, msg)
  OBVIOUS
<1>1. Measures(f) /\ Traffic!Unreported(f) = Traffic!Unreported(s)
  <2>1. \/ f = s
        \/ \E d : f = [s EXCEPT !["downlink"] = d, !["buffering"] = FALSE, !["dldr"] = FALSE, !["buffer"] = <<>>]
        \/ f = [s EXCEPT !["downlink"] = None, !["buffering"] = TRUE]
    BY DEF Traffic!FarApplied, Traffic!SetDownlink, Traffic!ClearDownlink
  <2>q. QED
    BY <2>1 DEF Measures, Traffic!Unreported
<1>2. Measures(q) /\ Traffic!Unreported(q) = Traffic!Unreported(f)
  <2>1. \E F, r : q = [f EXCEPT !["flows"] = F, !["ambr"] = r]
    BY DEF Traffic!QersApplied
  <2>q. QED
    BY <1>1, <2>1 DEF Measures, Traffic!Unreported
<1>3. PICK t : t = Traffic!BranchesApplied(q, msg)
  OBVIOUS
<1>4. \E bs : t = [q EXCEPT !["branches"] = bs]
  BY <1>3 DEF Traffic!BranchesApplied
<1>5. Measures(t) /\ Traffic!Unreported(t) = Traffic!Unreported(q)
  BY <1>2, <1>4 DEF Measures, Traffic!Unreported
<1>q. QED
  BY <1>1, <1>2, <1>3, <1>5

\* The table after one session changed: its volume is what it now leaves unreported.
LEMMA OneMeasured ==
    ASSUME MeteringIInv, NEW i \in DOMAIN v1, NEW t, Measures(t),
           v1' = [v1 EXCEPT ![i] = t], v3' = v3
    PROVE  /\ DOMAIN v1' = DOMAIN v1 /\ Volume' = [Volume EXCEPT ![i] = Traffic!Unreported(t)]
           /\ \A j \in DOMAIN v1' : j < v3' /\ Measures(v1'[j])
           /\ i \in Traffic!Ids /\ Volume[i] = Traffic!Unreported(v1[i]) /\ Volume[i] \in Int
<1>1. DOMAIN v1' = DOMAIN v1 /\ i \in Traffic!Ids /\ v1'[i] = t /\ \A j \in DOMAIN v1 \ {i} : v1'[j] = v1[j]
  BY DEF MeteringIInv
<1>2. Volume' = [Volume EXCEPT ![i] = Traffic!Unreported(t)]
  BY <1>1 DEF Volume, Traffic!Unreported
<1>3. \A j \in DOMAIN v1' : j < v3' /\ Measures(v1'[j])
  BY <1>1 DEF MeteringIInv
<1>4. Volume[i] = Traffic!Unreported(v1[i]) /\ Volume[i] \in Int
  BY <1>1 DEF MeteringIInv, Volume, Measures, Traffic!Unreported
<1>q. QED
  BY <1>1, <1>2, <1>3, <1>4

\* When no account changes, a session that leaves as much or one unit more unreported is a
\* step of the ledger.
LEMMA Measured ==
    ASSUME MeteringIInv, NEW i \in DOMAIN v1, NEW t, Measures(t),
           Traffic!Unreported(t) \in {Traffic!Unreported(v1[i]), Traffic!Unreported(v1[i]) + 1},
           v1' = [v1 EXCEPT ![i] = t], v3' = v3, v10' = v10
    PROVE  MeteringIInv' /\ LedgerStep
<1>1. /\ DOMAIN v1' = DOMAIN v1 /\ Volume' = [Volume EXCEPT ![i] = Traffic!Unreported(t)]
      /\ \A j \in DOMAIN v1' : j < v3' /\ Measures(v1'[j])
      /\ i \in Traffic!Ids /\ Volume[i] = Traffic!Unreported(v1[i]) /\ Volume[i] \in Int
  BY OneMeasured
<1>2. MeteringIInv'
  BY <1>1 DEF MeteringIInv
<1>3. Account' = Account
  BY DEF Account
<1>4. CASE Traffic!Unreported(t) = Volume[i]
  <2>1. Volume' = Volume
    BY <1>1, <1>4 DEF Volume
  <2>q. QED
    BY <1>1, <1>2, <1>3, <2>1 DEF LedgerStep, Unmetered
<1>5. CASE Traffic!Unreported(t) = Volume[i] + 1
  <2>1. Volume' = [Volume EXCEPT ![i] = @ + 1]
    BY <1>1, <1>5
  <2>q. QED
    BY <1>1, <1>2, <1>3, <2>1 DEF LedgerStep, Carries
<1>q. QED
  BY <1>1, <1>4, <1>5

\* A step that leaves the table and the charges alone.
LEMMA Unmeasured ==
    ASSUME MeteringIInv, v1' = v1, v3' = v3, v10' = v10
    PROVE  MeteringIInv' /\ LedgerStep
  BY DEF MeteringIInv, LedgerStep, Unmetered, Volume, Account

LEMMA MeteringInit == Traffic!Init => MeteringIInv
  BY DEF Traffic!Init, MeteringIInv

\* A session is established under an id no session had.
LEMMA MeteringEstablish ==
    ASSUME Traffic!UpfAssumption, MeteringIInv, NEW p, NEW msg, NEW want, Traffic!Establish(p, msg, want)
    PROVE  MeteringIInv' /\ LedgerStep
<1>1. v10' = v10
  BY DEF Traffic!Establish
<1>2. CASE Traffic!Full
  BY <1>1, <1>2, Unmeasured DEF Traffic!Establish
<1>3. CASE ~Traffic!Full
  <2>1. PICK t : t = Traffic!Session(p, msg)
    OBVIOUS
  <2>2. Measures(t) /\ Traffic!Unreported(t) = 0
    BY <2>1 DEF Traffic!Session, Measures, Traffic!Unreported
  <2>3. v3 <= MaxSeid /\ v3' = v3 + 1 /\ v1' = [i \in DOMAIN v1 \cup {v3} |-> IF i = v3 THEN t ELSE v1[i]]
    BY <1>3, <2>1 DEF Traffic!Establish
  <2>4. v3 \in Traffic!Ids /\ v3 \notin DOMAIN v1
    BY <2>3 DEF MeteringIInv, Traffic!Ids, Traffic!UpfAssumption
  <2>5. DOMAIN v1' = DOMAIN v1 \cup {v3} /\ v1'[v3] = t /\ \A i \in DOMAIN v1 : v1'[i] = v1[i]
    BY <2>3, <2>4
  <2>6. MeteringIInv'
    <3>1. \A i \in DOMAIN v1' : i < v3' /\ Measures(v1'[i])
      <4> TAKE i \in DOMAIN v1'
      <4>1. CASE i = v3
        BY <2>2, <2>3, <2>5, <4>1 DEF MeteringIInv
      <4>2. CASE i \in DOMAIN v1
        <5>1. i \in Int /\ v3 \in Int /\ i < v3 /\ Measures(v1[i])
          BY <4>2 DEF MeteringIInv, Traffic!Ids
        <5>q. QED
          BY <2>3, <2>5, <4>2, <5>1
      <4>q. QED
        BY <2>5, <4>1, <4>2
    <3>q. QED
      BY <1>1, <2>3, <2>4, <2>5, <3>1 DEF MeteringIInv
  <2>7. Volume' = Volume
    BY <2>2, <2>4, <2>5 DEF Volume
  <2>8. Opens(v3)
    BY <1>1, <2>4, <2>5, <2>7 DEF Opens, Account
  <2>q. QED
    BY <2>4, <2>6, <2>8 DEF LedgerStep
<1>q. QED
  BY <1>2, <1>3

LEMMA MeteringModify ==
    ASSUME MeteringIInv, NEW p, NEW i, NEW msg, NEW want, Traffic!Modify(p, i, msg, want)
    PROVE  MeteringIInv' /\ LedgerStep
<1>1. v3' = v3 /\ v10' = v10
  BY DEF Traffic!Modify
<1>2. CASE i \in DOMAIN v1 /\ v1[i].peer = p
  <2>1. PICK t : t = Traffic!BranchesApplied(Traffic!QersApplied(Traffic!FarApplied(v1[i], msg), msg), msg)
    OBVIOUS
  <2>2. v1' = [v1 EXCEPT ![i] = t]
    BY <1>2, <2>1 DEF Traffic!Modify
  <2>3. Measures(t) /\ Traffic!Unreported(t) = Traffic!Unreported(v1[i])
    <3>1. Measures(v1[i])
      BY <1>2 DEF MeteringIInv
    <3>q. QED
      BY <2>1, <3>1, ModifiedUncounted
  <2>q. QED
    BY <1>1, <1>2, <2>2, <2>3, Measured
<1>3. CASE ~(i \in DOMAIN v1 /\ v1[i].peer = p)
  <2>1. v1' = v1
    BY <1>3 DEF Traffic!Modify
  <2>q. QED
    BY <1>1, <2>1, Unmeasured
<1>q. QED
  BY <1>2, <1>3

\* A deletion's answer bills what is left, and the session is gone.
LEMMA MeteringDelete ==
    ASSUME MeteringIInv, NEW p, NEW i, Traffic!Delete(p, i)
    PROVE  MeteringIInv' /\ LedgerStep
<1>1. v3' = v3
  BY DEF Traffic!Delete
<1>2. CASE i \in DOMAIN v1 /\ v1[i].peer = p
  <2>1. Traffic!FinalUsage(v1[i]).session = Traffic!Unreported(v1[i])
    BY DEF Traffic!FinalUsage
  <2>2. PICK u : v10' = [v10 EXCEPT ![i].session = @ + Traffic!Unreported(v1[i]), ![i].flows = u]
    BY <1>2, <2>1 DEF Traffic!Delete
  <2>3. v1' = [j \in DOMAIN v1 \ {i} |-> v1[j]]
    BY <1>2 DEF Traffic!Delete
  <2>4. DOMAIN v1' = DOMAIN v1 \ {i} /\ \A j \in DOMAIN v1' : v1'[j] = v1[j]
    BY <2>3
  <2>5. i \in Traffic!Ids /\ Volume[i] = Traffic!Unreported(v1[i]) /\ Volume[i] \in Int
    BY <1>2 DEF MeteringIInv, Volume, Measures, Traffic!Unreported
  <2>6. /\ DOMAIN v10' = Traffic!Ids /\ v10' = [j \in Traffic!Ids |-> v10'[j]]
        /\ \A j \in Traffic!Ids \ {i} : v10'[j] = v10[j]
        /\ "session" \in DOMAIN v10'[i] /\ v10'[i]["session"] = v10[i]["session"] + Volume[i]
    BY <2>2, <2>5 DEF MeteringIInv
  <2>7. MeteringIInv'
    BY <1>1, <2>4, <2>5, <2>6 DEF MeteringIInv
  <2>8. Volume' = [Volume EXCEPT ![i] = 0]
    BY <2>4, <2>5 DEF Volume
  <2>9. Account' = [Account EXCEPT ![i] = @ + Volume[i]]
    BY <2>5, <2>6 DEF Account
  <2>10. Bills(i)
    BY <1>2, <2>4, <2>8, <2>9 DEF Bills
  <2>q. QED
    BY <2>5, <2>7, <2>10 DEF LedgerStep
<1>3. CASE ~(i \in DOMAIN v1 /\ v1[i].peer = p)
  <2>1. v1' = v1 /\ v10' = v10
    BY <1>3 DEF Traffic!Delete
  <2>q. QED
    BY <1>1, <2>1, Unmeasured
<1>q. QED
  BY <1>2, <1>3

\* A threshold report bills what no report covered.
LEMMA MeteringReport ==
    ASSUME MeteringIInv, NEW i, Traffic!TakeDueReport(i)
    PROVE  MeteringIInv' /\ LedgerStep
<1>1. /\ i \in DOMAIN v1 /\ v3' = v3 /\ v1' = [v1 EXCEPT ![i] = Traffic!Reported(v1[i])]
      /\ v10' = [v10 EXCEPT ![i].session = @ + Traffic!Unreported(v1[i])]
  BY DEF Traffic!TakeDueReport
<1>2. PICK t : t = Traffic!Reported(v1[i])
  OBVIOUS
<1>3. Measures(v1[i]) /\ Measures(t) /\ Traffic!Unreported(t) = 0
  BY <1>1, <1>2 DEF MeteringIInv, Measures, Traffic!Reported, Traffic!Unreported
<1>4. /\ DOMAIN v1' = DOMAIN v1 /\ Volume' = [Volume EXCEPT ![i] = 0]
      /\ \A j \in DOMAIN v1' : j < v3' /\ Measures(v1'[j])
      /\ i \in Traffic!Ids /\ Volume[i] = Traffic!Unreported(v1[i]) /\ Volume[i] \in Int
  <2>1. /\ DOMAIN v1' = DOMAIN v1 /\ Volume' = [Volume EXCEPT ![i] = Traffic!Unreported(t)]
        /\ \A j \in DOMAIN v1' : j < v3' /\ Measures(v1'[j])
        /\ i \in Traffic!Ids /\ Volume[i] = Traffic!Unreported(v1[i]) /\ Volume[i] \in Int
    BY <1>1, <1>2, <1>3, OneMeasured
  <2>q. QED
    BY <1>3, <2>1
<1>5. /\ v10' = [j \in Traffic!Ids |-> v10'[j]]
      /\ \A j \in Traffic!Ids \ {i} : v10'[j] = v10[j]
      /\ "session" \in DOMAIN v10'[i] /\ v10'[i]["session"] = v10[i]["session"] + Volume[i]
  BY <1>1, <1>4 DEF MeteringIInv
<1>6. MeteringIInv'
  BY <1>1, <1>4, <1>5 DEF MeteringIInv
<1>7. Account' = [Account EXCEPT ![i] = @ + Volume[i]]
  BY <1>4, <1>5 DEF Account
<1>8. Bills(i)
  BY <1>1, <1>4, <1>7 DEF Bills
<1>q. QED
  BY <1>4, <1>6, <1>8 DEF LedgerStep

\* The N3 task counts a packet it forwards, under the session's URR or a flow's.
LEMMA MeteringUplink ==
    ASSUME MeteringIInv, NEW teid, NEW pkt, NEW rs, NEW pass, Traffic!N3Receive(teid, pkt, rs, pass)
    PROVE  MeteringIInv' /\ LedgerStep
<1>1. v3' = v3 /\ v10' = v10
  BY DEF Traffic!N3Receive
<1>2. v1' = v1 \/ \E i \in DOMAIN v1 : v1' = [v1 EXCEPT ![i] = Traffic!Counted(v1[i], pkt)]
  <2>1. PICK i : i = CHOOSE j \in Traffic!Owner(teid) : TRUE
    OBVIOUS
  <2>2. v1' = v1 \/ (Traffic!Owner(teid) # {} /\ v1' = [v1 EXCEPT ![i] = Traffic!Counted(v1[i], pkt)])
    BY <2>1 DEF Traffic!N3Receive
  <2>3. Traffic!Owner(teid) # {} => i \in Traffic!Owner(teid)
    BY <2>1
  <2>4. Traffic!Owner(teid) \subseteq DOMAIN v1
    BY DEF Traffic!Owner
  <2>q. QED
    BY <2>2, <2>3, <2>4
<1>3. CASE v1' = v1
  BY <1>1, <1>3, Unmeasured
<1>4. CASE \E i \in DOMAIN v1 : v1' = [v1 EXCEPT ![i] = Traffic!Counted(v1[i], pkt)]
  <2> PICK i \in DOMAIN v1 : v1' = [v1 EXCEPT ![i] = Traffic!Counted(v1[i], pkt)]
    BY <1>4
  <2>1. PICK t : t = Traffic!Counted(v1[i], pkt)
    OBVIOUS
  <2>2. Measures(v1[i])
    BY DEF MeteringIInv
  <2>3. /\ Measures(t)
        /\ Traffic!Unreported(t) \in {Traffic!Unreported(v1[i]), Traffic!Unreported(v1[i]) + 1}
    BY <2>1, <2>2, CountedOnce
  <2>q. QED
    BY <1>1, <2>1, <2>3, Measured
<1>q. QED
  BY <1>2, <1>3, <1>4

\* The N6 task counts one it forwards, or buffers it uncounted.
LEMMA MeteringDownlink ==
    ASSUME MeteringIInv, NEW pkt, NEW pass, Traffic!N6Receive(pkt, pass)
    PROVE  MeteringIInv' /\ LedgerStep
<1>1. PICK i \in DOMAIN v1 :
        /\ v3' = v3 /\ v10' = v10
        /\ \/ v1' = [v1 EXCEPT ![i] = Traffic!Counted(v1[i], pkt)]
           \/ v1' = [v1 EXCEPT ![i] = Traffic!Buffered(v1[i], pkt)]
  BY DEF Traffic!N6Receive
<1>2. Measures(v1[i])
  BY DEF MeteringIInv
<1>3. CASE v1' = [v1 EXCEPT ![i] = Traffic!Counted(v1[i], pkt)]
  <2>1. PICK t : t = Traffic!Counted(v1[i], pkt)
    OBVIOUS
  <2>2. /\ Measures(t)
        /\ Traffic!Unreported(t) \in {Traffic!Unreported(v1[i]), Traffic!Unreported(v1[i]) + 1}
    BY <1>2, <2>1, CountedOnce
  <2>q. QED
    BY <1>1, <1>3, <2>1, <2>2, Measured
<1>4. CASE v1' = [v1 EXCEPT ![i] = Traffic!Buffered(v1[i], pkt)]
  <2>1. PICK t : t = Traffic!Buffered(v1[i], pkt)
    OBVIOUS
  <2>2. \E d, held : t = [v1[i] EXCEPT !["dldr"] = d, !["buffer"] = held]
    BY <2>1 DEF Traffic!Buffered
  <2>3. Measures(t) /\ Traffic!Unreported(t) = Traffic!Unreported(v1[i])
    BY <1>2, <2>2 DEF Measures, Traffic!Unreported
  <2>q. QED
    BY <1>1, <1>4, <2>1, <2>3, Measured
<1>q. QED
  BY <1>1, <1>3, <1>4

\* Every step of the UPF is a step of the ledger, or none.
LEMMA MeteringStep ==
    ASSUME Traffic!UpfAssumption, MeteringIInv, [Traffic!Next]_(Traffic!vars)
    PROVE  MeteringIInv' /\ LedgerStep
<1>1. CASE Traffic!Control
  <2> PICK p \in Peers : \/ Traffic!Ask(p)
                         \/ \E i \in Traffic!Known : Traffic!Change(p, i)
                         \/ \E i \in Traffic!Known : Traffic!Delete(p, i)
                         \/ Traffic!Heartbeat(p)
    BY <1>1 DEF Traffic!Control
  <2>1. CASE Traffic!Ask(p)
    <3>1. \E msg, want : Traffic!Establish(p, msg, want)
      BY <2>1 DEF Traffic!Ask
    <3>q. QED
      BY <3>1, MeteringEstablish
  <2>2. CASE \E i \in Traffic!Known : Traffic!Change(p, i)
    <3>1. \E i, msg, want : Traffic!Modify(p, i, msg, want)
      BY <2>2 DEF Traffic!Change
    <3>q. QED
      BY <3>1, MeteringModify
  <2>3. CASE \E i \in Traffic!Known : Traffic!Delete(p, i)
    BY <2>3, MeteringDelete
  <2>4. CASE Traffic!Heartbeat(p)
    BY <2>4, Unmeasured DEF Traffic!Heartbeat
  <2>q. QED
    BY <2>1, <2>2, <2>3, <2>4
<1>2. CASE Traffic!Data
  BY <1>2, MeteringUplink, MeteringDownlink DEF Traffic!Data
<1>3. CASE Traffic!N4Send \/ Traffic!N6Send \/ Traffic!N3Send \/ UNCHANGED Traffic!vars
  <2>1. v1' = v1 /\ v3' = v3 /\ v10' = v10
    BY <1>3 DEF Traffic!N4Send, Traffic!N6Send, Traffic!N3Send, Traffic!table, Traffic!vars, Traffic!history
  <2>q. QED
    BY <2>1, Unmeasured
<1>4. ASSUME NEW i, Traffic!TakeDlDataReport(i) PROVE MeteringIInv' /\ LedgerStep
  <2>1. PICK t : t = [v1[i] EXCEPT !["dldr"] = FALSE]
    OBVIOUS
  <2>2. i \in DOMAIN v1 /\ v3' = v3 /\ v10' = v10 /\ v1' = [v1 EXCEPT ![i] = t]
    BY <1>4, <2>1 DEF Traffic!TakeDlDataReport
  <2>3. Measures(v1[i])
    BY <2>2 DEF MeteringIInv
  <2>4. Measures(t) /\ Traffic!Unreported(t) = Traffic!Unreported(v1[i])
    BY <2>1, <2>3 DEF Measures, Traffic!Unreported
  <2>q. QED
    BY <2>2, <2>4, Measured
<1>q. QED
  BY <1>1, <1>2, <1>3, <1>4, MeteringReport DEF Traffic!Next

-----------------------------------------------------------------------------
(* Sessions *)

\* A part's behaviours are those of its module; in the others the part never begins.
LEMMA AuthorizationPart ==
    SessionsSpec => [](part = "authorization" => Authorization!AuthorizationIInv)
<1>1. part = "authorization" /\ SessionsInit => Authorization!AuthorizationIInv
  BY AuthorizationInit, SessionsAssumption DEF SessionsInit, SessionsAssumption
<1>2. part = "authorization" /\ [SessionsNext]_sessionsVars =>
        (part = "authorization")' /\ [Authorization!Next]_(Authorization!vars)
  BY DEF SessionsNext, sessionsVars, Authorization!vars
<1>3. Authorization!AuthorizationIInv /\ [Authorization!Next]_(Authorization!vars) => Authorization!AuthorizationIInv'
  BY AuthorizationStep, SessionsAssumption DEF SessionsAssumption
<1>4. ~(part = "authorization") /\ [SessionsNext]_sessionsVars => ~(part = "authorization")'
  BY DEF SessionsNext, sessionsVars
<1>q. QED
  BY <1>1, <1>2, <1>3, <1>4, PTL DEF SessionsSpec

LEMMA BindingPart ==
    SessionsSpec => [](part = "binding" => v2 \in MadeDecisions)
<1>1. part = "binding" /\ SessionsInit => v2 \in MadeDecisions
  BY DEF SessionsInit, Bound!Init
<1>2. part = "binding" /\ [SessionsNext]_sessionsVars => (part = "binding")' /\ v2' = v2
  BY DEF SessionsNext, sessionsVars
<1>3. v2 \in MadeDecisions /\ v2' = v2 => (v2 \in MadeDecisions)'
  OBVIOUS
<1>4. ~(part = "binding") /\ [SessionsNext]_sessionsVars => ~(part = "binding")'
  BY DEF SessionsNext, sessionsVars
<1>q. QED
  BY <1>1, <1>2, <1>3, <1>4, PTL DEF SessionsSpec

LEMMA RefreshPart ==
    SessionsSpec => [](part = "refresh" => Refreshed!BindingIInv)
<1>1. part = "refresh" /\ SessionsInit => Refreshed!BindingIInv
  BY BindingInit, SessionsAssumption DEF SessionsInit, SessionsAssumption
<1>2. part = "refresh" /\ [SessionsNext]_sessionsVars =>
        (part = "refresh")' /\ [Refreshed!Next]_(Refreshed!vars)
  BY DEF SessionsNext, sessionsVars, Refreshed!vars
<1>3. Refreshed!BindingIInv /\ [Refreshed!Next]_(Refreshed!vars) => Refreshed!BindingIInv'
  <2>1. Refreshed!BindingIInv /\ Refreshed!Next => Refreshed!BindingIInv'
    BY BindingStep, SessionsAssumption DEF SessionsAssumption
  <2>2. Refreshed!BindingIInv /\ UNCHANGED Refreshed!vars => Refreshed!BindingIInv'
    BY DEF Refreshed!BindingIInv, Refreshed!UpfFollowsPolicy, Refreshed!vars
  <2>q. QED
    BY <2>1, <2>2
<1>4. ~(part = "refresh") /\ [SessionsNext]_sessionsVars => ~(part = "refresh")'
  BY DEF SessionsNext, sessionsVars
<1>q. QED
  BY <1>1, <1>2, <1>3, <1>4, PTL DEF SessionsSpec

LEMMA PolicyPart ==
    SessionsSpec => [](part = "policy" => Policies!PolicyIInv)
<1>1. part = "policy" /\ SessionsInit => Policies!PolicyIInv
  BY PolicyInit, SessionsAssumption DEF SessionsInit, SessionsAssumption
<1>2. part = "policy" /\ [SessionsNext]_sessionsVars =>
        (part = "policy")' /\ [Policies!Next]_(Policies!vars)
  BY DEF SessionsNext, sessionsVars, Policies!vars
<1>3. Policies!PolicyIInv /\ [Policies!Next]_(Policies!vars) => Policies!PolicyIInv'
  <2>1. Policies!PolicyIInv /\ Policies!Next => Policies!PolicyIInv'
    BY PolicyStep, SessionsAssumption DEF SessionsAssumption
  <2>2. Policies!PolicyIInv /\ UNCHANGED Policies!vars => Policies!PolicyIInv'
    BY SameDecisions DEF Policies!PolicyIInv, Policies!PolicyTypes, Policies!vars
  <2>q. QED
    BY <2>1, <2>2
<1>4. ~(part = "policy") /\ [SessionsNext]_sessionsVars => ~(part = "policy")'
  BY DEF SessionsNext, sessionsVars
<1>q. QED
  BY <1>1, <1>2, <1>3, <1>4, PTL DEF SessionsSpec

LEMMA ChargingPart ==
    SessionsSpec => [](part = "charging" => Charged!ChargingIInv)
<1>1. part = "charging" /\ SessionsInit => Charged!ChargingIInv
  BY ChargingInit DEF SessionsInit
<1>2. part = "charging" /\ [SessionsNext]_sessionsVars =>
        (part = "charging")' /\ [Charged!Next]_(Charged!vars)
  BY DEF SessionsNext, sessionsVars, Charged!vars
<1>3. Charged!ChargingIInv /\ [Charged!Next]_(Charged!vars) => Charged!ChargingIInv'
  BY ChargingStep, SessionsAssumption DEF SessionsAssumption
<1>4. ~(part = "charging") /\ [SessionsNext]_sessionsVars => ~(part = "charging")'
  BY DEF SessionsNext, sessionsVars
<1>q. QED
  BY <1>1, <1>2, <1>3, <1>4, PTL DEF SessionsSpec

LEMMA TrafficPart ==
    SessionsSpec => [](part = "traffic" => MeteringIInv)
<1>1. part = "traffic" /\ SessionsInit => MeteringIInv
  BY MeteringInit DEF SessionsInit
<1>2. part = "traffic" /\ [SessionsNext]_sessionsVars =>
        (part = "traffic")' /\ [Traffic!Next]_(Traffic!vars)
  BY DEF SessionsNext, sessionsVars, Traffic!vars, Traffic!table, Traffic!history
<1>3. MeteringIInv /\ [Traffic!Next]_(Traffic!vars) => MeteringIInv'
  BY MeteringStep, SessionsAssumption DEF SessionsAssumption
<1>4. ~(part = "traffic") /\ [SessionsNext]_sessionsVars => ~(part = "traffic")'
  BY DEF SessionsNext, sessionsVars
<1>q. QED
  BY <1>1, <1>2, <1>3, <1>4, PTL DEF SessionsSpec

\* What create_sm_context activates the subscriber's documents allow, in the slice and with an
\* address family they name, what it denies they did not, and no address is with two sessions
\* or lost to its pool: for any number of requests against documents that an operator changes
\* any number of times, and pools of any size.
THEOREM AuthorizedSessions == SessionsSpec => []SessionsAreAuthorized
<1>1. (part = "authorization" => Authorization!AuthorizationIInv) => SessionsAreAuthorized
  BY AuthorizationHolds DEF SessionsAreAuthorized
<1>q. QED
  BY <1>1, AuthorizationPart, PTL

\* qos_flows makes the same flows of a decision in whatever order its maps are read; diff_flows
\* brings the UPF from one decision's flows to the next's; while a session's updates come one
\* at a time the SMF's decision is the one the PCF has on record, and a deleted one is not
\* stored again: for any number of rules, QoS decisions, sessions, updates and changes.
THEOREM DecisionsAreInForce == SessionsSpec => []PolicyIsInForce
<1>1. (part = "binding" => v2 \in MadeDecisions) =>
        (part = "binding" => Bound!BindingIsStable /\ Bound!FlowsRoundTrip)
  BY BindingHolds, SessionsAssumption DEF SessionsAssumption
<1>2. (part = "refresh" => Refreshed!BindingIInv) => (part = "refresh" => Refreshed!UpfFollowsPolicy)
  BY DEF Refreshed!BindingIInv
<1>3. (part = "policy" => Policies!PolicyIInv) =>
        (part = "policy" => Policies!MergedIsOnRecord /\ Policies!DeletedStaysDeleted)
  BY PolicyAgreed
<1>q. QED
  BY <1>1, <1>2, <1>3, BindingPart, RefreshPart, PolicyPart, PTL DEF PolicyIsInForce

\* handle_usage_reports, teardown_sm_context and the CHF never bill more than the UPF carried,
\* in any rating group: for every threshold, quota and volume, and any number of releases and of
\* calls that fail.
THEOREM BilledAtMostOnce == SessionsSpec => []NeverOverbilled
<1>1. (part = "charging" => Charged!ChargingIInv) => NeverOverbilled
  BY ChargingBill DEF NeverOverbilled
<1>q. QED
  BY <1>1, ChargingPart, PTL

\* Session::admit, take_due_report and remove implement the ledger: whatever packets, idle
\* periods, modifications and reports come in whatever order, every unit a session's URR
\* counts is billed once, by a threshold report or the final one: for any number of sessions,
\* flows, branches, packets and N4 requests.
THEOREM MeteringIsALedger == SessionsSpec => BilledOnce
<1>1. SessionsInit => Sums!Init
  <2> SUFFICES ASSUME SessionsInit PROVE Sums!Init
    OBVIOUS
  <2>1. CASE part = "traffic"
    <3>1. v1 = <<>> /\ \A i \in Traffic!Ids : v10[i].session = 0
      BY <2>1 DEF SessionsInit, Traffic!Init
    <3>2. DOMAIN v1 = {}
      BY <3>1
    <3>q. QED
      BY <2>1, <3>1, <3>2 DEF Sums!Init, Metered
  <2>2. CASE part # "traffic"
    BY <2>2 DEF Sums!Init, Metered
  <2>q. QED
    BY <2>1, <2>2
<1>2. (part = "traffic" => MeteringIInv) /\ [SessionsNext]_sessionsVars => [Sums!Next]_(Sums!vars)
  <2> SUFFICES ASSUME part = "traffic" => MeteringIInv, [SessionsNext]_sessionsVars
               PROVE  [Sums!Next]_(Sums!vars)
    OBVIOUS
  <2>1. CASE part # "traffic"
    <3>1. part' # "traffic"
      BY <2>1 DEF SessionsNext, sessionsVars
    <3>q. QED
      BY <2>1, <3>1 DEF Sums!vars, Metered
  <2>2. CASE part = "traffic"
    <3>1. part' = "traffic" /\ [Traffic!Next]_(Traffic!vars)
      BY <2>2 DEF SessionsNext, sessionsVars, Traffic!vars, Traffic!table, Traffic!history
    <3>2. LedgerStep
      BY <2>2, <3>1, MeteringStep, SessionsAssumption DEF SessionsAssumption
    <3>3. CASE Unmetered
      BY <2>2, <3>1, <3>3 DEF Unmetered, Volume, Account, Sums!vars, Metered
    <3>4. CASE \E i \in Traffic!Ids : Opens(i) \/ Carries(i) \/ Bills(i)
      <4> PICK i \in Traffic!Ids : Opens(i) \/ Carries(i) \/ Bills(i)
        BY <3>4
      <4>1. CASE Opens(i)
        <5>1. Sums!Open(i)
          BY <2>2, <3>1, <4>1 DEF Opens, Volume, Account, Sums!Open, Metered
        <5>q. QED
          BY <5>1 DEF Sums!Next
      <4>2. CASE Carries(i)
        <5>1. Sums!Carry(i)
          BY <2>2, <3>1, <4>2 DEF Carries, Volume, Account, Sums!Carry, Metered
        <5>q. QED
          BY <5>1 DEF Sums!Next
      <4>3. CASE Bills(i)
        <5>1. Sums!Bill(i)
          BY <2>2, <3>1, <4>3 DEF Bills, Volume, Account, Sums!Bill, Metered
        <5>2. Sums!Report(i) \/ Sums!Close(i)
          BY <2>2, <3>1, <4>3, <5>1 DEF Bills, Sums!Report, Sums!Close, Metered
        <5>q. QED
          BY <5>2 DEF Sums!Next
      <4>q. QED
        BY <4>1, <4>2, <4>3
    <3>q. QED
      BY <3>2, <3>3, <3>4 DEF LedgerStep
  <2>q. QED
    BY <2>1, <2>2
<1>q. QED
  BY <1>1, <1>2, TrafficPart, PTL DEF SessionsSpec, BilledOnce, Sums!Spec
=============================================================================
