------------------------------ MODULE Mobility ------------------------------
(***************************************************************************)
(* The AMF's side of registration, PDU sessions, paging and slices, and    *)
(* the gNB's side of the UEs, each with the environment its module gives   *)
(* it. The parts share no variable: part names the one a behaviour         *)
(* explores, and v1 .. v19 are that part's variables in the order its      *)
(* module declares them. A part that appears twice is the same module with *)
(* other bounds.                                                           *)
(*                                                                         *)
(* First what a part's module maintains, for any bounds, then the parts    *)
(* and their bounds, the composition with its properties, and its          *)
(* theorems.                                                               *)
(***************************************************************************)
EXTENDS Integers, Sequences, FiniteSetTheorems, TLAPS, TLC

CONSTANTS
    Parts,      \* the parts explored
    None, a, b,
    \* what the parts' modules are instantiated with
    TheRegistrations, TheResync, TheReturns, TheSession, TheTwoSessions, ThePaging, TheSlices, TheAreas

VARIABLES part, v1, v2, v3, v4, v5, v6, v7, v8, v9, v10, v11, v12, v13, v14, v15, v16, v17, v18, v19

mobilityVars == <<part, v1, v2, v3, v4, v5, v6, v7, v8, v9, v10, v11, v12, v13, v14, v15, v16, v17, v18, v19>>

-----------------------------------------------------------------------------
(* A part's module, with the bounds x the part gives it. *)

UeSessions(x) == INSTANCE AmfSessions WITH
    Psis <- x.psis, Returns <- x.returns, UeMay <- {}, MaxEstablish <- x.establish,
    MaxNetwork <- x.network, MaxConnections <- x.connections, MaxLost <- x.lost,
    MaxFailed <- x.failed, MaxForgets <- x.forgets,
    ctx <- v1, smf <- v2, gnb <- v3, ue <- v4, up <- v5, down <- v6, cmds <- v7, guards <- v8,
    sbi <- v9, astray <- v10, stale <- v11, spent <- v12

Paging(x) == INSTANCE AmfPaging WITH
    Gnbs <- x.gnbs, Tacs <- x.tacs, DefaultTac <- x.default, Plans <- x.plans, AreaCap <- x.cap,
    MaxSends <- x.sends, MaxCalls <- x.calls, MaxUpdates <- x.updates, MaxFaults <- x.faults,
    links <- v1, served <- v2, ue <- v3, ctx <- v4, loops <- v5, air <- v6, updates <- v7,
    faults <- v8

Selection(x) == INSTANCE SliceSelection WITH
    Slices <- x.slices, Tacs <- x.tacs, Rates <- x.rates, MaxProvisions <- x.provisions,
    MaxPolicies <- x.policies, MaxTables <- x.tables, MaxIdle <- x.idle, MaxSessions <- x.sessions,
    MaxUnreachable <- x.unreachable, udm <- v1, pcf <- v2, nssf <- v3, ctx <- v4, ran <- v5,
    ue <- v6, notes <- v7, cmds <- v8, n2 <- v9, spent <- v10

-----------------------------------------------------------------------------
(* Paging, for any bounds B of a part: v1 links, v2 served, v3 ue, v4 ctx, *)
(* v5 loops, v6 air, v7 updates, v8 faults.                                *)

\* A list cut to its first AreaCap elements.
LEMMA CapFacts ==
    ASSUME NEW CONSTANT B, NEW S, NEW s \in Seq(S), B.cap \in Nat
    PROVE  Paging(B)!Capped(s) \in Seq(S) /\ Len(Paging(B)!Capped(s)) <= B.cap /\ Paging(B)!Range(Paging(B)!Capped(s)) \subseteq S
BY DEF Paging!Capped, Paging!Range
LEMMA CapKeeps ==
    ASSUME NEW CONSTANT B, NEW S, NEW s \in Seq(S), NEW t \in S, B.cap \in Nat, Len(s) <= B.cap
    PROVE  Paging(B)!Range(s) \subseteq Paging(B)!Range(Paging(B)!Capped(Append(s, t)))
<1>1. ASSUME NEW i \in 1 .. Len(s) PROVE s[i] \in Paging(B)!Range(Paging(B)!Capped(Append(s, t)))
  <2> DEFINE l == Append(s, t)
  <2> DEFINE n == IF Len(l) < B.cap THEN Len(l) ELSE B.cap
  <2>1. l \in Seq(S) /\ Len(l) = Len(s) + 1 /\ l[i] = s[i] /\ n \in Nat /\ n <= Len(l) /\ i \in 1 .. n
    OBVIOUS
  <2>2. Len(SubSeq(l, 1, n)) = n /\ SubSeq(l, 1, n)[i] = l[i]
    BY <2>1
  <2>3. i \in DOMAIN SubSeq(l, 1, n) /\ Paging(B)!Capped(l) = SubSeq(l, 1, n)
    BY <2>1, <2>2 DEF Paging!Capped
  <2>q. QED
    BY <2>1, <2>2, <2>3 DEF Paging!Range
<1>q. QED
  BY <1>1 DEF Paging!Range

LEMMA AppendedTo == ASSUME NEW S, NEW s \in Seq(S), NEW t \in S PROVE Append(s, t) \in Seq(S)
OBVIOUS

LEMMA AreaFor ==
    ASSUME NEW CONSTANT B, NEW t \in B.tacs, NEW g \in B.gnbs, v1[g] \in Seq(B.tacs), B.cap \in Nat
    PROVE  LET area == Paging(B)!registration_area_for(t, g) IN
           area \in Seq(B.tacs) /\ Len(area) <= B.cap /\ Paging(B)!Range(area) \subseteq B.tacs
<1>1. Append(v1[g], t) \in Seq(B.tacs)
  BY AppendedTo
<1>q. QED
  BY <1>1, CapFacts DEF Paging!registration_area_for

LEMMA PagingInit == ASSUME NEW CONSTANT B, Paging(B)!PagingAssumption, Paging(B)!Init PROVE Paging(B)!PagingIInv
<1>1. Paging(B)!Init /\ Paging(B)!PagingAssumption
  OBVIOUS
<1>2. B.cap \in Nat
  BY DEF Paging!PagingAssumption
<1>3. v2 \in [B.gnbs -> Seq(B.tacs) \ {<<>>}]
  BY <1>1 DEF Paging!Init, Paging!PagingAssumption
<1>4. PICK g \in B.gnbs : \E t \in Paging(B)!Range(v2[g]) :
        LET area == Paging(B)!registration_area_for(t, g) IN
        /\ v3 = [st |-> "idle", gnb |-> g, tac |-> t, area |-> Paging(B)!Range(area), tmsi |-> 0]
        /\ v4 = [retained |-> TRUE, tac |-> t, area |-> area, tmsi |-> 0]
  BY <1>1 DEF Paging!Init
<1>b. PICK t \in Paging(B)!Range(v2[g]) :
        LET area == Paging(B)!registration_area_for(t, g) IN
        /\ v3 = [st |-> "idle", gnb |-> g, tac |-> t, area |-> Paging(B)!Range(area), tmsi |-> 0]
        /\ v4 = [retained |-> TRUE, tac |-> t, area |-> area, tmsi |-> 0]
  BY <1>4
<1>5. t \in B.tacs
  BY <1>3, <1>b DEF Paging!Range
<1>6. LET area == Paging(B)!registration_area_for(t, g) IN
      area \in Seq(B.tacs) /\ Len(area) <= B.cap /\ Paging(B)!Range(area) \subseteq B.tacs
  BY <1>1, <1>2, <1>3, <1>5, AreaFor DEF Paging!Init
<1> DEFINE area == Paging(B)!registration_area_for(t, g)
<1>7. /\ v3 = [st |-> "idle", gnb |-> g, tac |-> t, area |-> Paging(B)!Range(area), tmsi |-> 0]
      /\ v4 = [retained |-> TRUE, tac |-> t, area |-> area, tmsi |-> 0]
      /\ area \in Seq(B.tacs) /\ Len(area) <= B.cap /\ Paging(B)!Range(area) \subseteq B.tacs /\ v7 = 0
  BY <1>1, <1>b, <1>6 DEF Paging!Init
<1> HIDE DEF area
<1>q. QED
  BY <1>3, <1>5, <1>7 DEF Paging!PagingIInv, Paging!UeAreaIsPaged

LEMMA PagingStep == ASSUME NEW CONSTANT B, Paging(B)!PagingAssumption, Paging(B)!PagingIInv, [Paging(B)!Next]_(Paging(B)!vars) PROVE Paging(B)!PagingIInv'
<1>1. Paging(B)!PagingIInv /\ [Paging(B)!Next]_(Paging(B)!vars)
  OBVIOUS
<1>2. B.cap \in Nat
  BY DEF Paging!PagingAssumption
<1>a. ASSUME UNCHANGED <<v2, v3, v4, v7>> PROVE Paging(B)!PagingIInv'
  BY <1>1, <1>a DEF Paging!PagingIInv, Paging!UeAreaIsPaged
<1>u. CASE UNCHANGED Paging(B)!vars
  BY <1>u, <1>a DEF Paging!vars
<1>3. CASE Paging(B)!ServiceRequest
  <2>1. v4' = [v4 EXCEPT !.retained = FALSE, !.tac = v3.tac,
                           !.area = IF @ = <<>> \/ v3.tac \in Paging(B)!Range(@) THEN @ ELSE Paging(B)!Capped(Append(@, v3.tac))]
        /\ v3' = [v3 EXCEPT !.st = "connected"] /\ v2' = v2 /\ v7' = v7
    BY <1>3 DEF Paging!ServiceRequest
  <2>2. Append(v4.area, v3.tac) \in Seq(B.tacs) /\ v4.area \in Seq(B.tacs) /\ v3.tac \in B.tacs
    BY <1>1 DEF Paging!PagingIInv
  <2>a. PICK area : area = IF v4.area = <<>> \/ v3.tac \in Paging(B)!Range(v4.area) THEN v4.area
                           ELSE Paging(B)!Capped(Append(v4.area, v3.tac))
    OBVIOUS
  <2>b. v4' = [v4 EXCEPT !.retained = FALSE, !.tac = v3.tac, !.area = area]
    BY <2>1, <2>a
  <2>3. area \in Seq(B.tacs) /\ Len(area) <= B.cap /\ Paging(B)!Range(v4.area) \subseteq Paging(B)!Range(area)
    <3>1. Len(v4.area) <= B.cap
      BY <1>1 DEF Paging!PagingIInv
    <3>2. CASE area = v4.area
      BY <2>2, <3>1, <3>2
    <3>3. CASE area = Paging(B)!Capped(Append(v4.area, v3.tac))
      BY ONLY <1>2, <2>2, <3>1, <3>3, CapFacts, CapKeeps
    <3>q. QED
      BY <2>a, <3>2, <3>3
  <2>q. QED
    BY <1>1, <2>1, <2>b, <2>3 DEF Paging!PagingIInv, Paging!UeAreaIsPaged
<1>4. ASSUME NEW mobility \in BOOLEAN, Paging(B)!RegistrationUpdate(mobility) PROVE Paging(B)!PagingIInv'
  <2>1. PICK area : /\ area = IF mobility THEN Paging(B)!registration_area_for(v3.tac, v3.gnb) ELSE v4.area
                    /\ v4' = [retained |-> FALSE, tac |-> v3.tac, area |-> area, tmsi |-> v7']
                    /\ v3' = [v3 EXCEPT !.st = "connected", !.area = Paging(B)!Range(area), !.tmsi = v7']
                    /\ v2' = v2 /\ v7' = v7 + 1 /\ v1[v3.gnb] = v2[v3.gnb]
    BY <1>4 DEF Paging!RegistrationUpdate, Paging!Served
  <2>2. v4.area \in Seq(B.tacs) /\ Paging(B)!Range(v4.area) \subseteq B.tacs /\ Len(v4.area) <= B.cap
    BY <1>1 DEF Paging!PagingIInv, Paging!Range
  <2>3. area \in Seq(B.tacs) /\ Len(area) <= B.cap /\ Paging(B)!Range(area) \subseteq B.tacs
    BY <1>1, <1>2, <2>1, <2>2, AreaFor DEF Paging!PagingIInv
  <2>q. QED
    <3>1. v7' \in Nat
      BY <1>1, <2>1 DEF Paging!PagingIInv
    <3>2. v3' \in [st : {"idle", "connected"}, gnb : B.gnbs, tac : B.tacs, area : SUBSET B.tacs, tmsi : Nat] /\ v3'.area = Paging(B)!Range(area)
      BY <1>1, <2>1, <2>3, <3>1 DEF Paging!PagingIInv
    <3>3. v4' \in [retained : BOOLEAN, tac : B.tacs, area : Seq(B.tacs), tmsi : Nat] /\ v4'.area = area
      BY <1>1, <2>1, <2>3, <3>1 DEF Paging!PagingIInv
    <3>q. QED
      BY <1>1, <2>1, <2>3, <3>1, <3>2, <3>3 DEF Paging!PagingIInv, Paging!UeAreaIsPaged
<1>5. CASE Paging(B)!Release
  BY <1>1, <1>5 DEF Paging!Release, Paging!PagingIInv, Paging!UeAreaIsPaged
<1>6. ASSUME NEW g \in B.gnbs, NEW t \in B.tacs, Paging(B)!UeMoves(g, t) PROVE Paging(B)!PagingIInv'
  BY <1>1, <1>6 DEF Paging!UeMoves, Paging!PagingIInv, Paging!UeAreaIsPaged
<1>7. ASSUME NEW g \in B.gnbs, NEW plan \in B.plans[g], Paging(B)!GnbReconfigures(g, plan) PROVE Paging(B)!PagingIInv'
  <2>1. plan \in Seq(B.tacs) \ {<<>>} /\ plan[1] \in B.tacs
    BY DEF Paging!PagingAssumption
  <2>q. QED
    BY <1>1, <1>7, <2>1 DEF Paging!GnbReconfigures, Paging!PagingIInv, Paging!UeAreaIsPaged
<1>8. ASSUME NEW p \in v6, Paging(B)!PageUnheard(p) PROVE Paging(B)!PagingIInv'
  BY <1>8, <1>a DEF Paging!PageUnheard
<1>9. ASSUME NEW n \in Paging(B)!Calls, Paging(B)!page_ue(n) \/ Paging(B)!SendRound(n) \/ Paging(B)!Wake(n) PROVE Paging(B)!PagingIInv'
  BY <1>9, <1>a DEF Paging!page_ue, Paging!SendRound, Paging!Wake
<1>10. ASSUME NEW g \in B.gnbs, Paging(B)!GnbLost(g) \/ Paging(B)!GnbConnects(g) \/ Paging(B)!NgSetup(g) PROVE Paging(B)!PagingIInv'
  BY <1>10, <1>a DEF Paging!GnbLost, Paging!GnbConnects, Paging!NgSetup
<1>q. QED
  BY <1>1, <1>u, <1>3, <1>4, <1>5, <1>6, <1>7, <1>8, <1>9, <1>10 DEF Paging!Next

-----------------------------------------------------------------------------
(* Slice selection, for any bounds B of a part: v1 udm, v2 pcf, v3 nssf,   *)
(* v4 ctx, v5 ran, v6 ue, v7 notes, v8 cmds, v9 n2, v10 spent.             *)

\* A message the RAN is not told a value by changes nothing for it, one it is says what c has.
LEMMA RanHearsMore ==
    ASSUME NEW CONSTANT B, NEW S, NEW s \in Seq(S), NEW m \in S, NEW r, NEW c,
           IF Selection(B)!RanHears(m) THEN m.rate = c.rate /\ m.rfsp = c.rfsp ELSE Selection(B)!RanFollows(s, r, c)
    PROVE  Selection(B)!RanFollows(Append(s, m), r, c)
<1> DEFINE l == Append(s, m)
<1>1. /\ DOMAIN l = 1 .. Len(s) + 1 /\ DOMAIN s = 1 .. Len(s) /\ Len(s) \in Nat
      /\ l[Len(s) + 1] = m /\ \A i \in 1 .. Len(s) : l[i] = s[i]
  OBVIOUS
<1> HIDE DEF l
<1>2. SUFFICES ASSUME NEW f \in {"rate", "rfsp"}, c[f] # 0
               PROVE  /\ \A i \in DOMAIN l : /\ Selection(B)!RanTold(l[i], f)
                                             /\ \A j \in DOMAIN l : j > i => ~Selection(B)!RanTold(l[j], f)
                                             => l[i][f] = c[f]
                      /\ (\A i \in DOMAIN l : ~Selection(B)!RanTold(l[i], f)) => r[f] = c[f]
  BY DEF Selection!RanFollows, l
<1>3. CASE Selection(B)!RanHears(m)
  <2>1. m[f] = c[f] /\ Selection(B)!RanTold(m, f)
    <3>1. m["rate"] = c["rate"] /\ m["rfsp"] = c["rfsp"]
      BY <1>3
    <3>q. QED
      BY <1>2, <1>3, <3>1 DEF Selection!RanTold
  <2>2. ASSUME NEW i \in DOMAIN l, \A j \in DOMAIN l : j > i => ~Selection(B)!RanTold(l[j], f) PROVE i = Len(s) + 1
    BY <1>1, <2>1, <2>2
  <2>3. Len(s) + 1 \in DOMAIN l /\ Selection(B)!RanTold(l[Len(s) + 1], f)
    BY <1>1, <2>1
  <2>q. QED
    BY <1>1, <2>1, <2>2, <2>3
<1>4. CASE ~Selection(B)!RanHears(m)
  <2>0. ~Selection(B)!RanTold(m, f)
    BY <1>4 DEF Selection!RanTold
  <2>1. /\ \A i \in DOMAIN s : /\ Selection(B)!RanTold(s[i], f)
                               /\ \A j \in DOMAIN s : j > i => ~Selection(B)!RanTold(s[j], f)
                               => s[i][f] = c[f]
        /\ (\A i \in DOMAIN s : ~Selection(B)!RanTold(s[i], f)) => r[f] = c[f]
    BY <1>2, <1>4 DEF Selection!RanFollows
  <2>2. ASSUME NEW i \in DOMAIN l, Selection(B)!RanTold(l[i], f), \A j \in DOMAIN l : j > i => ~Selection(B)!RanTold(l[j], f)
        PROVE  l[i][f] = c[f]
    <3>1. i \in DOMAIN s /\ l[i] = s[i]
      BY <1>1, <2>0, <2>2
    <3>2. \A j \in DOMAIN s : j > i => ~Selection(B)!RanTold(s[j], f)
      BY <1>1, <2>2
    <3>q. QED
      BY <2>1, <2>2, <3>1, <3>2
  <2>3. ASSUME \A i \in DOMAIN l : ~Selection(B)!RanTold(l[i], f) PROVE r[f] = c[f]
    <3>1. \A i \in DOMAIN s : ~Selection(B)!RanTold(s[i], f)
      BY <1>1, <2>3
    <3>q. QED
      BY <2>1, <3>1
  <2>q. QED
    BY <2>2, <2>3
<1>q. QED
  BY <1>3, <1>4

LEMMA UeHearsMore ==
    ASSUME NEW CONSTANT B, NEW S, NEW s \in Seq(S), NEW m \in S, NEW u, NEW nssai,
           IF Selection(B)!UeHears(m) THEN m.allowed = nssai ELSE Selection(B)!UeFollows(s, u, nssai)
    PROVE  Selection(B)!UeFollows(Append(s, m), u, nssai)
<1> DEFINE l == Append(s, m)
<1>1. /\ DOMAIN l = 1 .. Len(s) + 1 /\ DOMAIN s = 1 .. Len(s) /\ Len(s) \in Nat
      /\ l[Len(s) + 1] = m /\ \A i \in 1 .. Len(s) : l[i] = s[i]
  OBVIOUS
<1>2. CASE Selection(B)!UeHears(m)
  <2>1. ASSUME NEW i \in DOMAIN l, \A j \in DOMAIN l : j > i => ~Selection(B)!UeHears(l[j]) PROVE i = Len(s) + 1
    BY <1>1, <1>2, <2>1
  <2>2. Len(s) + 1 \in DOMAIN l /\ Selection(B)!UeHears(l[Len(s) + 1])
    BY <1>1, <1>2
  <2>q. QED
    BY <1>1, <1>2, <2>1, <2>2 DEF Selection!UeFollows
<1>3. CASE ~Selection(B)!UeHears(m)
  <2>1. Selection(B)!UeFollows(s, u, nssai)
    BY <1>3
  <2>2. ASSUME NEW i \in DOMAIN l, Selection(B)!UeHears(l[i]), \A j \in DOMAIN l : j > i => ~Selection(B)!UeHears(l[j])
        PROVE  l[i].allowed = nssai
    <3>1. i \in DOMAIN s /\ l[i] = s[i]
      BY <1>1, <1>3, <2>2
    <3>2. \A j \in DOMAIN s : j > i => ~Selection(B)!UeHears(s[j])
      BY <1>1, <2>2
    <3>q. QED
      BY <2>1, <2>2, <3>1, <3>2 DEF Selection!UeFollows
  <2>3. ASSUME \A i \in DOMAIN l : ~Selection(B)!UeHears(l[i]) PROVE u = nssai
    <3>1. \A i \in DOMAIN s : ~Selection(B)!UeHears(s[i])
      BY <1>1, <2>3
    <3>q. QED
      BY <2>1, <3>1 DEF Selection!UeFollows
  <2>q. QED
    BY <2>2, <2>3 DEF Selection!UeFollows
<1>q. QED
  BY <1>2, <1>3

\* The first message is taken.
LEMMA RanTakes ==
    ASSUME NEW CONSTANT B, NEW S, NEW s \in Seq(S), s # <<>>, NEW r, NEW r2, NEW c, Selection(B)!RanFollows(s, r, c),
           \A f \in {"rate", "rfsp"} : r2[f] = IF Selection(B)!RanTold(Head(s), f) THEN Head(s)[f] ELSE r[f]
    PROVE  Selection(B)!RanFollows(Tail(s), r2, c)
<1> DEFINE l == Tail(s)
<1>1. /\ Len(s) \in Nat \ {0} /\ DOMAIN l = 1 .. Len(s) - 1 /\ DOMAIN s = 1 .. Len(s)
      /\ s[1] = Head(s) /\ \A i \in 1 .. Len(s) - 1 : l[i] = s[i + 1]
  OBVIOUS
<1> HIDE DEF l
<1>2. SUFFICES ASSUME NEW f \in {"rate", "rfsp"}, c[f] # 0
               PROVE  /\ \A i \in DOMAIN l : /\ Selection(B)!RanTold(l[i], f)
                                             /\ \A j \in DOMAIN l : j > i => ~Selection(B)!RanTold(l[j], f)
                                             => l[i][f] = c[f]
                      /\ (\A i \in DOMAIN l : ~Selection(B)!RanTold(l[i], f)) => r2[f] = c[f]
  BY DEF Selection!RanFollows, l
<1>3. /\ \A i \in DOMAIN s : /\ Selection(B)!RanTold(s[i], f)
                             /\ \A j \in DOMAIN s : j > i => ~Selection(B)!RanTold(s[j], f)
                             => s[i][f] = c[f]
      /\ (\A i \in DOMAIN s : ~Selection(B)!RanTold(s[i], f)) => r[f] = c[f]
  BY <1>2 DEF Selection!RanFollows
<1>4. r2[f] = IF Selection(B)!RanTold(Head(s), f) THEN Head(s)[f] ELSE r[f]
  OBVIOUS
<1>5. ASSUME NEW i \in DOMAIN l, Selection(B)!RanTold(l[i], f), \A j \in DOMAIN l : j > i => ~Selection(B)!RanTold(l[j], f)
      PROVE  l[i][f] = c[f]
  <2>1. i + 1 \in DOMAIN s /\ s[i + 1] = l[i]
    BY <1>1
  <2>2. ASSUME NEW j \in DOMAIN s, j > i + 1 PROVE ~Selection(B)!RanTold(s[j], f)
    <3>1. j - 1 \in DOMAIN l /\ j - 1 > i /\ l[j - 1] = s[j]
      BY <1>1, <2>2
    <3>q. QED
      BY <1>5, <3>1
  <2>q. QED
    BY <1>3, <1>5, <2>1, <2>2
<1>6. ASSUME \A i \in DOMAIN l : ~Selection(B)!RanTold(l[i], f) PROVE r2[f] = c[f]
  <2>1. ASSUME NEW j \in DOMAIN s, j > 1 PROVE ~Selection(B)!RanTold(s[j], f)
    <3>1. j - 1 \in DOMAIN l /\ l[j - 1] = s[j]
      BY <1>1, <2>1
    <3>q. QED
      BY <1>6, <3>1
  <2>2. 1 \in DOMAIN s /\ \A j \in DOMAIN s : j = 1 \/ j > 1
    BY <1>1
  <2>q. QED
    BY <1>1, <1>3, <1>4, <2>1, <2>2
<1>q. QED
  BY <1>5, <1>6

LEMMA UeTakes ==
    ASSUME NEW CONSTANT B, NEW S, NEW s \in Seq(S), s # <<>>, NEW u, NEW u2, NEW nssai, Selection(B)!UeFollows(s, u, nssai),
           IF Selection(B)!UeHears(Head(s)) THEN u2 = Head(s).allowed ELSE u2 = u
    PROVE  Selection(B)!UeFollows(Tail(s), u2, nssai)
<1> DEFINE l == Tail(s)
<1>1. /\ Len(s) \in Nat \ {0} /\ DOMAIN l = 1 .. Len(s) - 1 /\ DOMAIN s = 1 .. Len(s)
      /\ s[1] = Head(s) /\ \A i \in 1 .. Len(s) - 1 : l[i] = s[i + 1]
  OBVIOUS
<1>2. ASSUME NEW i \in DOMAIN l, Selection(B)!UeHears(l[i]), \A j \in DOMAIN l : j > i => ~Selection(B)!UeHears(l[j])
      PROVE  l[i].allowed = nssai
  <2>1. i + 1 \in DOMAIN s /\ s[i + 1] = l[i]
    BY <1>1
  <2>2. ASSUME NEW j \in DOMAIN s, j > i + 1 PROVE ~Selection(B)!UeHears(s[j])
    <3>1. j - 1 \in DOMAIN l /\ j - 1 > i /\ l[j - 1] = s[j]
      BY <1>1, <2>2
    <3>q. QED
      BY <1>2, <3>1
  <2>q. QED
    BY <1>2, <2>1, <2>2 DEF Selection!UeFollows
<1>3. ASSUME \A i \in DOMAIN l : ~Selection(B)!UeHears(l[i]) PROVE u2 = nssai
  <2>1. ASSUME NEW j \in DOMAIN s, j > 1 PROVE ~Selection(B)!UeHears(s[j])
    <3>1. j - 1 \in DOMAIN l /\ l[j - 1] = s[j]
      BY <1>1, <2>1
    <3>q. QED
      BY <1>3, <3>1
  <2>2. 1 \in DOMAIN s /\ \A j \in DOMAIN s : j = 1 \/ j > 1
    BY <1>1
  <2>q. QED
    BY <1>1, <2>1, <2>2 DEF Selection!UeFollows
<1>q. QED
  BY <1>2, <1>3 DEF Selection!UeFollows

\* The AMF works the rate out again.
LEMMA RecomputedType ==
    ASSUME NEW CONSTANT B, NEW c \in Selection(B)!Contexts
    PROVE  /\ Selection(B)!recompute_ue_ambr(c) \in Selection(B)!Contexts /\ Selection(B)!InForce(Selection(B)!recompute_ue_ambr(c))
           /\ Selection(B)!recompute_ue_ambr(c).rfsp = c.rfsp /\ Selection(B)!recompute_ue_ambr(c).cm = c.cm
           /\ Selection(B)!recompute_ue_ambr(c).allowed = c.allowed /\ Selection(B)!recompute_ue_ambr(c).ses = c.ses
           /\ Selection(B)!recompute_ue_ambr(c).releasing = c.releasing
BY DEF Selection!recompute_ue_ambr, Selection!InForce, Selection!Contexts

LEMMA Applied ==
    ASSUME NEW CONSTANT B, NEW d \in Selection(B)!Changes, NEW n \in Nat PROVE Selection(B)!Apply(d, n) \in Nat
BY DEF Selection!Changes, Selection!Apply, Selection!Keep, Selection!Clear

LEMMA UpdatedType ==
    ASSUME NEW CONSTANT B, NEW c \in Selection(B)!Contexts, NEW d \in [rate : Selection(B)!Changes, rfsp : Selection(B)!Changes]
    PROVE  /\ Selection(B)!Updated(c, d) \in Selection(B)!Contexts /\ Selection(B)!InForce(Selection(B)!Updated(c, d)) /\ Selection(B)!Updated(c, d).cm = c.cm
           /\ Selection(B)!Updated(c, d).allowed = c.allowed /\ Selection(B)!Updated(c, d).ses = c.ses
           /\ Selection(B)!Updated(c, d).releasing = c.releasing
<1> DEFINE e == [c EXCEPT !.pcfRate = Selection(B)!Apply(d.rate, @), !.rfsp = Selection(B)!Apply(d.rfsp, @)]
<1>1. e \in Selection(B)!Contexts /\ e.cm = c.cm /\ e.allowed = c.allowed /\ e.ses = c.ses /\ e.releasing = c.releasing
  <2>1. Selection(B)!Apply(d.rate, c.pcfRate) \in Nat /\ Selection(B)!Apply(d.rfsp, c.rfsp) \in Nat
    BY Applied DEF Selection!Contexts
  <2>q. QED
    BY <2>1 DEF Selection!Contexts
<1>2. Selection(B)!Updated(c, d) = Selection(B)!recompute_ue_ambr(e)
  BY DEF Selection!Updated
<1> HIDE DEF e
<1>q. QED
  BY <1>1, <1>2, RecomputedType

LEMMA SelectionInit == ASSUME NEW CONSTANT B, Selection(B)!SelectionBounds, Selection(B)!Init PROVE Selection(B)!SelectionIInv
<1>1. v1 \in [nssai : SUBSET B.slices, rate : Nat]
  BY DEF Selection!Init, Selection!SelectionBounds
<1>q. QED
  BY <1>1 DEF Selection!Init, Selection!SelectionIInv, Selection!SelectionTypes, Selection!Policies, Selection!SelectionBounds

LEMMA Fetched ==
    ASSUME NEW CONSTANT B, v1 \in [nssai : SUBSET B.slices, rate : Nat] PROVE Selection(B)!fetch_am_data \in Selection(B)!AmData
<1>1. v1.nssai \in Selection(B)!Nssai /\ Selection(B)!Unknown \in Selection(B)!Nssai /\ v1.rate \in Nat
  BY DEF Selection!Nssai
<1>q. QED
  BY <1>1 DEF Selection!fetch_am_data, Selection!AmData

\* A step that leaves the context, the downlink and what the RAN and the UE have alone.
LEMMA SelectionSame ==
    ASSUME NEW CONSTANT B, Selection(B)!SelectionIInv, UNCHANGED <<v4, v5, v6, v9>>,
           v1' \in [nssai : SUBSET B.slices, rate : Nat], v2' \in [rate : Nat, rfsp : Nat],
           \A note \in v7' : note.at = "read" => note.data \in Selection(B)!AmData, v8' \in Seq(Selection(B)!Commands),
           v4.cm = "none" => v8' = <<>> /\ v7' = {}
    PROVE  Selection(B)!SelectionIInv'
<1>1. Selection(B)!SelectionTypes'
  BY DEF Selection!SelectionIInv, Selection!SelectionTypes
<1>2. v4.cm = "connected" => Selection(B)!RanFollows(v9', v5', v4')
  BY DEF Selection!SelectionIInv
<1>3. v4.cm # "none" => Selection(B)!InForce(v4')
  BY DEF Selection!SelectionIInv
<1>4. v4.cm # "none" /\ v4.allowed # Selection(B)!Unknown =>
        v4.ses \ v4.releasing \subseteq v4.allowed /\ Selection(B)!UeFollows(v9', v6', v4'.allowed)
  BY DEF Selection!SelectionIInv
<1>q. QED
  BY <1>1, <1>2, <1>3, <1>4 DEF Selection!SelectionIInv

\* A step of the context and the downlink.
LEMMA SelectionMoves ==
    ASSUME NEW CONSTANT B, Selection(B)!SelectionTypes, UNCHANGED <<v1, v2, v7>>, v8' \in Seq(Selection(B)!Commands),
           v4'.cm = "connected", v4' \in Selection(B)!Contexts, Selection(B)!InForce(v4'), v9' \in Seq(Selection(B)!Downlink),
           Selection(B)!RanFollows(v9', v5', v4'),
           v4'.allowed # Selection(B)!Unknown =>
               v4'.ses \ v4'.releasing \subseteq v4'.allowed /\ Selection(B)!UeFollows(v9', v6', v4'.allowed)
    PROVE  Selection(B)!SelectionIInv'
BY DEF Selection!SelectionIInv, Selection!SelectionTypes

LEMMA SelectionStep ==
    ASSUME NEW CONSTANT B, Selection(B)!SelectionBounds, Selection(B)!SelectionIInv, [Selection(B)!Next]_(Selection(B)!vars) PROVE Selection(B)!SelectionIInv'
<1>i. /\ v1 \in [nssai : SUBSET B.slices, rate : Nat] /\ v2 \in [rate : Nat, rfsp : Nat]
      /\ v4.cm = "none" \/ v4 \in Selection(B)!Contexts
      /\ \A note \in v7 : note.at = "read" => note.data \in Selection(B)!AmData
      /\ v8 \in Seq(Selection(B)!Commands) /\ v9 \in Seq(Selection(B)!Downlink)
      /\ v4.cm = "none" => v8 = <<>> /\ v7 = {}
  BY DEF Selection!SelectionIInv, Selection!SelectionTypes
<1>a. ASSUME UNCHANGED <<v1, v2, v4, v5, v6, v7, v8, v9>> PROVE Selection(B)!SelectionIInv'
  BY <1>a, <1>i, SelectionSame
<1>u. CASE UNCHANGED Selection(B)!vars
  BY <1>u, <1>a DEF Selection!vars
<1>1. ASSUME NEW tac \in B.tacs, NEW R \in SUBSET B.slices, NEW out \in SUBSET {"udm", "pcf", "nssf"},
             Selection(B)!on_security_mode_complete(tac, R, out)
      PROVE  Selection(B)!SelectionIInv'
  <2> DEFINE data == IF "udm" \in out THEN Selection(B)!NoData ELSE Selection(B)!fetch_am_data
             policy == Selection(B)!create_am_policy(out)
             decision == IF data.nssai = Selection(B)!Unknown THEN [allowed |-> {}, rejected |-> {}]
                         ELSE Selection(B)!select_slices(tac, R, data.nssai, out)
             c == [cm |-> "connected", tac |-> tac, selected |-> "nssf" \notin out,
                   allowed |-> IF data.nssai = Selection(B)!Unknown THEN Selection(B)!Unknown ELSE decision.allowed,
                   subRate |-> data.rate, pcfRate |-> policy.rate, rate |-> 0, rfsp |-> policy.rfsp,
                   ses |-> {}, releasing |-> {}, pending |-> Selection(B)!NoPolicy, policy |-> "pcf" \notin out]
             m == [k |-> "context", rate |-> v4'.rate, rfsp |-> c.rfsp, allowed |-> decision.allowed]
  <2>1. v4.cm = "none" /\ UNCHANGED <<v1, v2, v3, v5, v6, v7, v8>>
    BY <1>1 DEF Selection!on_security_mode_complete
  <2>2. \/ UNCHANGED <<v4, v9>>
        \/ v4' = Selection(B)!recompute_ue_ambr(c) /\ v9' = Append(v9, m)
    BY <1>1 DEF Selection!on_security_mode_complete
  <2>3. CASE UNCHANGED <<v4, v9>>
    BY <1>a, <2>1, <2>3
  <2>4. CASE v4' = Selection(B)!recompute_ue_ambr(c) /\ v9' = Append(v9, m)
    <3>1. data \in Selection(B)!AmData
      BY <1>i, Fetched DEF Selection!NoData, Selection!AmData, Selection!Nssai
    <3>2. policy.rate \in Nat /\ policy.rfsp \in Nat
      BY <1>i DEF Selection!create_am_policy
    <3>3. decision.allowed \in SUBSET B.slices
      <4>1. data.nssai = Selection(B)!Unknown \/ data.nssai \in SUBSET B.slices
        BY <3>1 DEF Selection!AmData, Selection!Nssai
      <4>q. QED
        BY <4>1 DEF Selection!select_slices, Selection!select, Selection!compute_nssai
    <3>4. c \in Selection(B)!Contexts
      <4>1. Selection(B)!NoPolicy \in [rate : Selection(B)!Changes, rfsp : Selection(B)!Changes]
        BY DEF Selection!NoPolicy, Selection!Changes, Selection!Keep
      <4>2. data.rate \in Nat
        BY <3>1 DEF Selection!AmData
      <4>3. (IF data.nssai = Selection(B)!Unknown THEN Selection(B)!Unknown ELSE decision.allowed) \in Selection(B)!Nssai
        BY <3>3 DEF Selection!Nssai
      <4> HIDE DEF data, policy, decision
      <4>q. QED
        BY <3>2, <3>3, <4>1, <4>2, <4>3 DEF Selection!Contexts
    <3>5. /\ v4' \in Selection(B)!Contexts /\ Selection(B)!InForce(v4') /\ v4'.rfsp = policy.rfsp /\ v4'.cm = "connected"
          /\ v4'.allowed = (IF data.nssai = Selection(B)!Unknown THEN Selection(B)!Unknown ELSE decision.allowed)
          /\ v4'.ses = {}
      <4> HIDE DEF data, policy, decision
      <4>q. QED
        <5>1. /\ c.rfsp = policy.rfsp /\ c.cm = "connected" /\ c.ses = {}
              /\ c.allowed = (IF data.nssai = Selection(B)!Unknown THEN Selection(B)!Unknown ELSE decision.allowed)
          OBVIOUS
        <5>2. v4' = Selection(B)!recompute_ue_ambr(c)
          BY <2>4
        <5> HIDE DEF c
        <5>q. QED
          BY <3>4, <5>1, <5>2, RecomputedType
    <3>6. /\ m \in Selection(B)!Downlink /\ Selection(B)!RanHears(m) /\ Selection(B)!UeHears(m) /\ m.rate = v4'.rate /\ m.rfsp = v4'.rfsp
          /\ m.allowed = decision.allowed
      <4>1. v4'.rate \in Nat /\ decision.allowed \in Selection(B)!Nssai
        BY <3>5, <3>3 DEF Selection!Contexts, Selection!Nssai
      <4>q. QED
        BY <4>1, <3>2, <3>5 DEF Selection!Downlink, Selection!RanHears, Selection!UeHears
    <3> HIDE DEF data, policy, decision, m
    <3>a. v9 \in Seq(Selection(B)!Downlink) /\ v9' = Append(v9, m)
      BY <1>i, <2>4
    <3>7. Selection(B)!RanFollows(v9', v5, v4') /\ v9' \in Seq(Selection(B)!Downlink)
      BY ONLY <3>6, <3>a, RanHearsMore
    <3>8. v4'.allowed # Selection(B)!Unknown => Selection(B)!UeFollows(v9', v6, v4'.allowed)
      BY <3>5, <3>6, <3>a, UeHearsMore
    <3>q. QED
      BY <1>i, <2>1, <3>5, <3>7, <3>8 DEF Selection!SelectionIInv, Selection!SelectionTypes
  <2>q. QED
    BY <2>2, <2>3, <2>4
<1>2. ASSUME NEW s \in B.slices, Selection(B)!Establish(s) PROVE Selection(B)!SelectionIInv'
  <2>1. /\ v4.cm = "connected" /\ (v4.allowed # Selection(B)!Unknown => s \in v4.allowed)
        /\ v4' = [v4 EXCEPT !.ses = @ \cup {s}] /\ UNCHANGED <<v1, v2, v5, v6, v7, v8, v9>>
    BY <1>2 DEF Selection!Establish
  <2>2. /\ v4' \in Selection(B)!Contexts /\ v4'.cm = "connected" /\ v4'.allowed = v4.allowed
        /\ v4'.rate = v4.rate /\ v4'.rfsp = v4.rfsp /\ v4'.pcfRate = v4.pcfRate
        /\ v4'.subRate = v4.subRate /\ v4'.ses = v4.ses \cup {s} /\ v4'.releasing = v4.releasing
    BY <2>1, <1>i DEF Selection!Contexts
  <2>3. Selection(B)!RanFollows(v9', v5', v4') /\ Selection(B)!InForce(v4')
    BY <2>1, <2>2 DEF Selection!SelectionIInv, Selection!RanFollows, Selection!InForce
  <2>4. v4'.allowed # Selection(B)!Unknown =>
            v4'.ses \ v4'.releasing \subseteq v4'.allowed /\ Selection(B)!UeFollows(v9', v6', v4'.allowed)
    BY <2>1, <2>2 DEF Selection!SelectionIInv
  <2>q. QED
    BY <1>i, <2>1, <2>2, <2>3, <2>4, SelectionMoves DEF Selection!SelectionIInv
<1>3. ASSUME NEW s \in B.slices, Selection(B)!Released(s) PROVE Selection(B)!SelectionIInv'
  <2>1. /\ v4.cm = "connected"
        /\ v4' = [v4 EXCEPT !.ses = @ \ {s}, !.releasing = @ \ {s}]
        /\ UNCHANGED <<v1, v2, v5, v6, v7, v8, v9>>
    BY <1>3 DEF Selection!Released
  <2>2. /\ v4' \in Selection(B)!Contexts /\ v4'.cm = "connected" /\ v4'.allowed = v4.allowed
        /\ v4'.rate = v4.rate /\ v4'.rfsp = v4.rfsp /\ v4'.pcfRate = v4.pcfRate
        /\ v4'.subRate = v4.subRate /\ v4'.ses = v4.ses \ {s} /\ v4'.releasing = v4.releasing \ {s}
    BY <2>1, <1>i DEF Selection!Contexts
  <2>q. QED
    BY <1>i, <2>1, <2>2, SelectionMoves DEF Selection!SelectionIInv, Selection!RanFollows, Selection!InForce
<1>4. ASSUME NEW tac \in B.tacs, NEW S \in SUBSET B.slices, Selection(B)!set_availability(tac, S) PROVE Selection(B)!SelectionIInv'
  BY <1>4, <1>a DEF Selection!set_availability
<1>5. ASSUME NEW S \in SUBSET B.slices, NEW r \in B.rates, Selection(B)!Provision(S, r) PROVE Selection(B)!SelectionIInv'
  <2>1. v1' \in [nssai : SUBSET B.slices, rate : Nat]
    BY <1>5 DEF Selection!Provision, Selection!SelectionBounds
  <2>q. QED
    BY <1>5, <1>i, <2>1, SelectionSame DEF Selection!Provision
<1>6. ASSUME NEW note \in v7, Selection(B)!SdmRead(note) PROVE Selection(B)!SelectionIInv'
  <2>1. Selection(B)!fetch_am_data \in Selection(B)!AmData
    BY <1>i, Fetched
  <2>q. QED
    BY <1>6, <1>i, <2>1, SelectionSame DEF Selection!SdmRead
<1>7. ASSUME NEW note \in v7, Selection(B)!SdmPost(note) PROVE Selection(B)!SelectionIInv'
  <2>1. [k |-> "subscribed", data |-> note.data] \in Selection(B)!Commands
    BY <1>7, <1>i DEF Selection!SdmPost, Selection!Commands
  <2>q. QED
    BY <1>7, <1>i, <2>1, SelectionSame DEF Selection!SdmPost
<1>8. ASSUME NEW p \in Selection(B)!Policies, Selection(B)!am_policy_notify(p) PROVE Selection(B)!SelectionIInv'
  <2> DEFINE d == [rate |-> Selection(B)!Delta(v2.rate, p.rate), rfsp |-> Selection(B)!Delta(v2.rfsp, p.rfsp)]
  <2>1. /\ v4.cm # "none" /\ v2' = p /\ UNCHANGED <<v1, v5, v6, v7, v9>>
        /\ IF v4.cm = "connected"
           THEN v8' = Append(v8, [k |-> "policy", d |-> d]) /\ UNCHANGED v4
           ELSE v4' = [v4 EXCEPT !.pending = d] /\ UNCHANGED v8
    BY <1>8 DEF Selection!am_policy_notify
  <2>2. p \in [rate : Nat, rfsp : Nat] /\ v2' \in [rate : Nat, rfsp : Nat]
    BY <2>1 DEF Selection!Policies, Selection!SelectionBounds
  <2>3. d \in [rate : Selection(B)!Changes, rfsp : Selection(B)!Changes]
    <3>1. ASSUME NEW o \in Nat, NEW n \in Nat PROVE Selection(B)!Delta(o, n) \in Selection(B)!Changes
      BY DEF Selection!Delta, Selection!Changes, Selection!Keep, Selection!Clear, Selection!Set
    <3>q. QED
      BY <1>i, <2>2, <3>1
  <2> HIDE DEF d
  <2>4. CASE v4.cm = "connected"
    <3>1. v8' \in Seq(Selection(B)!Commands)
      <4>1. [k |-> "policy", d |-> d] \in Selection(B)!Commands
        BY <2>3 DEF Selection!Commands
      <4>2. v8' = Append(v8, [k |-> "policy", d |-> d])
        BY <2>1, <2>4
      <4>q. QED
        BY <1>i, <4>1, <4>2
    <3>q. QED
      BY <1>i, <2>1, <2>2, <2>4, <3>1, SelectionSame
  <2>5. CASE v4.cm # "connected"
    <3>1. /\ v4' \in Selection(B)!Contexts /\ v4'.cm = v4.cm /\ v4'.allowed = v4.allowed
          /\ v4'.rate = v4.rate /\ v4'.pcfRate = v4.pcfRate /\ v4'.subRate = v4.subRate
          /\ v4'.ses = v4.ses /\ v4'.releasing = v4.releasing
      BY <2>1, <2>3, <2>5, <1>i DEF Selection!Contexts
    <3>q. QED
      BY <1>i, <2>1, <2>2, <2>5, <3>1 DEF Selection!SelectionIInv, Selection!SelectionTypes, Selection!InForce
  <2>q. QED
    BY <2>4, <2>5
<1>9. ASSUME NEW tac \in B.tacs, NEW update \in BOOLEAN, Selection(B)!on_service_request(tac, update) PROVE Selection(B)!SelectionIInv'
  <2> DEFINE c == [v4 EXCEPT !.cm = "connected", !.tac = tac, !.pending = Selection(B)!NoPolicy]
             setup == [k |-> IF update /\ c.allowed # Selection(B)!Unknown THEN "context" ELSE "service",
                       rate |-> c.rate, rfsp |-> c.rfsp, allowed |-> c.allowed]
             modify == [k |-> "modify", rate |-> v4'.rate, rfsp |-> v4'.rfsp]
  <2>1. /\ v4.cm = "idle" /\ UNCHANGED <<v1, v2, v5, v6, v7, v8>>
        /\ IF v4.pending = Selection(B)!NoPolicy THEN v4' = c /\ v9' = Append(v9, setup)
           ELSE v4' = Selection(B)!Updated(c, v4.pending) /\ v9' = v9 \o <<setup, modify>>
    BY <1>9 DEF Selection!on_service_request
  <2>2. /\ c \in Selection(B)!Contexts /\ c.cm = "connected" /\ c.allowed = v4.allowed /\ c.rate = v4.rate
        /\ c.pcfRate = v4.pcfRate /\ c.subRate = v4.subRate /\ c.rfsp = v4.rfsp
        /\ c.ses = v4.ses /\ c.releasing = v4.releasing
    <3>1. Selection(B)!NoPolicy \in [rate : Selection(B)!Changes, rfsp : Selection(B)!Changes]
      BY DEF Selection!NoPolicy, Selection!Changes, Selection!Keep
    <3>q. QED
      BY <1>i, <2>1, <3>1 DEF Selection!Contexts
  <2>3. Selection(B)!InForce(c) /\ (c.allowed # Selection(B)!Unknown => c.ses \ c.releasing \subseteq c.allowed /\ Selection(B)!UeFollows(v9, v6, c.allowed))
    BY <2>1, <2>2 DEF Selection!SelectionIInv, Selection!InForce
  <2>4. setup \in Selection(B)!Downlink /\ Selection(B)!RanHears(setup) /\ setup.rate = c.rate /\ setup.rfsp = c.rfsp
        /\ setup.allowed = c.allowed
    BY <2>2 DEF Selection!Downlink, Selection!RanHears, Selection!Contexts
  <2> HIDE DEF c, setup
  <2>5. /\ Append(v9, setup) \in Seq(Selection(B)!Downlink)
        /\ Selection(B)!RanFollows(Append(v9, setup), v5, c)
        /\ c.allowed # Selection(B)!Unknown => Selection(B)!UeFollows(Append(v9, setup), v6, c.allowed)
    BY <1>i, <2>3, <2>4, RanHearsMore, UeHearsMore
  <2>6. CASE v4.pending = Selection(B)!NoPolicy
    BY <1>i, <2>1, <2>2, <2>3, <2>5, <2>6, SelectionMoves DEF Selection!SelectionIInv
  <2>7. CASE v4.pending # Selection(B)!NoPolicy
    <3>1. v4.pending \in [rate : Selection(B)!Changes, rfsp : Selection(B)!Changes]
      BY <1>i, <2>1 DEF Selection!Contexts
    <3>2. /\ v4' \in Selection(B)!Contexts /\ Selection(B)!InForce(v4') /\ v4'.cm = "connected" /\ v4'.allowed = c.allowed
          /\ v4'.ses = c.ses /\ v4'.releasing = c.releasing
      BY <2>1, <2>2, <2>7, <3>1, UpdatedType
    <3>3. modify \in Selection(B)!Downlink /\ Selection(B)!RanHears(modify) /\ ~Selection(B)!UeHears(modify)
          /\ modify.rate = v4'.rate /\ modify.rfsp = v4'.rfsp
      BY <3>2 DEF Selection!Downlink, Selection!RanHears, Selection!UeHears, Selection!Contexts
    <3> HIDE DEF modify
    <3>4. v9' = Append(Append(v9, setup), modify)
      <4>1. v9' = v9 \o <<setup, modify>>
        BY <2>1, <2>7
      <4>q. QED
        BY ONLY <4>1, <1>i, <2>4, <3>3
    <3> DEFINE l == Append(v9, setup)
    <3> HIDE DEF l
    <3>a. /\ l \in Seq(Selection(B)!Downlink) /\ Selection(B)!RanFollows(l, v5, c) /\ v9' = Append(l, modify)
          /\ c.allowed # Selection(B)!Unknown => Selection(B)!UeFollows(l, v6, c.allowed)
      BY <2>5, <3>4 DEF l
    <3>5. v9' \in Seq(Selection(B)!Downlink) /\ Selection(B)!RanFollows(v9', v5, v4')
      BY <3>3, <3>a, RanHearsMore
    <3>6. v4'.allowed # Selection(B)!Unknown => Selection(B)!UeFollows(v9', v6, v4'.allowed)
      BY <3>2, <3>3, <3>a, UeHearsMore
    <3>q. QED
      BY <1>i, <2>1, <2>3, <3>2, <3>5, <3>6, SelectionMoves DEF Selection!SelectionIInv
  <2>q. QED
    BY <2>6, <2>7
<1>10. CASE Selection(B)!on_sdm_data_change
  <2> DEFINE d == Head(v8).data
             c == IF d.rate \in {0, v4.subRate} THEN v4
                  ELSE Selection(B)!recompute_ue_ambr([v4 EXCEPT !.subRate = d.rate])
             changed == d.nssai # Selection(B)!Unknown /\ v4.allowed # d.nssai
             modify == [k |-> "modify", rate |-> c.rate, rfsp |-> c.rfsp]
             update == [k |-> "update", allowed |-> d.nssai]
             rate == IF c.rate # v4.rate THEN <<modify>> ELSE <<>>
             nssai == IF changed THEN <<update>> ELSE <<>>
  <2>1. /\ v8 # <<>> /\ Head(v8).k = "subscribed" /\ v8' = Tail(v8)
        /\ UNCHANGED <<v1, v2, v5, v6, v7>>
        /\ IF v4.cm # "connected" THEN UNCHANGED <<v4, v9>>
           ELSE /\ v9' = v9 \o rate \o nssai
                /\ v4' = IF changed
                          THEN [c EXCEPT !.allowed = d.nssai, !.releasing = @ \cup Selection(B)!ToRelease(c, d.nssai)]
                          ELSE c
    BY <1>10 DEF Selection!on_sdm_data_change, Selection!Command
  <2>2. Head(v8) \in Selection(B)!Commands /\ v8' \in Seq(Selection(B)!Commands)
    BY <1>i, <2>1
  <2>3. d \in Selection(B)!AmData
    BY <2>1, <2>2 DEF Selection!Commands
  <2>4. CASE v4.cm # "connected"
    BY <1>i, <2>1, <2>2, <2>4, SelectionSame
  <2>5. CASE v4.cm = "connected"
    <3> HIDE DEF d
    <3>1. v4 \in Selection(B)!Contexts /\ Selection(B)!InForce(v4) /\ Selection(B)!RanFollows(v9, v5, v4)
          /\ (v4.allowed # Selection(B)!Unknown => v4.ses \ v4.releasing \subseteq v4.allowed /\ Selection(B)!UeFollows(v9, v6, v4.allowed))
      BY <1>i, <2>5 DEF Selection!SelectionIInv
    <3>2. /\ c \in Selection(B)!Contexts /\ Selection(B)!InForce(c) /\ c.cm = "connected" /\ c.allowed = v4.allowed
          /\ c.ses = v4.ses /\ c.releasing = v4.releasing /\ c.rfsp = v4.rfsp
      <4> DEFINE e == [v4 EXCEPT !.subRate = d.rate]
      <4>1. /\ e \in Selection(B)!Contexts /\ e.cm = v4.cm /\ e.allowed = v4.allowed /\ e.ses = v4.ses
            /\ e.releasing = v4.releasing /\ e.rfsp = v4.rfsp
        BY <2>3, <3>1 DEF Selection!Contexts, Selection!AmData
      <4>2. CASE d.rate \in {0, v4.subRate}
        BY <2>5, <3>1, <4>2
      <4>3. CASE d.rate \notin {0, v4.subRate}
        <5> HIDE DEF e
        <5>1. c = Selection(B)!recompute_ue_ambr(e)
          BY <4>3 DEF e
        <5> HIDE DEF c
        <5>q. QED
          BY <2>5, <4>1, <5>1, RecomputedType
      <4>q. QED
        BY <4>2, <4>3
    <3> HIDE DEF c
    <3>3. modify \in Selection(B)!Downlink /\ Selection(B)!RanHears(modify) /\ ~Selection(B)!UeHears(modify) /\ modify.rate = c.rate /\ modify.rfsp = c.rfsp
      BY <3>2 DEF Selection!Downlink, Selection!RanHears, Selection!UeHears, Selection!Contexts
    <3>4. update \in Selection(B)!Downlink /\ ~Selection(B)!RanHears(update) /\ Selection(B)!UeHears(update) /\ update.allowed = d.nssai
      BY <2>3 DEF Selection!Downlink, Selection!RanHears, Selection!UeHears, Selection!AmData
    <3> HIDE DEF modify, update
    <3> DEFINE l == v9 \o rate
    <3>5. /\ l \in Seq(Selection(B)!Downlink) /\ Selection(B)!RanFollows(l, v5, c)
          /\ c.allowed # Selection(B)!Unknown => Selection(B)!UeFollows(l, v6, c.allowed)
      <4>1. CASE c.rate # v4.rate
        <5>1. l = Append(v9, modify)
          BY <1>i, <3>3, <4>1
        <5>2. v9 \in Seq(Selection(B)!Downlink) /\ l \in Seq(Selection(B)!Downlink)
          BY <1>i, <3>3, <5>1
        <5>3. Selection(B)!RanFollows(l, v5, c)
          BY ONLY <3>3, <5>1, <5>2, RanHearsMore
        <5>4. c.allowed # Selection(B)!Unknown => Selection(B)!UeFollows(l, v6, c.allowed)
          BY ONLY <3>1, <3>2, <3>3, <5>1, <5>2, UeHearsMore
        <5>q. QED
          BY <5>2, <5>3, <5>4
      <4>2. CASE c.rate = v4.rate
        <5>1. l = v9
          BY <1>i, <4>2
        <5>2. Selection(B)!RanFollows(v9, v5, c)
          BY <3>1, <3>2, <4>2 DEF Selection!RanFollows
        <5>q. QED
          BY <1>i, <3>1, <3>2, <5>1, <5>2
      <4>q. QED
        BY <4>1, <4>2
    <3>6. v9' = l \o nssai
      BY <2>1, <2>5
    <3> HIDE DEF l
    <3>7. CASE changed
      <4>1. v9' = Append(l, update)
        BY <3>4, <3>5, <3>6, <3>7
      <4>2. v4' = [c EXCEPT !.allowed = d.nssai, !.releasing = @ \cup Selection(B)!ToRelease(c, d.nssai)]
        BY <2>1, <2>5, <3>7
      <4>3. /\ v4' \in Selection(B)!Contexts /\ v4'.cm = "connected" /\ v4'.allowed = d.nssai
            /\ v4'.rate = c.rate /\ v4'.rfsp = c.rfsp /\ v4'.pcfRate = c.pcfRate /\ v4'.subRate = c.subRate
            /\ v4'.ses = c.ses /\ v4'.releasing = c.releasing \cup Selection(B)!ToRelease(c, d.nssai)
        BY <2>3, <3>2, <4>2 DEF Selection!Contexts, Selection!AmData, Selection!ToRelease
      <4>4. v9' \in Seq(Selection(B)!Downlink) /\ Selection(B)!RanFollows(v9', v5, c) /\ Selection(B)!UeFollows(v9', v6, d.nssai)
        BY <3>4, <3>5, <4>1, RanHearsMore, UeHearsMore
      <4>5. Selection(B)!RanFollows(v9', v5, v4') /\ Selection(B)!InForce(v4')
        BY <3>2, <4>3, <4>4 DEF Selection!RanFollows, Selection!InForce
      <4>6. v4'.ses \ v4'.releasing \subseteq v4'.allowed
        BY <4>3 DEF Selection!ToRelease
      <4>q. QED
        BY <1>i, <2>1, <2>2, <4>3, <4>4, <4>5, <4>6, SelectionMoves DEF Selection!SelectionIInv
    <3>8. CASE ~changed
      <4>1. v9' = l /\ v4' = c
        BY <2>1, <2>5, <3>5, <3>6, <3>8
      <4>q. QED
        BY <1>i, <2>1, <2>2, <3>1, <3>2, <3>5, <4>1, SelectionMoves DEF Selection!SelectionIInv
    <3>q. QED
      BY <3>7, <3>8
  <2>q. QED
    BY <2>4, <2>5
<1>11. CASE Selection(B)!on_am_policy_update
  <2> DEFINE d == Head(v8).d
             m == [k |-> "modify", rate |-> v4'.rate, rfsp |-> v4'.rfsp]
  <2>1. /\ v8 # <<>> /\ Head(v8).k = "policy" /\ v8' = Tail(v8)
        /\ UNCHANGED <<v1, v2, v5, v6, v7>>
        /\ IF v4.cm # "connected" THEN UNCHANGED <<v4, v9>>
           ELSE v4' = Selection(B)!Updated(v4, d) /\ v9' = Append(v9, m)
    BY <1>11 DEF Selection!on_am_policy_update, Selection!Command
  <2>2. Head(v8) \in Selection(B)!Commands /\ v8' \in Seq(Selection(B)!Commands)
    BY <1>i, <2>1
  <2>3. d \in [rate : Selection(B)!Changes, rfsp : Selection(B)!Changes]
    BY <2>1, <2>2 DEF Selection!Commands
  <2>4. CASE v4.cm # "connected"
    BY <1>i, <2>1, <2>2, <2>4, SelectionSame
  <2>5. CASE v4.cm = "connected"
    <3>1. v4 \in Selection(B)!Contexts
      BY <1>i, <2>5
    <3> HIDE DEF d
    <3>2. /\ v4' \in Selection(B)!Contexts /\ Selection(B)!InForce(v4') /\ v4'.cm = "connected" /\ v4'.allowed = v4.allowed
          /\ v4'.ses = v4.ses /\ v4'.releasing = v4.releasing
      BY <2>1, <2>3, <2>5, <3>1, UpdatedType
    <3>3. m \in Selection(B)!Downlink /\ Selection(B)!RanHears(m) /\ ~Selection(B)!UeHears(m) /\ m.rate = v4'.rate /\ m.rfsp = v4'.rfsp
      BY <3>2 DEF Selection!Downlink, Selection!RanHears, Selection!UeHears, Selection!Contexts
    <3> HIDE DEF m
    <3>4. v9' = Append(v9, m)
      BY <2>1, <2>5
    <3>5. v9' \in Seq(Selection(B)!Downlink) /\ Selection(B)!RanFollows(v9', v5, v4')
      BY <1>i, <3>3, <3>4, RanHearsMore
    <3>6. v4'.allowed # Selection(B)!Unknown => v4'.ses \ v4'.releasing \subseteq v4'.allowed /\ Selection(B)!UeFollows(v9', v6, v4'.allowed)
      BY <1>i, <2>5, <3>2, <3>3, <3>4, UeHearsMore DEF Selection!SelectionIInv
    <3>q. QED
      BY <1>i, <2>1, <2>2, <3>2, <3>5, <3>6, SelectionMoves DEF Selection!SelectionIInv
  <2>q. QED
    BY <2>4, <2>5
<1>12. CASE Selection(B)!GoIdle
  <2>1. /\ v4.cm = "connected" /\ v9 = <<>> /\ v9' = <<>> /\ v4' = [v4 EXCEPT !.cm = "idle"]
        /\ UNCHANGED <<v1, v2, v6, v7, v8>>
    BY <1>12 DEF Selection!GoIdle
  <2>2. /\ v4' \in Selection(B)!Contexts /\ v4'.cm = "idle" /\ v4'.allowed = v4.allowed
        /\ v4'.rate = v4.rate /\ v4'.pcfRate = v4.pcfRate /\ v4'.subRate = v4.subRate
        /\ v4'.ses = v4.ses /\ v4'.releasing = v4.releasing
    BY <2>1, <1>i DEF Selection!Contexts
  <2>q. QED
    BY <1>i, <2>1, <2>2 DEF Selection!SelectionIInv, Selection!SelectionTypes, Selection!InForce
<1>13. CASE Selection(B)!Deliver
  <2>1. /\ v9 # <<>> /\ v9' = Tail(v9) /\ UNCHANGED <<v1, v2, v4, v7, v8>>
        /\ v5' = IF Head(v9).k \in {"context", "service", "modify"}
                  THEN [rate |-> Selection(B)!Took(Head(v9).rate, v5.rate), rfsp |-> Selection(B)!Took(Head(v9).rfsp, v5.rfsp)]
                  ELSE v5
        /\ v6' = IF Head(v9).k \in {"context", "update"} THEN Head(v9).allowed ELSE v6
    BY <1>13 DEF Selection!Deliver
  <2>2. v4.cm = "connected" /\ v4 \in Selection(B)!Contexts /\ Selection(B)!InForce(v4)
    BY <1>i, <2>1 DEF Selection!SelectionIInv
  <2>3. v9' \in Seq(Selection(B)!Downlink)
    BY <1>i, <2>1
  <2>4. Selection(B)!RanFollows(v9', v5', v4)
    <3>1. ASSUME NEW f \in {"rate", "rfsp"}
          PROVE  v5'[f] = IF Selection(B)!RanTold(Head(v9), f) THEN Head(v9)[f] ELSE v5[f]
      BY <2>1 DEF Selection!RanTold, Selection!RanHears, Selection!Took
    <3>2. Selection(B)!RanFollows(v9, v5, v4)
      BY <2>2 DEF Selection!SelectionIInv
    <3>q. QED
      BY ONLY <1>i, <2>1, <3>1, <3>2, RanTakes
  <2>5. v4.allowed # Selection(B)!Unknown => Selection(B)!UeFollows(v9', v6', v4.allowed)
    BY <1>i, <2>1, <2>2, UeTakes DEF Selection!SelectionIInv, Selection!UeHears
  <2>q. QED
    BY <1>i, <2>1, <2>2, <2>3, <2>4, <2>5, SelectionMoves DEF Selection!SelectionIInv
<1>q. QED
  BY <1>u, <1>1, <1>2, <1>3, <1>4, <1>5, <1>6, <1>7, <1>8, <1>9, <1>10, <1>11, <1>12, <1>13 DEF Selection!Next

LEMMA SelectionSafe == ASSUME NEW CONSTANT B PROVE Selection(B)!SelectionIInv => Selection(B)!RanEnforcesEffective /\ Selection(B)!SlicesAreAllowed
<1>1. SUFFICES ASSUME Selection(B)!SelectionIInv PROVE Selection(B)!RanEnforcesEffective /\ Selection(B)!SlicesAreAllowed
  OBVIOUS
<1>2. DOMAIN v9 = {} => /\ v4.cm = "connected" => (v4.rate # 0 => v5.rate = v4.rate) /\ (v4.rfsp # 0 => v5.rfsp = v4.rfsp)
                        /\ v4.cm # "none" /\ v4.allowed # Selection(B)!Unknown => v6 = v4.allowed
  BY <1>1 DEF Selection!SelectionIInv, Selection!RanFollows, Selection!UeFollows
<1>3. v9 = <<>> => DOMAIN v9 = {}
  OBVIOUS
<1>q. QED
  BY <1>1, <1>2, <1>3 DEF Selection!SelectionIInv, Selection!RanEnforcesEffective, Selection!SlicesAreAllowed, Selection!Settled, Selection!InForce, Selection!Effective

LEMMA RegistrationGrants == ASSUME NEW CONSTANT B PROVE [Selection(B)!Next]_(Selection(B)!vars) => Selection(B)!GrantsDeployed
<1>1. SUFFICES ASSUME [Selection(B)!Next]_(Selection(B)!vars), v4.cm = "none", v4'.cm = "connected", v4'.allowed # Selection(B)!Unknown, v4'.selected
               PROVE  v4'.allowed # {} /\ v4'.allowed \subseteq v1.nssai \cap Selection(B)!Available(v4'.tac)
  BY DEF Selection!GrantsDeployed
<1>2. PICK tac \in B.tacs, R \in SUBSET B.slices, out \in SUBSET {"udm", "pcf", "nssf"} :
        Selection(B)!on_security_mode_complete(tac, R, out)
  BY <1>1 DEF Selection!Next, Selection!vars, Selection!Establish, Selection!Released, Selection!set_availability, Selection!Provision, Selection!SdmRead, Selection!SdmPost,
     Selection!am_policy_notify, Selection!on_service_request, Selection!on_sdm_data_change, Selection!on_am_policy_update, Selection!GoIdle, Selection!Deliver
<1> DEFINE data == IF "udm" \in out THEN Selection(B)!NoData ELSE Selection(B)!fetch_am_data
           policy == Selection(B)!create_am_policy(out)
           decision == IF data.nssai = Selection(B)!Unknown THEN [allowed |-> {}, rejected |-> {}]
                       ELSE Selection(B)!select_slices(tac, R, data.nssai, out)
           c == [cm |-> "connected", tac |-> tac, selected |-> "nssf" \notin out,
                 allowed |-> IF data.nssai = Selection(B)!Unknown THEN Selection(B)!Unknown ELSE decision.allowed,
                 subRate |-> data.rate, pcfRate |-> policy.rate, rate |-> 0, rfsp |-> policy.rfsp,
                 ses |-> {}, releasing |-> {}, pending |-> Selection(B)!NoPolicy, policy |-> "pcf" \notin out]
<1>3. v4' = Selection(B)!recompute_ue_ambr(c) /\ ~(data.nssai # Selection(B)!Unknown /\ decision.allowed = {})
  BY <1>1, <1>2 DEF Selection!on_security_mode_complete
<1>4. /\ v4'.tac = tac /\ v4'.selected = ("nssf" \notin out)
      /\ v4'.allowed = IF data.nssai = Selection(B)!Unknown THEN Selection(B)!Unknown ELSE decision.allowed
  <2> HIDE DEF data, policy, decision
  <2>q. QED
    BY <1>3 DEF Selection!recompute_ue_ambr
<1>5. data.nssai # Selection(B)!Unknown /\ "nssf" \notin out
  BY <1>1, <1>4
<1>6. data.nssai = v1.nssai
  BY <1>5 DEF Selection!NoData, Selection!fetch_am_data
<1>7. decision = Selection(B)!select(tac, R, v1.nssai)
  BY <1>5, <1>6 DEF Selection!select_slices
<1>8. v4'.allowed = decision.allowed /\ decision.allowed # {}
  BY <1>3, <1>4, <1>5
<1>9. decision.allowed \subseteq v1.nssai \cap Selection(B)!Available(tac)
  BY <1>7 DEF Selection!select
<1>q. QED
  BY <1>4, <1>8, <1>9

-----------------------------------------------------------------------------
(* The PDU session leg, for any bounds B of a part: v1 ctx, v2 smf, v3 gnb, *)
(* v4 ue, v5 up, v6 down, v7 cmds, v8 guards, v9 sbi, v10 astray, v11 stale, *)
(* v12 spent.                                                              *)

LEMMA MapsAre ==
    ASSUME NEW CONSTANT B, NEW S, NEW R, NEW f
    PROVE  f \in UeSessions(B)!Maps(S, R) <=> f \in [DOMAIN f -> R] /\ DOMAIN f \subseteq S
BY DEF UeSessions!Maps

LEMMA MapOf ==
    ASSUME NEW CONSTANT B, NEW S, NEW R, NEW f \in UeSessions(B)!Maps(S, R)
    PROVE  DOMAIN f \subseteq S /\ \A x \in DOMAIN f : f[x] \in R
<1>1. f \in [DOMAIN f -> R] /\ DOMAIN f \subseteq S
  BY MapsAre
<1>q. QED
  BY <1>1

LEMMA PutIs ==
    ASSUME NEW CONSTANT B, NEW f, NEW k, NEW v
    PROVE  /\ DOMAIN UeSessions(B)!Put(f, k, v) = DOMAIN f \cup {k} /\ UeSessions(B)!Put(f, k, v)[k] = v
           /\ \A x \in DOMAIN f \ {k} : UeSessions(B)!Put(f, k, v)[x] = f[x]
BY DEF UeSessions!Put

LEMMA DropIs ==
    ASSUME NEW CONSTANT B, NEW f, NEW T
    PROVE  DOMAIN UeSessions(B)!Drop(f, T) = DOMAIN f \ T /\ \A x \in DOMAIN f \ T : UeSessions(B)!Drop(f, T)[x] = f[x]
BY DEF UeSessions!Drop

LEMMA KeepIs ==
    ASSUME NEW CONSTANT B, NEW f, NEW T
    PROVE  DOMAIN UeSessions(B)!Keep(f, T) = DOMAIN f \cap T /\ \A x \in DOMAIN f \cap T : UeSessions(B)!Keep(f, T)[x] = f[x]
BY DEF UeSessions!Keep, UeSessions!Drop

LEMMA PutMaps ==
    ASSUME NEW CONSTANT B, NEW S, NEW R, NEW f \in UeSessions(B)!Maps(S, R), NEW k \in S, NEW v \in R
    PROVE  UeSessions(B)!Put(f, k, v) \in UeSessions(B)!Maps(S, R)
<1>1. f \in [DOMAIN f -> R] /\ DOMAIN f \subseteq S
  BY MapsAre
<1>2. UeSessions(B)!Put(f, k, v) \in [DOMAIN f \cup {k} -> R]
  BY <1>1 DEF UeSessions!Put
<1>q. QED
  BY <1>1, <1>2, MapsAre DEF UeSessions!Put

LEMMA DropMaps ==
    ASSUME NEW CONSTANT B, NEW S, NEW R, NEW f \in UeSessions(B)!Maps(S, R), NEW T
    PROVE  UeSessions(B)!Drop(f, T) \in UeSessions(B)!Maps(S, R)
<1>1. f \in [DOMAIN f -> R] /\ DOMAIN f \subseteq S
  BY MapsAre
<1>2. UeSessions(B)!Drop(f, T) \in [DOMAIN f \ T -> R]
  BY <1>1 DEF UeSessions!Drop
<1>q. QED
  BY <1>1, <1>2, MapsAre DEF UeSessions!Drop

LEMMA NothingIs == ASSUME NEW CONSTANT B PROVE DOMAIN UeSessions(B)!Nothing = {} /\ \A S, R : UeSessions(B)!Nothing \in UeSessions(B)!Maps(S, R)
<1>1. DOMAIN UeSessions(B)!Nothing = {} /\ \A R : UeSessions(B)!Nothing \in [{} -> R]
  BY DEF UeSessions!Nothing
<1>q. QED
  BY <1>1, MapsAre

LEMMA SeqTail ==
    ASSUME NEW S, NEW s \in Seq(S), s # <<>>
    PROVE  /\ Tail(s) \in Seq(S) /\ Head(s) \in S /\ Head(s) = s[1]
           /\ Len(s) \in Nat \ {0} /\ Len(Tail(s)) = Len(s) - 1
           /\ DOMAIN s = 1 .. Len(s) /\ DOMAIN Tail(s) = 1 .. Len(s) - 1
           /\ \A i \in 1 .. Len(s) - 1 : Tail(s)[i] = s[i + 1]
OBVIOUS

LEMMA SeqAppend ==
    ASSUME NEW S, NEW s \in Seq(S), NEW m \in S
    PROVE  /\ Append(s, m) \in Seq(S) /\ Len(s) \in Nat /\ Len(Append(s, m)) = Len(s) + 1
           /\ DOMAIN s = 1 .. Len(s) /\ DOMAIN Append(s, m) = 1 .. Len(s) + 1
           /\ Append(s, m)[Len(s) + 1] = m
           /\ \A i \in 1 .. Len(s) : Append(s, m)[i] = s[i]
OBVIOUS

LEMMA SeqConcat ==
    ASSUME NEW S, NEW s \in Seq(S), NEW t \in Seq(S)
    PROVE  s \o t \in Seq(S)
OBVIOUS

LEMMA FiniteCounts ==
    ASSUME NEW CONSTANT B, NEW S, UeSessions(B)!IsFiniteSet(S), NEW T, T \subseteq S
    PROVE  UeSessions(B)!Cardinality(T) \in Nat
<1>1. IsFiniteSet(S)
  BY DEF IsFiniteSet, UeSessions!IsFiniteSet
<1>2. UeSessions(B)!Cardinality(T) = Cardinality(T)
  BY DEF Cardinality, UeSessions!Cardinality
<1>q. QED
  BY <1>1, <1>2, FS_Subset, FS_CardinalityType

LEMMA IntervalCounts ==
    ASSUME NEW CONSTANT B, NEW n \in Nat, NEW T, T \subseteq 1 .. n
    PROVE  UeSessions(B)!Cardinality(T) \in Nat
<1>1. 1 \in Int /\ n \in Int
  OBVIOUS
<1>2. UeSessions(B)!IsFiniteSet(1 .. n)
  BY <1>1, FS_Interval DEF IsFiniteSet, UeSessions!IsFiniteSet
<1>q. QED
  BY <1>2, FiniteCounts

LEMMA UplinkIs ==
    ASSUME NEW CONSTANT B, NEW m \in UeSessions(B)!Uplink
    PROVE  /\ m.id \in Nat
           /\ m.k \in {"establish", "complete", "releaseResponse", "setupResponse"} => m.psi \in B.psis
           /\ m.k = "setupResponse" => m.teid \in Nat
           /\ m.k = "contextResponse" => m.ses \in UeSessions(B)!Maps(B.psis, Nat) /\ m.refused \subseteq B.psis
           /\ m.k = "return" => m.kind \in B.returns /\ m.status \subseteq B.psis /\ m.data \subseteq B.psis
           /\ m.k \in {"return", "reset"} => m.id = 0
           /\ m.k \in {"establish", "complete", "releaseResponse", "setupResponse", "contextResponse", "return",
                       "reset", "releaseRequest"}
           /\ m.k \in {"establish", "complete", "releaseResponse"} => m = [k |-> m.k, id |-> m.id, psi |-> m.psi]
BY DEF UeSessions!Uplink, UeSessions!About, UeSessions!Positive

LEMMA DownlinkIs ==
    ASSUME NEW CONSTANT B, NEW m \in UeSessions(B)!Downlink
    PROVE  /\ m.id \in UeSessions(B)!Positive /\ m.id \in Nat
           /\ m.k \in {"setup", "reject", "release", "modify"} => m.psi \in B.psis
           /\ m.k = "context" => m.active \subseteq B.psis /\ m.psis \subseteq B.psis
           /\ m.k \in {"setup", "reject", "release", "modify", "context", "contextRelease"}
           /\ m.k \in {"setup", "reject", "release", "modify"} => m = [k |-> m.k, id |-> m.id, psi |-> m.psi]
           /\ m.k = "contextRelease" => m = [k |-> "contextRelease", id |-> m.id]
BY DEF UeSessions!Downlink, UeSessions!About, UeSessions!Positive

LEMMA CommandIs ==
    ASSUME NEW CONSTANT B, NEW c \in UeSessions(B)!Commands
    PROVE  /\ c.id \in UeSessions(B)!Positive /\ c.id \in Nat /\ c.psi \in B.psis
           /\ c.k \in {"modify", "release", "guard"} /\ (c.k = "guard" => c.for \in Nat)
BY DEF UeSessions!Commands, UeSessions!About, UeSessions!Positive

LEMMA SessionRecords ==
    ASSUME NEW CONSTANT B, UeSessions(B)!SessionTypes
    PROVE  /\ v1 = [cm |-> v1.cm, id |-> v1.id, refs |-> v1.refs, releasing |-> v1.releasing]
           /\ v1.cm \in {"connected", "idle"} /\ v1.id \in Nat \ {0} /\ v1.releasing \subseteq B.psis
           /\ v1.refs \in UeSessions(B)!Maps(B.psis, 1 .. v12.refs) /\ DOMAIN v1.refs \subseteq B.psis
           /\ \A p \in DOMAIN v1.refs : v1.refs[p] \in 1 .. v12.refs /\ v1.refs[p] \in Nat
           /\ DOMAIN v2 \subseteq 1 .. v12.refs
           /\ \A r \in DOMAIN v2 : v2[r] \in [psi : B.psis, dl : Nat]
           /\ v3 = [id |-> v3.id, ses |-> v3.ses, made |-> v3.made]
           /\ v3.id \in Nat /\ v3.made \in Nat /\ v3.ses \in UeSessions(B)!Maps(B.psis, Nat)
           /\ DOMAIN v3.ses \subseteq B.psis /\ \A p \in DOMAIN v3.ses : v3.ses[p] \in Nat
           /\ v4 = [cm |-> v4.cm, ses |-> v4.ses, asked |-> v4.asked]
           /\ v4.cm \in {"connected", "idle", "returning"} /\ v4.ses \subseteq B.psis /\ v4.asked \subseteq B.psis
           /\ v5 \in Seq(UeSessions(B)!Uplink) /\ v6 \in Seq(UeSessions(B)!Downlink) /\ v7 \in Seq(UeSessions(B)!Commands)
<1>1. v1.refs \in UeSessions(B)!Maps(B.psis, 1 .. v12.refs) /\ v3.ses \in UeSessions(B)!Maps(B.psis, Nat) /\ v2 \in UeSessions(B)!Maps(1 .. v12.refs, [psi : B.psis, dl : Nat])
  BY DEF UeSessions!SessionTypes, UeSessions!ContextTypes, UeSessions!LinkTypes
<1>2. DOMAIN v1.refs \subseteq B.psis /\ \A p \in DOMAIN v1.refs : v1.refs[p] \in 1 .. v12.refs
  <2> DEFINE N == 1 .. v12.refs
  <2>1. v1.refs \in UeSessions(B)!Maps(B.psis, N)
    BY <1>1
  <2> HIDE DEF N
  <2>2. DOMAIN v1.refs \subseteq B.psis /\ \A p \in DOMAIN v1.refs : v1.refs[p] \in N
    BY <2>1, MapOf
  <2>q. QED
    BY <2>2 DEF N
<1>3. DOMAIN v2 \subseteq 1 .. v12.refs /\ \A r \in DOMAIN v2 : v2[r] \in [psi : B.psis, dl : Nat]
  <2> DEFINE N == 1 .. v12.refs
             R == [psi : B.psis, dl : Nat]
  <2>1. v2 \in UeSessions(B)!Maps(N, R)
    BY <1>1
  <2> HIDE DEF N, R
  <2>2. DOMAIN v2 \subseteq N /\ \A r \in DOMAIN v2 : v2[r] \in R
    BY <2>1, MapOf
  <2>q. QED
    BY <2>2 DEF N, R
<1>4. DOMAIN v3.ses \subseteq B.psis /\ \A p \in DOMAIN v3.ses : v3.ses[p] \in Nat
  BY <1>1, MapOf
<1>5. v12.refs \in Nat
  BY DEF UeSessions!SessionTypes, UeSessions!BoundTypes
<1>q. QED
  BY <1>1, <1>2, <1>3, <1>4, <1>5 DEF UeSessions!SessionTypes, UeSessions!ContextTypes, UeSessions!LinkTypes, UeSessions!Positive

LEMMA SessionInit == ASSUME NEW CONSTANT B, UeSessions(B)!SessionBounds PROVE UeSessions(B)!Init => UeSessions(B)!SessionTypes /\ UeSessions(B)!SmContextsAreOwned
<1> SUFFICES ASSUME UeSessions(B)!Init PROVE UeSessions(B)!SessionTypes /\ UeSessions(B)!SmContextsAreOwned
  OBVIOUS
<1>q. QED
  BY NothingIs DEF UeSessions!Init, UeSessions!SessionTypes, UeSessions!BoundTypes, UeSessions!ContextTypes, UeSessions!LinkTypes, UeSessions!SmContextsAreOwned, UeSessions!Positive, UeSessions!Refs

\* What the bounds count: the actions spend one or two of them.
LEMMA Spends ==
    ASSUME NEW CONSTANT B, UeSessions(B)!BoundTypes
    PROVE  /\ \A what \in {"establish", "network", "lost", "forgets"} : UeSessions(B)!Spend(what) =>
                v12.refs' = v12.refs /\ v12.connections' = v12.connections /\ UeSessions(B)!BoundTypes'
           /\ UeSessions(B)!Spend("connections") => v12.refs' = v12.refs /\ v12.connections' = v12.connections + 1 /\ UeSessions(B)!BoundTypes'
           /\ \A n \in Nat : UeSessions(B)!Failing(n) => v12.refs' = v12.refs /\ v12.connections' = v12.connections /\ UeSessions(B)!BoundTypes'
           /\ \A lost \in BOOLEAN : UeSessions(B)!MayLose(lost) =>
                v12.refs' = v12.refs /\ v12.connections' = v12.connections /\ UeSessions(B)!BoundTypes'
           /\ UNCHANGED v12 => v12.refs' = v12.refs /\ v12.connections' = v12.connections /\ UeSessions(B)!BoundTypes'
<1>1. \A what \in {"establish", "network", "lost", "forgets"} : UeSessions(B)!Spend(what) =>
        v12.refs' = v12.refs /\ v12.connections' = v12.connections /\ UeSessions(B)!BoundTypes'
  BY DEF UeSessions!BoundTypes, UeSessions!Positive, UeSessions!Spend
<1>2. UeSessions(B)!Spend("connections") => v12.refs' = v12.refs /\ v12.connections' = v12.connections + 1 /\ UeSessions(B)!BoundTypes'
  <2> SUFFICES ASSUME UeSessions(B)!Spend("connections") PROVE v12.refs' = v12.refs /\ v12.connections' = v12.connections + 1 /\ UeSessions(B)!BoundTypes'
    OBVIOUS
  <2>1. v12.connections \in Nat \ {0} /\ v12.refs \in Nat /\ v12.failed \in Nat /\ {"refs", "connections", "failed"} \subseteq DOMAIN v12
    BY DEF UeSessions!BoundTypes, UeSessions!Positive
  <2>2. /\ DOMAIN v12' = DOMAIN v12 /\ v12' = [f \in DOMAIN v12' |-> v12'[f]]
        /\ v12'["connections"] = v12["connections"] + 1 /\ v12'["refs"] = v12["refs"] /\ v12'["failed"] = v12["failed"]
    BY <2>1 DEF UeSessions!Spend, UeSessions!BoundTypes, UeSessions!Positive
  <2>q. QED
    BY <2>1, <2>2 DEF UeSessions!BoundTypes, UeSessions!Positive
<1>3. \A n \in Nat : UeSessions(B)!Failing(n) => v12.refs' = v12.refs /\ v12.connections' = v12.connections /\ UeSessions(B)!BoundTypes'
  BY DEF UeSessions!BoundTypes, UeSessions!Positive, UeSessions!Failing
<1>4. UNCHANGED v12 => v12.refs' = v12.refs /\ v12.connections' = v12.connections /\ UeSessions(B)!BoundTypes'
  BY DEF UeSessions!BoundTypes, UeSessions!Positive
<1>q. QED
  BY <1>1, <1>2, <1>3, <1>4 DEF UeSessions!MayLose

\* What the calls to the SMF leave.
LEMMA SmfDrops ==
    ASSUME NEW CONSTANT B, UeSessions(B)!SessionTypes, NEW T
    PROVE  /\ UeSessions(B)!Drop(v2, T) \in UeSessions(B)!Maps(1 .. v12.refs, [psi : B.psis, dl : Nat])
           /\ DOMAIN UeSessions(B)!Drop(v2, T) = DOMAIN v2 \ T /\ \A r \in DOMAIN v2 \ T : UeSessions(B)!Drop(v2, T)[r] = v2[r]
<1> DEFINE R == [psi : B.psis, dl : Nat]
           S == 1 .. v12.refs
<1>1. v2 \in UeSessions(B)!Maps(S, R)
  BY DEF UeSessions!SessionTypes, UeSessions!ContextTypes
<1>2. UeSessions(B)!Drop(v2, T) \in UeSessions(B)!Maps(S, R)
  <2> HIDE DEF S, R
  <2>q. QED
    BY <1>1, DropMaps
<1>3. DOMAIN UeSessions(B)!Drop(v2, T) = DOMAIN v2 \ T /\ \A r \in DOMAIN v2 \ T : UeSessions(B)!Drop(v2, T)[r] = v2[r]
  BY DEF UeSessions!Drop
<1>q. QED
  BY <1>2, <1>3

LEMMA SmfReleases ==
    ASSUME NEW CONSTANT B, UeSessions(B)!SessionTypes, NEW refs, NEW bad, UeSessions(B)!release_sm_context(refs, bad)
    PROVE  /\ DOMAIN v2' = DOMAIN v2 \ (refs \ bad)
           /\ DOMAIN v10' = DOMAIN v10 \cup (bad \cap DOMAIN v2)
BY DEF UeSessions!release_sm_context, UeSessions!Drop

LEMMA SmfReleased ==
    ASSUME NEW CONSTANT B, UeSessions(B)!SessionTypes, NEW refs, NEW bad, UeSessions(B)!release_sm_context(refs, bad)
    PROVE  /\ v2' \in UeSessions(B)!Maps(1 .. v12.refs, [psi : B.psis, dl : Nat])
           /\ \A r \in DOMAIN v2' : v2'[r] = v2[r]
<1> DEFINE T == refs \ bad
<1>1. v2' = UeSessions(B)!Drop(v2, T)
  BY DEF UeSessions!release_sm_context
<1> HIDE DEF T
<1>2. /\ UeSessions(B)!Drop(v2, T) \in UeSessions(B)!Maps(1 .. v12.refs, [psi : B.psis, dl : Nat])
      /\ DOMAIN UeSessions(B)!Drop(v2, T) = DOMAIN v2 \ T /\ \A r \in DOMAIN v2 \ T : UeSessions(B)!Drop(v2, T)[r] = v2[r]
  BY SmfDrops
<1>q. QED
  BY <1>1, <1>2

LEMMA SmfUpdates ==
    ASSUME NEW CONSTANT B, UeSessions(B)!SessionTypes, NEW dl, NEW bad, \A r \in DOMAIN dl : dl[r] \in Nat, UeSessions(B)!update_sm_context(dl, bad)
    PROVE  /\ v2' \in UeSessions(B)!Maps(1 .. v12.refs, [psi : B.psis, dl : Nat])
           /\ DOMAIN v2' = DOMAIN v2
           /\ \A r \in DOMAIN v2 : v2'[r].dl = IF r \in DOMAIN dl \ bad THEN dl[r] ELSE v2[r].dl
<1> DEFINE R == [psi : B.psis, dl : Nat]
           S == 1 .. v12.refs
<1>1. DOMAIN v2 \subseteq S /\ \A r \in DOMAIN v2 : v2[r] \in R
  BY SessionRecords
<1>2. v2' = [r \in DOMAIN v2 |-> IF r \in DOMAIN dl \ bad THEN [v2[r] EXCEPT !.dl = dl[r]] ELSE v2[r]]
  BY DEF UeSessions!update_sm_context
<1>3. ASSUME NEW r \in DOMAIN v2
      PROVE  v2'[r] \in R /\ v2'[r].dl = IF r \in DOMAIN dl \ bad THEN dl[r] ELSE v2[r].dl
  <2>1. v2[r] \in R /\ v2'[r] = IF r \in DOMAIN dl \ bad THEN [v2[r] EXCEPT !.dl = dl[r]] ELSE v2[r]
    BY <1>1, <1>2
  <2>2. CASE r \in DOMAIN dl \ bad
    BY <2>1, <2>2
  <2>3. CASE r \notin DOMAIN dl \ bad
    BY <2>1, <2>3
  <2>q. QED
    BY <2>2, <2>3
<1>4. DOMAIN v2' = DOMAIN v2 /\ v2' = [r \in DOMAIN v2 |-> v2'[r]]
  BY <1>2
<1>5. v2' \in UeSessions(B)!Maps(S, R)
  <2> HIDE DEF S, R
  <2>1. v2' \in [DOMAIN v2' -> R] /\ DOMAIN v2' \subseteq S
    BY <1>1, <1>3, <1>4
  <2>q. QED
    BY <2>1, MapsAre
<1>q. QED
  BY <1>3, <1>4, <1>5

\* A context that keeps some of its SM references.
LEMMA ContextKept ==
    ASSUME NEW CONSTANT B, UeSessions(B)!SessionTypes, v12.refs' = v12.refs, NEW gone,
           v1' = [cm |-> v1'.cm, id |-> v1'.id, refs |-> v1'.refs, releasing |-> v1'.releasing],
           v1'.cm \in {"connected", "idle"}, v1'.id \in Nat \ {0}, v1'.releasing \subseteq B.psis,
           v1'.refs = UeSessions(B)!Drop(v1.refs, gone) \/ v1'.refs = v1.refs,
           v2' = v2 \/ v2' \in UeSessions(B)!Maps(1 .. v12.refs, [psi : B.psis, dl : Nat])
    PROVE  UeSessions(B)!ContextTypes'
<1> DEFINE R == 1 .. v12.refs
<1>1. v1.refs \in UeSessions(B)!Maps(B.psis, R) /\ \A p, q \in DOMAIN v1.refs : v1.refs[p] = v1.refs[q] => p = q
  BY DEF UeSessions!SessionTypes, UeSessions!ContextTypes
<1>2. v1'.refs \in UeSessions(B)!Maps(B.psis, R) /\ \A p, q \in DOMAIN v1'.refs : v1'.refs[p] = v1'.refs[q] => p = q
  <2> HIDE DEF R
  <2>1. CASE v1'.refs = UeSessions(B)!Drop(v1.refs, gone)
    <3>1. UeSessions(B)!Drop(v1.refs, gone) \in UeSessions(B)!Maps(B.psis, R)
      BY <1>1, DropMaps
    <3>2. /\ DOMAIN UeSessions(B)!Drop(v1.refs, gone) = DOMAIN v1.refs \ gone
          /\ \A x \in DOMAIN v1.refs \ gone : UeSessions(B)!Drop(v1.refs, gone)[x] = v1.refs[x]
      BY DEF UeSessions!Drop
    <3>q. QED
      BY <1>1, <2>1, <3>1, <3>2
  <2>q. QED
    BY <1>1, <2>1
<1>3. v2' \in UeSessions(B)!Maps(R, [psi : B.psis, dl : Nat])
  BY DEF UeSessions!SessionTypes, UeSessions!ContextTypes
<1>q. QED
  BY <1>2, <1>3 DEF UeSessions!ContextTypes, UeSessions!Positive

LEMMA Takes ==
    ASSUME NEW CONSTANT B, UeSessions(B)!SessionTypes
    PROVE  /\ \A k : UeSessions(B)!Take(k) => /\ v6 # <<>> /\ v6' = Tail(v6) /\ v6' \in Seq(UeSessions(B)!Downlink)
                                /\ Head(v6) \in UeSessions(B)!Downlink /\ Head(v6) = v6[1] /\ Head(v6).k = k
           /\ \A k : UeSessions(B)!Handle(k) => /\ v5 # <<>> /\ v5' = Tail(v5) /\ v5' \in Seq(UeSessions(B)!Uplink)
                                  /\ Head(v5) \in UeSessions(B)!Uplink /\ Head(v5) = v5[1] /\ Head(v5).k = k
           /\ \A k : UeSessions(B)!Command(k) => /\ v7 # <<>> /\ v7' = Tail(v7) /\ v7' \in Seq(UeSessions(B)!Commands)
                                   /\ Head(v7) \in UeSessions(B)!Commands /\ Head(v7) = v7[1] /\ Head(v7).k = k
<1>1. v5 \in Seq(UeSessions(B)!Uplink) /\ v6 \in Seq(UeSessions(B)!Downlink) /\ v7 \in Seq(UeSessions(B)!Commands)
  BY DEF UeSessions!SessionTypes, UeSessions!LinkTypes
<1>2. v6 # <<>> => Tail(v6) \in Seq(UeSessions(B)!Downlink) /\ Head(v6) \in UeSessions(B)!Downlink /\ Head(v6) = v6[1]
  BY <1>1
<1>3. v5 # <<>> => Tail(v5) \in Seq(UeSessions(B)!Uplink) /\ Head(v5) \in UeSessions(B)!Uplink /\ Head(v5) = v5[1]
  BY <1>1
<1>4. v7 # <<>> => Tail(v7) \in Seq(UeSessions(B)!Commands) /\ Head(v7) \in UeSessions(B)!Commands /\ Head(v7) = v7[1]
  BY <1>1
<1>q. QED
  BY <1>2, <1>3, <1>4 DEF UeSessions!Take, UeSessions!Handle, UeSessions!Command

\* Nothing of a step that leaves the context and the SMF alone concerns the two.
LEMMA Aside ==
    ASSUME NEW CONSTANT B, UeSessions(B)!SessionTypes, UeSessions(B)!SmContextsAreOwned, UNCHANGED <<v1, v2, v10>>, v12.refs' = v12.refs
    PROVE  UeSessions(B)!ContextTypes' /\ UeSessions(B)!SmContextsAreOwned'
BY DEF UeSessions!SessionTypes, UeSessions!ContextTypes, UeSessions!SmContextsAreOwned, UeSessions!Refs

LEMMA UeSteps ==
    ASSUME NEW CONSTANT B, UeSessions(B)!SessionBounds, UeSessions(B)!SessionTypes, UeSessions(B)!SmContextsAreOwned,
           \/ \E p \in B.psis : UeSessions(B)!UeEstablish(p) \/ UeSessions(B)!UeForgets(p)
           \/ \E kind \in B.returns, data \in SUBSET B.psis : UeSessions(B)!UeReturns(kind, data)
           \/ UeSessions(B)!GnbAsksRelease \/ UeSessions(B)!GnbResets
    PROVE  UeSessions(B)!SessionTypes' /\ UeSessions(B)!SmContextsAreOwned'
<1> USE SessionRecords
<1>b. UeSessions(B)!BoundTypes /\ UeSessions(B)!LinkTypes
  BY DEF UeSessions!SessionTypes
<1>a. ASSUME NEW m \in UeSessions(B)!Uplink PROVE Append(v5, m) \in Seq(UeSessions(B)!Uplink)
  BY SeqAppend
<1>1. ASSUME NEW p \in B.psis, UeSessions(B)!UeEstablish(p) PROVE UeSessions(B)!SessionTypes' /\ UeSessions(B)!SmContextsAreOwned'
  <2>1. [k |-> "establish", id |-> v3.id, psi |-> p] \in UeSessions(B)!Uplink
    BY DEF UeSessions!Uplink
  <2>2. v12.refs' = v12.refs /\ UeSessions(B)!BoundTypes'
    BY <1>1, <1>b, Spends DEF UeSessions!UeEstablish
  <2>3. v5' \in Seq(UeSessions(B)!Uplink)
    BY <1>1, <1>a, <2>1 DEF UeSessions!UeEstablish
  <2>4. UeSessions(B)!LinkTypes'
    BY <1>1, <1>b, <2>3 DEF UeSessions!LinkTypes, UeSessions!UeEstablish
  <2>q. QED
    BY <1>1, <2>2, <2>4, Aside DEF UeSessions!UeEstablish, UeSessions!SessionTypes
<1>2. ASSUME NEW p \in B.psis, UeSessions(B)!UeForgets(p) PROVE UeSessions(B)!SessionTypes' /\ UeSessions(B)!SmContextsAreOwned'
  <2>2. v12.refs' = v12.refs /\ UeSessions(B)!BoundTypes'
    BY <1>2, <1>b, Spends DEF UeSessions!UeForgets
  <2>4. UeSessions(B)!LinkTypes'
    BY <1>2, <1>b DEF UeSessions!LinkTypes, UeSessions!UeForgets
  <2>q. QED
    BY <1>2, <2>2, <2>4, Aside DEF UeSessions!UeForgets, UeSessions!SessionTypes
<1>3. ASSUME NEW kind \in B.returns, NEW data \in SUBSET B.psis, UeSessions(B)!UeReturns(kind, data)
      PROVE  UeSessions(B)!SessionTypes' /\ UeSessions(B)!SmContextsAreOwned'
  <2>1. [k |-> "return", id |-> 0, kind |-> kind, status |-> v4.ses, data |-> data] \in UeSessions(B)!Uplink
    BY DEF UeSessions!Uplink
  <2>2. v12.refs' = v12.refs /\ UeSessions(B)!BoundTypes'
    BY <1>3, <1>b, Spends DEF UeSessions!UeReturns
  <2>3. v5' \in Seq(UeSessions(B)!Uplink)
    BY <1>3, <1>a, <2>1 DEF UeSessions!UeReturns
  <2>4. UeSessions(B)!LinkTypes'
    BY <1>3, <1>b, <2>3 DEF UeSessions!LinkTypes, UeSessions!UeReturns
  <2>q. QED
    BY <1>3, <2>2, <2>4, Aside DEF UeSessions!UeReturns, UeSessions!SessionTypes
<1>4. ASSUME UeSessions(B)!GnbAsksRelease PROVE UeSessions(B)!SessionTypes' /\ UeSessions(B)!SmContextsAreOwned'
  <2>1. [k |-> "releaseRequest", id |-> v3.id] \in UeSessions(B)!Uplink
    BY DEF UeSessions!Uplink
  <2>2. v12.refs' = v12.refs /\ UeSessions(B)!BoundTypes'
    BY <1>4, <1>b, Spends DEF UeSessions!GnbAsksRelease
  <2>3. v5' \in Seq(UeSessions(B)!Uplink)
    BY <1>4, <1>a, <2>1 DEF UeSessions!GnbAsksRelease
  <2>4. UeSessions(B)!LinkTypes'
    BY <1>4, <1>b, <2>3 DEF UeSessions!LinkTypes, UeSessions!GnbAsksRelease
  <2>q. QED
    BY <1>4, <2>2, <2>4, Aside DEF UeSessions!GnbAsksRelease, UeSessions!SessionTypes
<1>5. ASSUME UeSessions(B)!GnbResets PROVE UeSessions(B)!SessionTypes' /\ UeSessions(B)!SmContextsAreOwned'
  <2>1. [k |-> "reset", id |-> 0] \in UeSessions(B)!Uplink
    BY DEF UeSessions!Uplink
  <2>2. v12.refs' = v12.refs /\ UeSessions(B)!BoundTypes'
    BY <1>5, <1>b, Spends DEF UeSessions!GnbResets
  <2>3. v5' \in Seq(UeSessions(B)!Uplink)
    BY <1>5, <1>a, <2>1 DEF UeSessions!GnbResets
  <2>4. UeSessions(B)!LinkTypes'
    BY <1>5, <1>b, <2>3, NothingIs DEF UeSessions!LinkTypes, UeSessions!GnbResets, UeSessions!GnbIdle
  <2>q. QED
    BY <1>5, <2>2, <2>4, Aside DEF UeSessions!GnbResets, UeSessions!SessionTypes
<1>q. QED
  BY <1>1, <1>2, <1>3, <1>4, <1>5

LEMMA LinkRecords ==
    ASSUME NEW CONSTANT B, UeSessions(B)!LinkTypes
    PROVE  /\ \A s \in UeSessions(B)!Maps(B.psis, Nat) :
                /\ [v3 EXCEPT !.ses = s] \in [id : Nat, ses : UeSessions(B)!Maps(B.psis, Nat), made : Nat]
                /\ \A n \in Nat : /\ [v3 EXCEPT !.ses = s, !.made = n] \in [id : Nat, ses : UeSessions(B)!Maps(B.psis, Nat), made : Nat]
                                  /\ [v3 EXCEPT !.id = n, !.ses = s] \in [id : Nat, ses : UeSessions(B)!Maps(B.psis, Nat), made : Nat]
           /\ \A s, w \in SUBSET B.psis :
                [v4 EXCEPT !.ses = s, !.asked = w] \in [cm : {"connected", "idle", "returning"}, ses : SUBSET B.psis, asked : SUBSET B.psis]
           /\ \A s \in SUBSET B.psis :
                [v4 EXCEPT !.ses = s] \in [cm : {"connected", "idle", "returning"}, ses : SUBSET B.psis, asked : SUBSET B.psis]
BY DEF UeSessions!LinkTypes

LEMMA GnbSteps ==
    ASSUME NEW CONSTANT B, UeSessions(B)!SessionBounds, UeSessions(B)!SessionTypes, UeSessions(B)!SmContextsAreOwned, UeSessions(B)!GnbStep
    PROVE  UeSessions(B)!SessionTypes' /\ UeSessions(B)!SmContextsAreOwned'
<1> USE SessionRecords
<1> DEFINE h == Head(v6)
<1>b. UeSessions(B)!BoundTypes /\ UeSessions(B)!LinkTypes
  BY DEF UeSessions!SessionTypes
<1>a. ASSUME NEW m \in UeSessions(B)!Uplink PROVE Append(v5, m) \in Seq(UeSessions(B)!Uplink)
  BY SeqAppend
<1>s. UNCHANGED v12 => v12.refs' = v12.refs /\ UeSessions(B)!BoundTypes'
  BY <1>b, Spends
<1>1. ASSUME NEW lost \in BOOLEAN, UeSessions(B)!GnbSetsUp(lost) PROVE UeSessions(B)!SessionTypes' /\ UeSessions(B)!SmContextsAreOwned'
  <2>1. UeSessions(B)!Take("setup") /\ h \in UeSessions(B)!Downlink /\ h.k = "setup" /\ v6' \in Seq(UeSessions(B)!Downlink)
    BY <1>1, Takes DEF UeSessions!GnbSetsUp
  <2>2. h.psi \in B.psis /\ h.id \in Nat
    BY <2>1, DownlinkIs
  <2>3. [k |-> "setupResponse", id |-> h.id, psi |-> h.psi, teid |-> v3.made + 1] \in UeSessions(B)!Uplink
    <3> DEFINE t == v3.made + 1
    <3>1. t \in Nat
      OBVIOUS
    <3> HIDE DEF t
    <3>2. [k |-> "setupResponse", id |-> h.id, psi |-> h.psi, teid |-> t] \in UeSessions(B)!Uplink
      BY <2>2, <3>1 DEF UeSessions!Uplink
    <3>q. QED
      BY <3>2 DEF t
  <2>4. UeSessions(B)!Put(v3.ses, h.psi, v3.made + 1) \in UeSessions(B)!Maps(B.psis, Nat)
    BY <2>2, PutMaps
  <2>5. v12.refs' = v12.refs /\ UeSessions(B)!BoundTypes'
    BY <1>1, <1>b, <1>s, Spends DEF UeSessions!GnbSetsUp
  <2>6. v5' \in Seq(UeSessions(B)!Uplink)
    BY <1>1, <1>a, <2>3 DEF UeSessions!GnbSetsUp
  <2>7. v3' \in [id : Nat, ses : UeSessions(B)!Maps(B.psis, Nat), made : Nat]
    <3>1. v3' = v3 \/ v3' = [v3 EXCEPT !.ses = UeSessions(B)!Put(v3.ses, h.psi, v3.made + 1), !.made = v3.made + 1]
      BY <1>1 DEF UeSessions!GnbSetsUp
    <3>2. [v3 EXCEPT !.ses = UeSessions(B)!Put(v3.ses, h.psi, v3.made + 1), !.made = v3.made + 1]
            \in [id : Nat, ses : UeSessions(B)!Maps(B.psis, Nat), made : Nat]
      <4>1. v3.made + 1 \in Nat
        OBVIOUS
      <4>q. QED
        BY <1>b, <2>4, <4>1, LinkRecords
    <3>q. QED
      BY <1>b, <3>1, <3>2 DEF UeSessions!LinkTypes
  <2>8. v4' \in [cm : {"connected", "idle", "returning"}, ses : SUBSET B.psis, asked : SUBSET B.psis]
    <3>1. v4' = v4 \/ v4' = [v4 EXCEPT !.ses = v4.ses \cup {h.psi}, !.asked = v4.asked \ {h.psi}]
      BY <1>1 DEF UeSessions!GnbSetsUp
    <3>2. v4.ses \cup {h.psi} \in SUBSET B.psis /\ v4.asked \ {h.psi} \in SUBSET B.psis
      BY <2>2
    <3>3. [v4 EXCEPT !.ses = v4.ses \cup {h.psi}, !.asked = v4.asked \ {h.psi}]
            \in [cm : {"connected", "idle", "returning"}, ses : SUBSET B.psis, asked : SUBSET B.psis]
      BY <1>b, <3>2, LinkRecords
    <3>q. QED
      BY <1>b, <3>1, <3>3 DEF UeSessions!LinkTypes
  <2>9. UeSessions(B)!LinkTypes'
    BY <1>1, <1>b, <2>1, <2>6, <2>7, <2>8 DEF UeSessions!LinkTypes, UeSessions!GnbSetsUp
  <2>q. QED
    BY <1>1, <2>5, <2>9, Aside DEF UeSessions!GnbSetsUp, UeSessions!SessionTypes
<1>2. ASSUME UeSessions(B)!GnbRejects PROVE UeSessions(B)!SessionTypes' /\ UeSessions(B)!SmContextsAreOwned'
  <2>1. UeSessions(B)!Take("reject") /\ h \in UeSessions(B)!Downlink /\ v6' \in Seq(UeSessions(B)!Downlink)
    BY <1>2, Takes DEF UeSessions!GnbRejects
  <2>2. v4' \in [cm : {"connected", "idle", "returning"}, ses : SUBSET B.psis, asked : SUBSET B.psis]
    BY <1>2, <1>b DEF UeSessions!GnbRejects, UeSessions!LinkTypes
  <2>3. UeSessions(B)!LinkTypes'
    BY <1>2, <1>b, <2>1, <2>2 DEF UeSessions!LinkTypes, UeSessions!GnbRejects
  <2>q. QED
    BY <1>2, <1>s, <2>3, Aside DEF UeSessions!GnbRejects, UeSessions!SessionTypes
<1>3. ASSUME NEW lost \in BOOLEAN, UeSessions(B)!GnbReleases(lost) PROVE UeSessions(B)!SessionTypes' /\ UeSessions(B)!SmContextsAreOwned'
  <2> DEFINE told == ~lost /\ h.psi \in v4.ses
             r == [k |-> "releaseResponse", id |-> h.id, psi |-> h.psi]
             c == [k |-> "complete", id |-> h.id, psi |-> h.psi]
  <2>1. UeSessions(B)!Take("release") /\ h \in UeSessions(B)!Downlink /\ h.k = "release" /\ v6' \in Seq(UeSessions(B)!Downlink)
    BY <1>3, Takes DEF UeSessions!GnbReleases
  <2>2. h.psi \in B.psis /\ h.id \in Nat
    BY <2>1, DownlinkIs
  <2>3. r \in UeSessions(B)!Uplink /\ c \in UeSessions(B)!Uplink
    BY <2>2 DEF UeSessions!Uplink
  <2>4. v12.refs' = v12.refs /\ UeSessions(B)!BoundTypes'
    BY <1>3, <1>b, <1>s, Spends DEF UeSessions!GnbReleases
  <2>5. v5' = v5 \/ v5' = Append(v5, r) \o <<>> \/ v5' = Append(v5, r) \o <<c>>
    BY <1>3 DEF UeSessions!GnbReleases
  <2>6. v5' \in Seq(UeSessions(B)!Uplink)
    <3> HIDE DEF r, c
    <3>1. Append(v5, r) \in Seq(UeSessions(B)!Uplink) /\ <<>> \in Seq(UeSessions(B)!Uplink) /\ <<c>> \in Seq(UeSessions(B)!Uplink)
      BY <1>a, <2>3
    <3>2. Append(v5, r) \o <<>> \in Seq(UeSessions(B)!Uplink) /\ Append(v5, r) \o <<c>> \in Seq(UeSessions(B)!Uplink)
      BY ONLY <3>1, SeqConcat
    <3>q. QED
      BY <2>5, <3>2
  <2>7. v3' \in [id : Nat, ses : UeSessions(B)!Maps(B.psis, Nat), made : Nat]
    <3>1. v3' = v3 \/ v3' = [v3 EXCEPT !.ses = UeSessions(B)!Drop(v3.ses, {h.psi})]
      BY <1>3 DEF UeSessions!GnbReleases
    <3>2. UeSessions(B)!Drop(v3.ses, {h.psi}) \in UeSessions(B)!Maps(B.psis, Nat)
      BY DropMaps
    <3>q. QED
      BY <1>b, <3>1, <3>2 DEF UeSessions!LinkTypes
  <2>8. v4' \in [cm : {"connected", "idle", "returning"}, ses : SUBSET B.psis, asked : SUBSET B.psis]
    <3>1. v4' = v4 \/ v4' = [v4 EXCEPT !.ses = v4.ses \ {h.psi}]
      BY <1>3 DEF UeSessions!GnbReleases
    <3>2. v4.ses \ {h.psi} \in SUBSET B.psis
      OBVIOUS
    <3>3. [v4 EXCEPT !.ses = v4.ses \ {h.psi}]
            \in [cm : {"connected", "idle", "returning"}, ses : SUBSET B.psis, asked : SUBSET B.psis]
      BY <1>b, <3>2, LinkRecords
    <3>q. QED
      BY <1>b, <3>1, <3>3 DEF UeSessions!LinkTypes
  <2>9. UeSessions(B)!LinkTypes'
    BY <1>3, <1>b, <2>1, <2>6, <2>7, <2>8 DEF UeSessions!LinkTypes, UeSessions!GnbReleases
  <2>q. QED
    BY <1>3, <2>4, <2>9, Aside DEF UeSessions!GnbReleases, UeSessions!SessionTypes
<1>4. ASSUME UeSessions(B)!GnbModifies PROVE UeSessions(B)!SessionTypes' /\ UeSessions(B)!SmContextsAreOwned'
  <2>1. UeSessions(B)!Take("modify") /\ h \in UeSessions(B)!Downlink /\ h.k = "modify" /\ v6' \in Seq(UeSessions(B)!Downlink)
    BY <1>4, Takes DEF UeSessions!GnbModifies
  <2>2. v5' = v5
    BY <1>4 DEF UeSessions!GnbModifies
  <2>3. UeSessions(B)!LinkTypes'
    BY <1>4, <1>b, <2>1, <2>2 DEF UeSessions!LinkTypes, UeSessions!GnbModifies
  <2>q. QED
    BY <1>4, <1>s, <2>3, Aside DEF UeSessions!GnbModifies, UeSessions!SessionTypes
<1>5. ASSUME NEW refused \in SUBSET B.psis, UeSessions(B)!GnbResumes(refused) PROVE UeSessions(B)!SessionTypes' /\ UeSessions(B)!SmContextsAreOwned'
  <2> DEFINE taken == h.psis \ refused
             made == v3.made + UeSessions(B)!Cardinality(taken)
  <2>1. UeSessions(B)!Take("context") /\ h \in UeSessions(B)!Downlink /\ h.k = "context" /\ v6' \in Seq(UeSessions(B)!Downlink)
    BY <1>5, Takes DEF UeSessions!GnbResumes
  <2>2. h.id \in Nat /\ h.psis \subseteq B.psis /\ h.active \subseteq B.psis
    BY <2>1, DownlinkIs
  <2>3. made \in Nat /\ taken \subseteq B.psis
    <3>1. UeSessions(B)!Cardinality(taken) \in Nat
      BY <2>2, FiniteCounts DEF UeSessions!SessionBounds
    <3>q. QED
      BY <2>2, <3>1
  <2>4. PICK ses \in UeSessions(B)!Injection(taken, v3.made + 1 .. made) : v3' = [id |-> h.id, ses |-> ses, made |-> made]
    BY <1>5 DEF UeSessions!GnbResumes
  <2> HIDE DEF made
  <2>5. ses \in UeSessions(B)!Maps(B.psis, Nat)
    <3>1. ses \in [taken -> v3.made + 1 .. made]
      BY <2>4 DEF UeSessions!Injection
    <3>2. ses \in [taken -> Nat]
      BY <2>3, <3>1
    <3> HIDE DEF taken
    <3>q. QED
      BY <2>3, <3>2 DEF UeSessions!Maps
  <2>6. [k |-> "contextResponse", id |-> h.id, ses |-> v3'.ses, refused |-> refused] \in UeSessions(B)!Uplink
    <3>1. v3'.ses \in UeSessions(B)!Maps(B.psis, Nat)
      BY <2>4, <2>5
    <3>q. QED
      BY <2>2, <3>1 DEF UeSessions!Uplink
  <2>7. v5' \in Seq(UeSessions(B)!Uplink)
    BY <1>5, <1>a, <2>6 DEF UeSessions!GnbResumes
  <2>8. v3' \in [id : Nat, ses : UeSessions(B)!Maps(B.psis, Nat), made : Nat]
    BY <2>2, <2>3, <2>4, <2>5
  <2>9. v4' \in [cm : {"connected", "idle", "returning"}, ses : SUBSET B.psis, asked : SUBSET B.psis]
    <3>1. v4' = [v4 EXCEPT !.cm = "connected", !.ses = v4.ses \cap h.active]
      BY <1>5 DEF UeSessions!GnbResumes
    <3>q. QED
      BY <1>b, <3>1 DEF UeSessions!LinkTypes
  <2>10. UeSessions(B)!LinkTypes'
    BY <1>5, <1>b, <2>1, <2>7, <2>8, <2>9 DEF UeSessions!LinkTypes, UeSessions!GnbResumes
  <2>q. QED
    BY <1>5, <1>s, <2>10, Aside DEF UeSessions!GnbResumes, UeSessions!SessionTypes
<1>6. ASSUME UeSessions(B)!GnbLetsGo PROVE UeSessions(B)!SessionTypes' /\ UeSessions(B)!SmContextsAreOwned'
  <2>1. UeSessions(B)!Take("contextRelease") /\ v6' \in Seq(UeSessions(B)!Downlink)
    BY <1>6, Takes DEF UeSessions!GnbLetsGo
  <2>2. ASSUME Head(v6).id = v3.id PROVE UeSessions(B)!LinkTypes'
    <3>1. v3' = [v3 EXCEPT !.id = 0, !.ses = UeSessions(B)!Nothing] /\ v4' = [v4 EXCEPT !.cm = "idle", !.asked = {}]
      BY <1>6, <2>2 DEF UeSessions!GnbLetsGo, UeSessions!GnbIdle
    <3>2. v3' \in [id : Nat, ses : UeSessions(B)!Maps(B.psis, Nat), made : Nat]
      BY <1>b, <3>1, NothingIs DEF UeSessions!LinkTypes
    <3>3. v4' \in [cm : {"connected", "idle", "returning"}, ses : SUBSET B.psis, asked : SUBSET B.psis]
      BY <1>b, <3>1 DEF UeSessions!LinkTypes
    <3>q. QED
      BY <1>6, <1>b, <2>1, <3>2, <3>3 DEF UeSessions!LinkTypes, UeSessions!GnbLetsGo
  <2>3. ASSUME Head(v6).id # v3.id PROVE UeSessions(B)!LinkTypes'
    BY <1>6, <1>b, <2>1, <2>3 DEF UeSessions!LinkTypes, UeSessions!GnbLetsGo
  <2>4. UeSessions(B)!LinkTypes'
    BY <2>2, <2>3
  <2>q. QED
    BY <1>6, <1>s, <2>4, Aside DEF UeSessions!GnbLetsGo, UeSessions!SessionTypes
<1>q. QED
  BY <1>1, <1>2, <1>3, <1>4, <1>5, <1>6 DEF UeSessions!GnbStep

LEMMA DownlinkAppends ==
    ASSUME NEW CONSTANT B, UeSessions(B)!SessionTypes
    PROVE  /\ \A k \in {"setup", "reject", "release", "modify"} : \A i \in UeSessions(B)!Positive : \A p \in B.psis :
                Append(v6, [k |-> k, id |-> i, psi |-> p]) \in Seq(UeSessions(B)!Downlink)
           /\ \A i \in UeSessions(B)!Positive : Append(v6, [k |-> "contextRelease", id |-> i]) \in Seq(UeSessions(B)!Downlink)
           /\ \A i \in UeSessions(B)!Positive : \A A, P \in SUBSET B.psis :
                Append(v6, [k |-> "context", id |-> i, active |-> A, psis |-> P]) \in Seq(UeSessions(B)!Downlink)
<1>1. ASSUME NEW m \in UeSessions(B)!Downlink PROVE Append(v6, m) \in Seq(UeSessions(B)!Downlink)
  BY SeqAppend, SessionRecords
<1>2. \A k \in {"setup", "reject", "release", "modify"} : \A i \in UeSessions(B)!Positive : \A p \in B.psis :
        [k |-> k, id |-> i, psi |-> p] \in UeSessions(B)!Downlink
  BY DEF UeSessions!Downlink, UeSessions!About
<1>3. \A i \in UeSessions(B)!Positive : [k |-> "contextRelease", id |-> i] \in UeSessions(B)!Downlink
  BY DEF UeSessions!Downlink
<1>4. \A i \in UeSessions(B)!Positive : \A A, P \in SUBSET B.psis : [k |-> "context", id |-> i, active |-> A, psis |-> P] \in UeSessions(B)!Downlink
  BY DEF UeSessions!Downlink
<1>q. QED
  BY <1>1, <1>2, <1>3, <1>4

LEMMA Wider ==
    ASSUME NEW CONSTANT B, NEW S, NEW n \in Nat, NEW f, f \in UeSessions(B)!Maps(S, 1 .. n)
    PROVE  f \in UeSessions(B)!Maps(S, 1 .. n + 1)
BY DEF UeSessions!Maps

LEMMA WiderDomain ==
    ASSUME NEW CONSTANT B, NEW R, NEW n \in Nat, NEW f, f \in UeSessions(B)!Maps(1 .. n, R)
    PROVE  f \in UeSessions(B)!Maps(1 .. n + 1, R)
BY DEF UeSessions!Maps

LEMMA EstablishStep ==
    ASSUME NEW CONSTANT B, UeSessions(B)!SessionTypes, UeSessions(B)!SmContextsAreOwned, NEW how \in {"created", "refused", "unanswered"}, UeSessions(B)!OnUlNasTransport(how)
    PROVE  UeSessions(B)!SessionTypes' /\ UeSessions(B)!SmContextsAreOwned'
<1> USE SessionRecords
<1> DEFINE m == Head(v5)
           r == v12.refs + 1
           R == [psi : B.psis, dl : Nat]
<1>b. UeSessions(B)!BoundTypes /\ UeSessions(B)!ContextTypes /\ UeSessions(B)!LinkTypes
  BY DEF UeSessions!SessionTypes
<1>s. UNCHANGED v12 => v12.refs' = v12.refs /\ UeSessions(B)!BoundTypes'
  BY <1>b, Spends
<1>1. v5 # <<>> /\ m.k \in {"establish", "modified"} /\ v5' = Tail(v5)
  BY DEF UeSessions!OnUlNasTransport
<1>2. m \in UeSessions(B)!Uplink /\ v5' \in Seq(UeSessions(B)!Uplink)
  BY <1>1, SeqTail
<1>3. m.k = "establish" /\ m.psi \in B.psis /\ m.id \in Nat
  BY <1>1, <1>2, UplinkIs
<1>4. ASSUME v6' \in Seq(UeSessions(B)!Downlink) PROVE UeSessions(B)!LinkTypes'
  BY <1>2, <1>4, <1>b DEF UeSessions!LinkTypes, UeSessions!OnUlNasTransport
<1>5. CASE ~UeSessions(B)!Known(m.id)
  <2>1. UNCHANGED <<v1, v2, v10, v6, v12>>
    BY <1>5 DEF UeSessions!OnUlNasTransport
  <2>2. UeSessions(B)!LinkTypes'
    BY <1>4, <2>1
  <2>q. QED
    BY <1>s, <2>1, <2>2, Aside DEF UeSessions!SessionTypes
<1> SUFFICES ASSUME UeSessions(B)!Known(m.id) PROVE UeSessions(B)!SessionTypes' /\ UeSessions(B)!SmContextsAreOwned'
  BY <1>5
<1>6. UeSessions(B)!Established(m, how) /\ m.id \in UeSessions(B)!Positive
  BY DEF UeSessions!OnUlNasTransport, UeSessions!Known, UeSessions!Positive
<1>7. v6' \in Seq(UeSessions(B)!Downlink)
  <2>1. \/ v6' = Append(v6, [k |-> "reject", id |-> m.id, psi |-> m.psi])
        \/ v6' = Append(v6, [k |-> "setup", id |-> m.id, psi |-> m.psi])
    BY <1>6 DEF UeSessions!Established
  <2>q. QED
    <3>1. /\ Append(v6, [k |-> "reject", id |-> m.id, psi |-> m.psi]) \in Seq(UeSessions(B)!Downlink)
          /\ Append(v6, [k |-> "setup", id |-> m.id, psi |-> m.psi]) \in Seq(UeSessions(B)!Downlink)
      <4> HIDE DEF m
      <4>q. QED
        BY <1>3, <1>6, DownlinkAppends
    <3>q. QED
      BY <2>1, <3>1
<1>8. UeSessions(B)!LinkTypes'
  BY <1>4, <1>7
<1>9. CASE how = "refused"
  <2>1. UNCHANGED <<v1, v2, v10, v12>>
    BY <1>6, <1>9 DEF UeSessions!Established
  <2>q. QED
    BY <1>s, <1>8, <2>1, Aside DEF UeSessions!SessionTypes
<1>10. ASSUME how # "refused"
       PROVE  /\ v2' \in UeSessions(B)!Maps(1 .. r, R) /\ DOMAIN v2' = DOMAIN v2 \cup {r} /\ r \notin DOMAIN v2 /\ r \in Nat
  <2>1. v2' = UeSessions(B)!Put(v2, r, [psi |-> m.psi, dl |-> 0])
    BY <1>6, <1>10 DEF UeSessions!Established
  <2>2. v12.refs \in Nat /\ v2 \in UeSessions(B)!Maps(1 .. v12.refs, R)
    BY <1>b DEF UeSessions!BoundTypes, UeSessions!ContextTypes
  <2>3. r \in 1 .. r /\ [psi |-> m.psi, dl |-> 0] \in R
    BY <1>3, <2>2
  <2>4. v2 \in UeSessions(B)!Maps(1 .. r, R)
    <3> HIDE DEF R
    <3>q. QED
      BY <2>2, WiderDomain
  <2>5. v2' \in UeSessions(B)!Maps(1 .. r, R)
    <3> DEFINE S == 1 .. r
               c == [psi |-> m.psi, dl |-> 0]
    <3> HIDE DEF S, R, c
    <3>1. v2 \in UeSessions(B)!Maps(S, R) /\ r \in S /\ c \in R
      BY <2>3, <2>4 DEF S, c
    <3>2. UeSessions(B)!Put(v2, r, c) \in UeSessions(B)!Maps(S, R)
      BY <3>1, PutMaps
    <3>q. QED
      BY <2>1, <3>2 DEF S, c
  <2>6. DOMAIN v2' = DOMAIN v2 \cup {r}
    BY <2>1 DEF UeSessions!Put
  <2>7. r \notin DOMAIN v2
    BY <2>2
  <2>q. QED
    BY <2>2, <2>5, <2>6, <2>7
<1>11. CASE how = "created"
  <2>1. /\ v1' = [v1 EXCEPT !.refs = UeSessions(B)!Put(v1.refs, m.psi, r)] /\ v12' = [v12 EXCEPT !.refs = r]
        /\ v10' = IF m.psi \in DOMAIN v1.refs /\ v1.refs[m.psi] \in DOMAIN v2
                     THEN UeSessions(B)!Put(v10, v1.refs[m.psi], "overwritten") ELSE v10
    BY <1>6, <1>11 DEF UeSessions!Established
  <2>2. UeSessions(B)!BoundTypes' /\ v12.refs' = r
    <3>1. v12.refs \in Nat /\ {"refs", "connections", "failed"} \subseteq DOMAIN v12 /\ v12.failed \in Nat
          /\ v12.connections \in UeSessions(B)!Positive
      BY <1>b DEF UeSessions!BoundTypes
    <3>2. /\ DOMAIN v12' = DOMAIN v12 /\ v12' = [f \in DOMAIN v12' |-> v12'[f]]
          /\ v12'["refs"] = r /\ v12'["failed"] = v12["failed"] /\ v12'["connections"] = v12["connections"]
      BY <2>1, <3>1, <1>b DEF UeSessions!BoundTypes
    <3>q. QED
      BY <3>1, <3>2 DEF UeSessions!BoundTypes
  <2>3. v1'.refs = UeSessions(B)!Put(v1.refs, m.psi, r) /\ v1' \in [cm : {"connected", "idle"}, id : UeSessions(B)!Positive, refs : {v1'.refs}, releasing : SUBSET B.psis]
    BY <2>1, <1>b DEF UeSessions!ContextTypes
  <2>4. v1'.refs \in UeSessions(B)!Maps(B.psis, 1 .. r)
    <3>1. v12.refs \in Nat /\ v1.refs \in UeSessions(B)!Maps(B.psis, 1 .. v12.refs)
      BY <1>b DEF UeSessions!BoundTypes, UeSessions!ContextTypes
    <3>2. v1.refs \in UeSessions(B)!Maps(B.psis, 1 .. r) /\ r \in 1 .. r
      BY <3>1, Wider
    <3>3. UeSessions(B)!Put(v1.refs, m.psi, r) \in UeSessions(B)!Maps(B.psis, 1 .. r)
      <4> DEFINE S == 1 .. r
      <4> HIDE DEF S
      <4>1. v1.refs \in UeSessions(B)!Maps(B.psis, S) /\ r \in S
        BY <3>2 DEF S
      <4>2. UeSessions(B)!Put(v1.refs, m.psi, r) \in UeSessions(B)!Maps(B.psis, S)
        BY <1>3, <4>1, PutMaps
      <4>q. QED
        BY <4>2 DEF S
    <3>q. QED
      BY <2>3, <3>3
  <2>5. /\ DOMAIN v1'.refs = DOMAIN v1.refs \cup {m.psi} /\ v1'.refs[m.psi] = r
        /\ \A p \in DOMAIN v1.refs \ {m.psi} : v1'.refs[p] = v1.refs[p]
    BY <2>3 DEF UeSessions!Put
  <2>6. \A p, q \in DOMAIN v1'.refs : v1'.refs[p] = v1'.refs[q] => p = q
    <3>1. \A p \in DOMAIN v1.refs : v1.refs[p] # r
      BY <1>b DEF UeSessions!BoundTypes
    <3>q. QED
      BY <2>5, <3>1, <1>b DEF UeSessions!ContextTypes
  <2>7. UeSessions(B)!ContextTypes'
    <3>1. v1' \in [cm : {"connected", "idle"}, id : UeSessions(B)!Positive, refs : UeSessions(B)!Maps(B.psis, 1 .. r), releasing : SUBSET B.psis]
      BY <2>3, <2>4
    <3>q. QED
      BY <1>10, <1>11, <2>2, <2>6, <3>1 DEF UeSessions!ContextTypes
  <2>8. UeSessions(B)!SmContextsAreOwned'
    <3> SUFFICES ASSUME NEW x \in DOMAIN v2' PROVE x \in UeSessions(B)!Refs' \cup DOMAIN v10'
      BY DEF UeSessions!SmContextsAreOwned
    <3>1. DOMAIN v10 \subseteq DOMAIN v10'
      BY <2>1 DEF UeSessions!Put
    <3>2. r \in UeSessions(B)!Refs'
      BY <2>5 DEF UeSessions!Refs
    <3>3. ASSUME NEW p \in DOMAIN v1.refs, x = v1.refs[p], p # m.psi PROVE x \in UeSessions(B)!Refs'
      BY <2>5, <3>3 DEF UeSessions!Refs
    <3>4. ASSUME m.psi \in DOMAIN v1.refs, x = v1.refs[m.psi], x \in DOMAIN v2 PROVE x \in DOMAIN v10'
      BY <2>1, <3>4 DEF UeSessions!Put
    <3>5. x = r \/ x \in DOMAIN v2
      BY <1>10, <1>11
    <3>6. ASSUME x \in DOMAIN v2 PROVE x \in DOMAIN v10 \/ \E p \in DOMAIN v1.refs : x = v1.refs[p]
      BY <3>6 DEF UeSessions!SmContextsAreOwned, UeSessions!Refs
    <3>q. QED
      BY <3>1, <3>2, <3>3, <3>4, <3>5, <3>6
  <2>q. QED
    BY <1>8, <2>2, <2>7, <2>8 DEF UeSessions!SessionTypes
<1>12. CASE how = "unanswered"
  <2>1. v1' = v1 /\ v12' = [v12 EXCEPT !.refs = r, !.failed = @ + 1] /\ v10' = UeSessions(B)!Put(v10, r, "unanswered")
    BY <1>6, <1>12 DEF UeSessions!Established
  <2>2. UeSessions(B)!BoundTypes' /\ v12.refs' = r
    <3>1. v12.refs \in Nat /\ {"refs", "connections", "failed"} \subseteq DOMAIN v12 /\ v12.failed \in Nat
          /\ v12.connections \in UeSessions(B)!Positive
      BY <1>b DEF UeSessions!BoundTypes
    <3>2. /\ DOMAIN v12' = DOMAIN v12 /\ v12' = [f \in DOMAIN v12' |-> v12'[f]]
          /\ v12'["refs"] = r /\ v12'["failed"] = v12["failed"] + 1 /\ v12'["connections"] = v12["connections"]
      BY <2>1, <3>1, <1>b DEF UeSessions!BoundTypes
    <3>q. QED
      BY <3>1, <3>2 DEF UeSessions!BoundTypes
  <2>3. UeSessions(B)!ContextTypes'
    <3>1. v12.refs \in Nat /\ v1.refs \in UeSessions(B)!Maps(B.psis, 1 .. v12.refs)
      BY <1>b DEF UeSessions!BoundTypes, UeSessions!ContextTypes
    <3>2. v1.refs \in UeSessions(B)!Maps(B.psis, 1 .. r)
      BY <3>1, Wider
    <3>q. QED
      BY <1>10, <1>12, <2>1, <2>2, <3>2, <1>b DEF UeSessions!ContextTypes
  <2>4. UeSessions(B)!SmContextsAreOwned'
    <3>1. DOMAIN v10' = DOMAIN v10 \cup {r} /\ DOMAIN v2' = DOMAIN v2 \cup {r} /\ UeSessions(B)!Refs' = UeSessions(B)!Refs
      BY <1>10, <1>12, <2>1 DEF UeSessions!Refs, UeSessions!Put
    <3>q. QED
      BY <3>1 DEF UeSessions!SmContextsAreOwned
  <2>q. QED
    BY <1>8, <2>2, <2>3, <2>4 DEF UeSessions!SessionTypes
<1>q. QED
  BY <1>9, <1>11, <1>12

LEMMA Finalizes ==
    ASSUME NEW CONSTANT B, UeSessions(B)!SessionTypes, UeSessions(B)!SmContextsAreOwned, NEW id, NEW p, NEW ok \in BOOLEAN, UeSessions(B)!finalize_release(id, p, ok)
    PROVE  UeSessions(B)!BoundTypes' /\ UeSessions(B)!ContextTypes' /\ UeSessions(B)!SmContextsAreOwned'
<1> USE SessionRecords
<1>b. UeSessions(B)!BoundTypes
  BY DEF UeSessions!SessionTypes
<1>1. CASE ~(UeSessions(B)!Known(id) /\ p \in v1.releasing)
  <2>1. UNCHANGED <<v1, v2, v10, v12>>
    BY <1>1 DEF UeSessions!finalize_release
  <2>2. v12.refs' = v12.refs /\ UeSessions(B)!BoundTypes'
    BY <1>b, <2>1, Spends
  <2>q. QED
    BY <2>1, <2>2, Aside
<1>2. CASE UeSessions(B)!Known(id) /\ p \in v1.releasing
  <2> DEFINE refs == {v1.refs[q] : q \in {p} \cap DOMAIN v1.refs}
             bad == IF ok THEN {} ELSE refs
  <2>1. /\ UeSessions(B)!release_sm_context(refs, bad) /\ UeSessions(B)!Failing(IF ok THEN 0 ELSE 1)
        /\ v1' = [v1 EXCEPT !.refs = UeSessions(B)!Drop(v1.refs, {p}), !.releasing = v1.releasing \ {p}]
    BY <1>2 DEF UeSessions!finalize_release
  <2>2. v12.refs' = v12.refs /\ UeSessions(B)!BoundTypes'
    <3>1. (IF ok THEN 0 ELSE 1) \in Nat
      OBVIOUS
    <3>q. QED
      BY <1>b, <2>1, <3>1, Spends
  <2>3. /\ v2' \in UeSessions(B)!Maps(1 .. v12.refs, [psi : B.psis, dl : Nat])
        /\ DOMAIN v2' = DOMAIN v2 \ (refs \ bad) /\ DOMAIN v10' = DOMAIN v10 \cup (bad \cap DOMAIN v2)
    <3> HIDE DEF refs, bad
    <3>q. QED
      BY <2>1, SmfReleases, SmfReleased
  <2>4. /\ v1' = [cm |-> v1.cm, id |-> v1.id, refs |-> UeSessions(B)!Drop(v1.refs, {p}), releasing |-> v1.releasing \ {p}]
        /\ DOMAIN v1'.refs = DOMAIN v1.refs \ {p} /\ \A q \in DOMAIN v1'.refs : v1'.refs[q] = v1.refs[q]
    BY <2>1 DEF UeSessions!Drop
  <2>5. UeSessions(B)!ContextTypes'
    <3>1. v1'.refs = UeSessions(B)!Drop(v1.refs, {p}) /\ v1'.releasing \subseteq B.psis /\ v1'.cm = v1.cm /\ v1'.id = v1.id
      BY <2>4
    <3>2. v1' = [cm |-> v1'.cm, id |-> v1'.id, refs |-> v1'.refs, releasing |-> v1'.releasing]
      BY <2>4
    <3>q. QED
      BY <2>2, <2>3, <3>1, <3>2, ContextKept
  <2>6. UeSessions(B)!SmContextsAreOwned'
    <3> SUFFICES ASSUME NEW x \in DOMAIN v2' PROVE x \in UeSessions(B)!Refs' \cup DOMAIN v10'
      BY DEF UeSessions!SmContextsAreOwned
    <3>1. x \in DOMAIN v10 \/ \E q \in DOMAIN v1.refs : x = v1.refs[q]
      BY <2>3 DEF UeSessions!SmContextsAreOwned, UeSessions!Refs
    <3>2. ASSUME NEW q \in DOMAIN v1.refs, q # p PROVE v1.refs[q] \in UeSessions(B)!Refs'
      BY <2>4, <3>2 DEF UeSessions!Refs
    <3>3. ASSUME p \in DOMAIN v1.refs, x = v1.refs[p] PROVE x \in DOMAIN v10'
      BY <2>3, <3>3
    <3>q. QED
      BY <2>3, <3>1, <3>2, <3>3
  <2>q. QED
    BY <2>2, <2>5, <2>6
<1>q. QED
  BY <1>1, <1>2

\* An AN release: the user plane of every session is deactivated, the context retained.
LEMMA AnRelease ==
    ASSUME NEW CONSTANT B, UeSessions(B)!SessionTypes, UeSessions(B)!SmContextsAreOwned, NEW bad, UeSessions(B)!release_ue_context(bad), UNCHANGED v10
    PROVE  /\ UeSessions(B)!BoundTypes' /\ UeSessions(B)!ContextTypes' /\ UeSessions(B)!SmContextsAreOwned' /\ DOMAIN v2' = DOMAIN v2
           /\ v12.refs' = v12.refs /\ v12.connections' = v12.connections
<1> USE SessionRecords
<1> DEFINE dl == [r \in UeSessions(B)!Refs |-> 0]
<1>b. UeSessions(B)!BoundTypes
  BY DEF UeSessions!SessionTypes
<1>1. bad \subseteq UeSessions(B)!Refs /\ UeSessions(B)!update_sm_context(dl, bad) /\ UeSessions(B)!Failing(UeSessions(B)!Cardinality(bad)) /\ v1' = [v1 EXCEPT !.cm = "idle"]
  BY DEF UeSessions!release_ue_context
<1>2. UeSessions(B)!Cardinality(bad) \in Nat
  <2>1. UeSessions(B)!Refs \subseteq 1 .. v12.refs /\ v12.refs \in Nat
    BY <1>b DEF UeSessions!Refs, UeSessions!BoundTypes
  <2>q. QED
    BY <1>1, <2>1, IntervalCounts
<1>3. v12.refs' = v12.refs /\ v12.connections' = v12.connections /\ UeSessions(B)!BoundTypes'
  BY <1>b, <1>1, <1>2, Spends
<1>4. v2' \in UeSessions(B)!Maps(1 .. v12.refs, [psi : B.psis, dl : Nat]) /\ DOMAIN v2' = DOMAIN v2
  <2>1. \A r \in DOMAIN dl : dl[r] \in Nat
    OBVIOUS
  <2> HIDE DEF dl
  <2>q. QED
    BY <1>1, <2>1, SmfUpdates
<1>5. v1' = [cm |-> "idle", id |-> v1.id, refs |-> v1.refs, releasing |-> v1.releasing]
  BY <1>1
<1>6. UeSessions(B)!ContextTypes'
  <2>1. v1'.refs = v1.refs /\ v1'.releasing = v1.releasing /\ v1'.cm = "idle" /\ v1'.id = v1.id
    BY <1>5
  <2>2. v1' = [cm |-> v1'.cm, id |-> v1'.id, refs |-> v1'.refs, releasing |-> v1'.releasing]
    BY <1>5
  <2>q. QED
    BY <1>3, <1>4, <2>1, <2>2, ContextKept
<1>7. UeSessions(B)!SmContextsAreOwned'
  BY <1>4, <1>5 DEF UeSessions!SmContextsAreOwned, UeSessions!Refs
<1>q. QED
  BY <1>3, <1>4, <1>6, <1>7

LEMMA ReleaseSteps ==
    ASSUME NEW CONSTANT B, UeSessions(B)!SessionTypes, UeSessions(B)!SmContextsAreOwned,
           \/ \E ok \in BOOLEAN : UeSessions(B)!OnReleaseComplete(ok) \/ UeSessions(B)!ReleaseGuardExpiry(ok)
           \/ UeSessions(B)!on_release_response
           \/ \E bad \in SUBSET UeSessions(B)!Refs : UeSessions(B)!OnReleaseRequest(bad) \/ UeSessions(B)!on_ng_reset(bad)
    PROVE  UeSessions(B)!SessionTypes' /\ UeSessions(B)!SmContextsAreOwned'
<1> USE SessionRecords
<1>b. UeSessions(B)!BoundTypes /\ UeSessions(B)!LinkTypes
  BY DEF UeSessions!SessionTypes
<1>s. UNCHANGED v12 => v12.refs' = v12.refs /\ UeSessions(B)!BoundTypes'
  BY <1>b, Spends
<1>1. ASSUME NEW ok \in BOOLEAN, UeSessions(B)!OnReleaseComplete(ok) PROVE UeSessions(B)!SessionTypes' /\ UeSessions(B)!SmContextsAreOwned'
  <2>1. v5' \in Seq(UeSessions(B)!Uplink)
    BY <1>1, Takes DEF UeSessions!OnReleaseComplete
  <2>2. UeSessions(B)!LinkTypes'
    BY <1>1, <1>b, <2>1 DEF UeSessions!LinkTypes, UeSessions!OnReleaseComplete
  <2>q. QED
    BY <1>1, <2>2, Finalizes DEF UeSessions!OnReleaseComplete, UeSessions!SessionTypes
<1>2. ASSUME NEW ok \in BOOLEAN, UeSessions(B)!ReleaseGuardExpiry(ok) PROVE UeSessions(B)!SessionTypes' /\ UeSessions(B)!SmContextsAreOwned'
  <2>1. v7' \in Seq(UeSessions(B)!Commands)
    BY <1>2, Takes DEF UeSessions!ReleaseGuardExpiry
  <2>2. UeSessions(B)!LinkTypes'
    BY <1>2, <1>b, <2>1 DEF UeSessions!LinkTypes, UeSessions!ReleaseGuardExpiry
  <2>q. QED
    BY <1>2, <2>2, Finalizes DEF UeSessions!ReleaseGuardExpiry, UeSessions!SessionTypes
<1>3. ASSUME UeSessions(B)!on_release_response PROVE UeSessions(B)!SessionTypes' /\ UeSessions(B)!SmContextsAreOwned'
  <2>1. v5' \in Seq(UeSessions(B)!Uplink)
    BY <1>3, Takes DEF UeSessions!on_release_response
  <2>2. UeSessions(B)!LinkTypes'
    BY <1>3, <1>b, <2>1 DEF UeSessions!LinkTypes, UeSessions!on_release_response
  <2>q. QED
    BY <1>3, <1>s, <2>2, Aside DEF UeSessions!on_release_response, UeSessions!SessionTypes
<1>4. ASSUME NEW bad \in SUBSET UeSessions(B)!Refs, UeSessions(B)!OnReleaseRequest(bad) PROVE UeSessions(B)!SessionTypes' /\ UeSessions(B)!SmContextsAreOwned'
  <2>1. v5' \in Seq(UeSessions(B)!Uplink)
    BY <1>4, Takes DEF UeSessions!OnReleaseRequest
  <2>2. CASE UeSessions(B)!Known(Head(v5).id)
    <3>1. UeSessions(B)!release_ue_context(bad) /\ v6' = Append(v6, [k |-> "contextRelease", id |-> v1.id]) /\ UNCHANGED v10
      BY <1>4, <2>2 DEF UeSessions!OnReleaseRequest
    <3>2. v6' \in Seq(UeSessions(B)!Downlink)
      BY <3>1, DownlinkAppends DEF UeSessions!Positive
    <3>3. UeSessions(B)!LinkTypes'
      BY <1>4, <1>b, <2>1, <3>2 DEF UeSessions!LinkTypes, UeSessions!OnReleaseRequest
    <3>q. QED
      BY <3>1, <3>3, AnRelease DEF UeSessions!SessionTypes
  <2>3. CASE ~UeSessions(B)!Known(Head(v5).id)
    <3>1. UNCHANGED <<v1, v2, v6, v12, v10>>
      BY <1>4, <2>3 DEF UeSessions!OnReleaseRequest
    <3>3. UeSessions(B)!LinkTypes'
      BY <1>4, <1>b, <2>1, <3>1 DEF UeSessions!LinkTypes, UeSessions!OnReleaseRequest
    <3>q. QED
      BY <1>s, <3>1, <3>3, Aside DEF UeSessions!SessionTypes
  <2>q. QED
    BY <2>2, <2>3
<1>5. ASSUME NEW bad \in SUBSET UeSessions(B)!Refs, UeSessions(B)!on_ng_reset(bad) PROVE UeSessions(B)!SessionTypes' /\ UeSessions(B)!SmContextsAreOwned'
  <2>1. v5' \in Seq(UeSessions(B)!Uplink)
    BY <1>5, Takes DEF UeSessions!on_ng_reset
  <2>2. UeSessions(B)!LinkTypes'
    BY <1>5, <1>b, <2>1 DEF UeSessions!LinkTypes, UeSessions!on_ng_reset
  <2>3. CASE v1.cm = "connected"
    BY <1>5, <2>2, <2>3, AnRelease DEF UeSessions!SessionTypes, UeSessions!on_ng_reset
  <2>4. CASE v1.cm # "connected"
    BY <1>5, <1>s, <2>2, <2>4, Aside DEF UeSessions!SessionTypes, UeSessions!on_ng_reset
  <2>q. QED
    BY <2>3, <2>4
<1>q. QED
  BY <1>1, <1>2, <1>3, <1>4, <1>5

LEMMA SetupSteps ==
    ASSUME NEW CONSTANT B, UeSessions(B)!SessionTypes, UeSessions(B)!SmContextsAreOwned,
           \/ \E ok \in BOOLEAN : UeSessions(B)!on_pdu_session_setup_response(ok)
           \/ UeSessions(B)!on_initial_context_setup_response
    PROVE  UeSessions(B)!SessionTypes' /\ UeSessions(B)!SmContextsAreOwned'
<1> USE SessionRecords
<1> DEFINE m == Head(v5)
<1>b. UeSessions(B)!BoundTypes /\ UeSessions(B)!LinkTypes
  BY DEF UeSessions!SessionTypes
<1>s. UNCHANGED v12 => v12.refs' = v12.refs /\ UeSessions(B)!BoundTypes'
  BY <1>b, Spends
<1>1. ASSUME NEW ok \in BOOLEAN, UeSessions(B)!on_pdu_session_setup_response(ok) PROVE UeSessions(B)!SessionTypes' /\ UeSessions(B)!SmContextsAreOwned'
  <2>1. v5' \in Seq(UeSessions(B)!Uplink) /\ m \in UeSessions(B)!Uplink /\ m.k = "setupResponse"
    BY <1>1, Takes DEF UeSessions!on_pdu_session_setup_response
  <2>2. UeSessions(B)!LinkTypes'
    BY <1>1, <1>b, <2>1 DEF UeSessions!LinkTypes, UeSessions!on_pdu_session_setup_response
  <2>3. v12.refs' = v12.refs /\ UeSessions(B)!BoundTypes'
    <3>1. UeSessions(B)!Failing(IF ok THEN 0 ELSE 1) /\ (IF ok THEN 0 ELSE 1) \in Nat
      BY <1>1 DEF UeSessions!on_pdu_session_setup_response
    <3>q. QED
      BY <1>b, <3>1, Spends
  <2>4. CASE UeSessions(B)!Known(m.id) /\ m.psi \in DOMAIN v1.refs
    <3> DEFINE dl == [r \in {v1.refs[m.psi]} |-> m.teid]
               bad == IF ok THEN {} ELSE {v1.refs[m.psi]}
    <3>1. UeSessions(B)!update_sm_context(dl, bad) /\ UNCHANGED <<v1, v10>>
      BY <1>1, <2>4 DEF UeSessions!on_pdu_session_setup_response
    <3>2. \A r \in DOMAIN dl : dl[r] \in Nat
      BY <2>1, UplinkIs
    <3>3. v2' \in UeSessions(B)!Maps(1 .. v12.refs, [psi : B.psis, dl : Nat]) /\ DOMAIN v2' = DOMAIN v2
      <4> HIDE DEF dl, bad
      <4>q. QED
        BY <3>1, <3>2, SmfUpdates
    <3>4. UeSessions(B)!ContextTypes'
      BY <2>3, <3>1, <3>3 DEF UeSessions!ContextTypes, UeSessions!SessionTypes
    <3>5. UeSessions(B)!SmContextsAreOwned'
      BY <3>1, <3>3 DEF UeSessions!SmContextsAreOwned, UeSessions!Refs
    <3>q. QED
      BY <2>2, <2>3, <3>4, <3>5 DEF UeSessions!SessionTypes
  <2>5. CASE ~(UeSessions(B)!Known(m.id) /\ m.psi \in DOMAIN v1.refs)
    <3>1. UNCHANGED <<v1, v2, v10>>
      BY <1>1, <2>5 DEF UeSessions!on_pdu_session_setup_response
    <3>q. QED
      BY <2>2, <2>3, <3>1, Aside DEF UeSessions!SessionTypes
  <2>q. QED
    BY <2>4, <2>5
<1>2. ASSUME UeSessions(B)!on_initial_context_setup_response PROVE UeSessions(B)!SessionTypes' /\ UeSessions(B)!SmContextsAreOwned'
  <2> DEFINE known == IF UeSessions(B)!Known(m.id) THEN DOMAIN v1.refs ELSE {}
             gone == {v1.refs[p] : p \in m.refused \cap known}
             dl == [r \in {v1.refs[p] : p \in DOMAIN m.ses \cap known} |->
                      m.ses[CHOOSE p \in known : v1.refs[p] = r]]
             R == [psi : B.psis, dl : Nat]
  <2>1. v5' \in Seq(UeSessions(B)!Uplink) /\ m \in UeSessions(B)!Uplink /\ m.k = "contextResponse"
    BY <1>2, Takes DEF UeSessions!on_initial_context_setup_response
  <2>2. UeSessions(B)!LinkTypes'
    BY <1>2, <1>b, <2>1 DEF UeSessions!LinkTypes, UeSessions!on_initial_context_setup_response
  <2>3. v12.refs' = v12.refs /\ UeSessions(B)!BoundTypes'
    BY <1>2, <1>s DEF UeSessions!on_initial_context_setup_response
  <2>4. /\ v2' = [r \in DOMAIN v2 \ gone |-> IF r \in DOMAIN dl THEN [v2[r] EXCEPT !.dl = dl[r]] ELSE v2[r]]
        /\ v1' = [v1 EXCEPT !.refs = UeSessions(B)!Drop(v1.refs, m.refused \cap known)] /\ UNCHANGED v10
    BY <1>2 DEF UeSessions!on_initial_context_setup_response
  <2>5. \A r \in DOMAIN dl : dl[r] \in Nat
    <3> SUFFICES ASSUME NEW p \in DOMAIN m.ses \cap known PROVE m.ses[CHOOSE q \in known : v1.refs[q] = v1.refs[p]] \in Nat
      OBVIOUS
    <3>1. \A q \in known : v1.refs[q] = v1.refs[p] => q = p
      BY DEF UeSessions!SessionTypes, UeSessions!ContextTypes
    <3>2. (CHOOSE q \in known : v1.refs[q] = v1.refs[p]) = p
      BY <3>1
    <3>3. m.ses \in UeSessions(B)!Maps(B.psis, Nat)
      BY <2>1, UplinkIs
    <3>4. m.ses[p] \in Nat
      <4> HIDE DEF m
      <4>1. DOMAIN m.ses \subseteq B.psis /\ \A x \in DOMAIN m.ses : m.ses[x] \in Nat
        BY ONLY <3>3, MapOf
      <4>q. QED
        BY <4>1
    <3>q. QED
      BY <3>2, <3>4
  <2>6. v2' \in UeSessions(B)!Maps(1 .. v12.refs, R)
    <3> HIDE DEF gone, dl
    <3>1. ASSUME NEW r \in DOMAIN v2 \ gone
          PROVE  (IF r \in DOMAIN dl THEN [v2[r] EXCEPT !.dl = dl[r]] ELSE v2[r]) \in R
      <4>1. CASE r \in DOMAIN dl
        BY <2>5, <4>1
      <4>q. QED
        BY <4>1
    <3> DEFINE S == 1 .. v12.refs
    <3>2. DOMAIN v2 \ gone \subseteq S
      OBVIOUS
    <3> HIDE DEF R, S
    <3>3. v2' \in [DOMAIN v2 \ gone -> R]
      BY <2>4, <3>1
    <3>4. v2' \in UeSessions(B)!Maps(S, R)
      BY <3>2, <3>3 DEF UeSessions!Maps
    <3>q. QED
      BY <3>4 DEF S
  <2>7. /\ v1' = [cm |-> v1.cm, id |-> v1.id, refs |-> UeSessions(B)!Drop(v1.refs, m.refused \cap known), releasing |-> v1.releasing]
        /\ DOMAIN v1'.refs = DOMAIN v1.refs \ (m.refused \cap known)
        /\ \A q \in DOMAIN v1'.refs : v1'.refs[q] = v1.refs[q]
    BY <2>4 DEF UeSessions!Drop
  <2>8. UeSessions(B)!ContextTypes'
    <3>1. /\ v1'.refs = UeSessions(B)!Drop(v1.refs, m.refused \cap known) /\ v1'.releasing \subseteq B.psis
          /\ v1'.cm = v1.cm /\ v1'.id = v1.id
      BY <2>7
    <3>2. v1' = [cm |-> v1'.cm, id |-> v1'.id, refs |-> v1'.refs, releasing |-> v1'.releasing]
      BY <2>7
    <3> HIDE DEF m, known
    <3>q. QED
      BY <2>3, <2>6, <3>1, <3>2, ContextKept
  <2>9. UeSessions(B)!SmContextsAreOwned'
    <3> SUFFICES ASSUME NEW x \in DOMAIN v2' PROVE x \in UeSessions(B)!Refs' \cup DOMAIN v10'
      BY DEF UeSessions!SmContextsAreOwned
    <3>1. x \in DOMAIN v2 /\ x \notin gone
      BY <2>4
    <3>2. x \in DOMAIN v10 \/ \E q \in DOMAIN v1.refs : x = v1.refs[q]
      BY <3>1 DEF UeSessions!SmContextsAreOwned, UeSessions!Refs
    <3>3. ASSUME NEW q \in DOMAIN v1.refs, x = v1.refs[q] PROVE x \in UeSessions(B)!Refs'
      <4>1. q \notin m.refused \cap known
        BY <3>1, <3>3
      <4> HIDE DEF known, m
      <4>q. QED
        BY <2>7, <3>3, <4>1 DEF UeSessions!Refs
    <3>q. QED
      BY <2>4, <3>2, <3>3
  <2>q. QED
    BY <2>2, <2>3, <2>8, <2>9 DEF UeSessions!SessionTypes
<1>q. QED
  BY <1>1, <1>2

LEMMA ReturnStep ==
    ASSUME NEW CONSTANT B, UeSessions(B)!SessionTypes, UeSessions(B)!SmContextsAreOwned, UeSessions(B)!on_service_request
    PROVE  UeSessions(B)!SessionTypes' /\ UeSessions(B)!SmContextsAreOwned'
<1> USE SessionRecords
<1> DEFINE m == Head(v5)
           left == DOMAIN v1.refs \ UeSessions(B)!Dropped(m)
           wanted == IF m.kind = "service" THEN left ELSE left \cap m.data
           psis == {p \in wanted : v1.refs[p] \in DOMAIN v2}
           refs == {v1.refs[p] : p \in UeSessions(B)!Dropped(m)}
<1>b. UeSessions(B)!BoundTypes /\ UeSessions(B)!LinkTypes
  BY DEF UeSessions!SessionTypes
<1>1. v5' \in Seq(UeSessions(B)!Uplink) /\ m \in UeSessions(B)!Uplink /\ m.k = "return"
  BY Takes DEF UeSessions!on_service_request
<1>2. /\ v1' = [v1 EXCEPT !.cm = "connected", !.id = v12.connections, !.refs = UeSessions(B)!Keep(v1.refs, left)]
      /\ UeSessions(B)!release_sm_context(refs, {})
      /\ v6' = Append(v6, [k |-> "context", id |-> v1'.id, active |-> left, psis |-> psis])
  BY DEF UeSessions!on_service_request
<1>3. UNCHANGED v12 /\ v12.refs' = v12.refs /\ UeSessions(B)!BoundTypes' /\ v12.connections \in UeSessions(B)!Positive
  BY <1>b, Spends DEF UeSessions!on_service_request, UeSessions!BoundTypes
<1>4. v1' = [cm |-> "connected", id |-> v12.connections, refs |-> UeSessions(B)!Keep(v1.refs, left), releasing |-> v1.releasing]
  BY <1>2
<1>5. v6' \in Seq(UeSessions(B)!Downlink)
  <2>1. left \in SUBSET B.psis /\ psis \in SUBSET B.psis /\ v1'.id \in UeSessions(B)!Positive
    BY <1>3, <1>4
  <2> HIDE DEF left, psis
  <2>q. QED
    BY <1>2, <2>1, DownlinkAppends
<1>6. UeSessions(B)!LinkTypes'
  BY <1>b, <1>1, <1>5 DEF UeSessions!LinkTypes, UeSessions!on_service_request
<1>7. /\ v2' \in UeSessions(B)!Maps(1 .. v12.refs, [psi : B.psis, dl : Nat])
      /\ DOMAIN v2' = DOMAIN v2 \ refs /\ DOMAIN v10' = DOMAIN v10
  <2> HIDE DEF refs
  <2>1. PICK gone, none : gone = refs /\ none = {}
    OBVIOUS
  <2>2. UeSessions(B)!release_sm_context(gone, none)
    BY <1>2, <2>1
  <2>3. DOMAIN v2' = DOMAIN v2 \ (gone \ none) /\ DOMAIN v10' = DOMAIN v10 \cup (none \cap DOMAIN v2)
    BY ONLY <2>2, UeSessions(B)!SessionTypes, SmfReleases
  <2>4. v2' \in UeSessions(B)!Maps(1 .. v12.refs, [psi : B.psis, dl : Nat])
    BY ONLY <2>2, UeSessions(B)!SessionTypes, SmfReleased
  <2>q. QED
    BY <2>1, <2>3, <2>4
<1>8. UeSessions(B)!ContextTypes'
  <2>1. /\ v1'.refs = UeSessions(B)!Drop(v1.refs, DOMAIN v1.refs \ left) /\ v1'.releasing \subseteq B.psis
        /\ v1'.cm = "connected" /\ v1'.id \in Nat \ {0}
    BY <1>3, <1>4 DEF UeSessions!Keep, UeSessions!Positive
  <2>2. v1' = [cm |-> v1'.cm, id |-> v1'.id, refs |-> v1'.refs, releasing |-> v1'.releasing]
    BY <1>4
  <2> HIDE DEF left
  <2>q. QED
    BY <1>3, <1>7, <2>1, <2>2, ContextKept
<1>9. UeSessions(B)!SmContextsAreOwned'
  <2> SUFFICES ASSUME NEW x \in DOMAIN v2' PROVE x \in UeSessions(B)!Refs' \cup DOMAIN v10'
    BY DEF UeSessions!SmContextsAreOwned
  <2>1. x \in DOMAIN v2 /\ x \notin refs
    BY <1>7
  <2>2. x \in DOMAIN v10 \/ \E q \in DOMAIN v1.refs : x = v1.refs[q]
    BY <2>1 DEF UeSessions!SmContextsAreOwned, UeSessions!Refs
  <2>3. ASSUME NEW q \in DOMAIN v1.refs, x = v1.refs[q] PROVE x \in UeSessions(B)!Refs'
    <3>1. q \in left
      BY <2>1, <2>3 DEF UeSessions!Dropped
    <3>2. q \in DOMAIN v1'.refs /\ v1'.refs[q] = x
      BY <1>4, <2>3, <3>1 DEF UeSessions!Keep, UeSessions!Drop
    <3>q. QED
      BY <3>2 DEF UeSessions!Refs
  <2>q. QED
    BY <1>7, <2>2, <2>3
<1>q. QED
  BY <1>3, <1>6, <1>8, <1>9 DEF UeSessions!SessionTypes

LEMMA CommandSteps ==
    ASSUME NEW CONSTANT B, UeSessions(B)!SessionTypes, UeSessions(B)!SmContextsAreOwned,
           \/ UeSessions(B)!on_network_modification \/ UeSessions(B)!on_network_release \/ UeSessions(B)!SbiStep
           \/ \E p \in B.psis : UeSessions(B)!modify_policy(p) \/ UeSessions(B)!release_session(p)
           \/ \E g \in v8 : UeSessions(B)!GuardFires(g)
    PROVE  UeSessions(B)!SessionTypes' /\ UeSessions(B)!SmContextsAreOwned'
<1> USE SessionRecords
<1> DEFINE c == Head(v7)
<1>b. UeSessions(B)!BoundTypes /\ UeSessions(B)!LinkTypes
  BY DEF UeSessions!SessionTypes
<1>s. UNCHANGED v12 => v12.refs' = v12.refs /\ UeSessions(B)!BoundTypes'
  BY <1>b, Spends
<1>c. ASSUME NEW x \in UeSessions(B)!Commands PROVE Append(v7, x) \in Seq(UeSessions(B)!Commands)
  BY SeqAppend
<1>1. ASSUME UeSessions(B)!on_network_modification PROVE UeSessions(B)!SessionTypes' /\ UeSessions(B)!SmContextsAreOwned'
  <2>1. v7' \in Seq(UeSessions(B)!Commands) /\ c \in UeSessions(B)!Commands
    BY <1>1, Takes DEF UeSessions!on_network_modification
  <2>2. c.id \in UeSessions(B)!Positive /\ c.psi \in B.psis
    BY <2>1, CommandIs
  <2>3. Append(v6, [k |-> "modify", id |-> c.id, psi |-> c.psi]) \in Seq(UeSessions(B)!Downlink)
    <3> HIDE DEF c
    <3>q. QED
      BY <2>2, DownlinkAppends
  <2>4. v6' \in Seq(UeSessions(B)!Downlink)
    BY <1>1, <2>3 DEF UeSessions!on_network_modification
  <2>5. UeSessions(B)!LinkTypes'
    BY <1>1, <1>b, <2>1, <2>4 DEF UeSessions!LinkTypes, UeSessions!on_network_modification
  <2>q. QED
    BY <1>1, <1>s, <2>5, Aside DEF UeSessions!on_network_modification, UeSessions!SessionTypes
<1>2. ASSUME UeSessions(B)!on_network_release PROVE UeSessions(B)!SessionTypes' /\ UeSessions(B)!SmContextsAreOwned'
  <2>1. v7' \in Seq(UeSessions(B)!Commands) /\ c \in UeSessions(B)!Commands
    BY <1>2, Takes DEF UeSessions!on_network_release
  <2>2. c.id \in UeSessions(B)!Positive /\ c.psi \in B.psis
    BY <2>1, CommandIs
  <2>3. CASE UeSessions(B)!Known(c.id) /\ c.psi \in DOMAIN v1.refs
    <3>1. /\ v1' = [v1 EXCEPT !.releasing = v1.releasing \cup {c.psi}]
          /\ v8' = v8 \cup {[id |-> c.id, psi |-> c.psi, for |-> v1.refs[c.psi]]}
          /\ v6' = Append(v6, [k |-> "release", id |-> c.id, psi |-> c.psi])
          /\ UNCHANGED <<v2, v10, v12>>
      BY <1>2, <2>3 DEF UeSessions!on_network_release, UeSessions!arm_release_guard
    <3>2. v6' \in Seq(UeSessions(B)!Downlink)
      <4>1. Append(v6, [k |-> "release", id |-> c.id, psi |-> c.psi]) \in Seq(UeSessions(B)!Downlink)
        <5> HIDE DEF c
        <5>q. QED
          BY <2>2, DownlinkAppends
      <4>q. QED
        BY <3>1, <4>1
    <3>3. v8' \subseteq UeSessions(B)!Guards
      BY <1>b, <2>2, <2>3, <3>1 DEF UeSessions!LinkTypes, UeSessions!Guards
    <3>4. UeSessions(B)!LinkTypes'
      BY <1>2, <1>b, <2>1, <3>2, <3>3 DEF UeSessions!LinkTypes, UeSessions!on_network_release
    <3>5. /\ v1' = [cm |-> v1.cm, id |-> v1.id, refs |-> v1.refs, releasing |-> v1.releasing \cup {c.psi}]
      BY <3>1
    <3>6. UeSessions(B)!ContextTypes'
      <4>1. /\ v1'.refs = v1.refs /\ v1'.releasing \subseteq B.psis /\ v1'.cm = v1.cm /\ v1'.id = v1.id
            /\ v1' = [cm |-> v1'.cm, id |-> v1'.id, refs |-> v1'.refs, releasing |-> v1'.releasing]
        BY <2>2, <3>5
      <4>2. v12.refs' = v12.refs
        BY <3>1
      <4>q. QED
        BY <3>1, <4>1, <4>2, ContextKept
    <3>7. UeSessions(B)!SmContextsAreOwned'
      BY <3>1, <3>5 DEF UeSessions!SmContextsAreOwned, UeSessions!Refs
    <3>q. QED
      BY <1>s, <3>1, <3>4, <3>6, <3>7 DEF UeSessions!SessionTypes
  <2>4. CASE ~(UeSessions(B)!Known(c.id) /\ c.psi \in DOMAIN v1.refs)
    <3>1. UNCHANGED <<v1, v2, v10, v12, v8, v6>>
      BY <1>2, <2>4 DEF UeSessions!on_network_release
    <3>2. UeSessions(B)!LinkTypes'
      BY <1>2, <1>b, <2>1, <3>1 DEF UeSessions!LinkTypes, UeSessions!on_network_release
    <3>q. QED
      BY <1>s, <3>1, <3>2, Aside DEF UeSessions!SessionTypes
  <2>q. QED
    BY <2>3, <2>4
<1>3. ASSUME NEW g \in v8, UeSessions(B)!GuardFires(g) PROVE UeSessions(B)!SessionTypes' /\ UeSessions(B)!SmContextsAreOwned'
  <2>1. [k |-> "guard", id |-> g.id, psi |-> g.psi, for |-> g.for] \in UeSessions(B)!Commands
    <3>1. g \in UeSessions(B)!Guards
      BY <1>b DEF UeSessions!LinkTypes
    <3>q. QED
      BY <3>1 DEF UeSessions!Guards, UeSessions!Commands
  <2>2. v7' \in Seq(UeSessions(B)!Commands)
    BY <1>3, <1>c, <2>1 DEF UeSessions!GuardFires
  <2>3. v8' \subseteq UeSessions(B)!Guards
    BY <1>3, <1>b DEF UeSessions!GuardFires, UeSessions!LinkTypes
  <2>4. UeSessions(B)!LinkTypes'
    BY <1>3, <1>b, <2>2, <2>3 DEF UeSessions!LinkTypes, UeSessions!GuardFires
  <2>q. QED
    BY <1>3, <1>s, <2>4, Aside DEF UeSessions!GuardFires, UeSessions!SessionTypes
<1>4. ASSUME NEW p \in B.psis, UeSessions(B)!modify_policy(p) PROVE UeSessions(B)!SessionTypes' /\ UeSessions(B)!SmContextsAreOwned'
  <2>1. [k |-> "modify", id |-> v1.id, psi |-> p] \in UeSessions(B)!Commands
    BY DEF UeSessions!Commands, UeSessions!About, UeSessions!Positive
  <2>2. v7' \in Seq(UeSessions(B)!Commands)
    BY <1>4, <1>c, <2>1 DEF UeSessions!modify_policy
  <2>3. UeSessions(B)!LinkTypes'
    BY <1>4, <1>b, <2>2 DEF UeSessions!LinkTypes, UeSessions!modify_policy
  <2>4. v12.refs' = v12.refs /\ UeSessions(B)!BoundTypes'
    BY <1>4, <1>b, Spends DEF UeSessions!modify_policy
  <2>q. QED
    BY <1>4, <2>3, <2>4, Aside DEF UeSessions!modify_policy, UeSessions!SessionTypes
<1>5. ASSUME NEW p \in B.psis, UeSessions(B)!release_session(p) PROVE UeSessions(B)!SessionTypes' /\ UeSessions(B)!SmContextsAreOwned'
  <2>1. [k |-> "release", id |-> v1.id, psi |-> p] \in UeSessions(B)!Commands
    BY DEF UeSessions!Commands, UeSessions!About, UeSessions!Positive
  <2>2. v7' \in Seq(UeSessions(B)!Commands)
    <3>1. v7' = Append(v7, [k |-> "release", id |-> v1.id, psi |-> p]) \/ v7' = v7
      BY <1>5 DEF UeSessions!release_session
    <3>q. QED
      BY <1>c, <2>1, <3>1
  <2>3. v9' \in {UeSessions(B)!NoSbi} \cup [at : {"gathered", "released"}, psi : B.psis, ref : Nat]
    BY <1>5, <1>b DEF UeSessions!release_session, UeSessions!LinkTypes
  <2>4. UeSessions(B)!LinkTypes'
    BY <1>5, <1>b, <2>2, <2>3 DEF UeSessions!LinkTypes, UeSessions!release_session
  <2>5. v12.refs' = v12.refs /\ UeSessions(B)!BoundTypes'
    BY <1>5, <1>b, Spends DEF UeSessions!release_session
  <2>q. QED
    BY <1>5, <2>4, <2>5, Aside DEF UeSessions!release_session, UeSessions!SessionTypes
<1>6. ASSUME NEW ok \in BOOLEAN, UeSessions(B)!ReleaseOffLock(ok) PROVE UeSessions(B)!SessionTypes' /\ UeSessions(B)!SmContextsAreOwned'
  <2> DEFINE bad == IF ok THEN {} ELSE {v9.ref}
  <2>1. UeSessions(B)!release_sm_context({v9.ref}, bad) /\ UeSessions(B)!Failing(IF ok THEN 0 ELSE 1) /\ UNCHANGED v1
    BY <1>6 DEF UeSessions!ReleaseOffLock
  <2>2. v12.refs' = v12.refs /\ UeSessions(B)!BoundTypes'
    <3>1. (IF ok THEN 0 ELSE 1) \in Nat
      OBVIOUS
    <3>q. QED
      BY <1>b, <2>1, <3>1, Spends
  <2>3. v9' \in {UeSessions(B)!NoSbi} \cup [at : {"gathered", "released"}, psi : B.psis, ref : Nat]
    <3>1. v9 \in [at : {"gathered", "released"}, psi : B.psis, ref : Nat]
      BY <1>6, <1>b DEF UeSessions!ReleaseOffLock, UeSessions!LinkTypes, UeSessions!NoSbi
    <3>2. v9' = [v9 EXCEPT !.at = "released"]
      BY <1>6 DEF UeSessions!ReleaseOffLock
    <3>q. QED
      BY <3>1, <3>2
  <2>4. UeSessions(B)!LinkTypes'
    BY <1>6, <1>b, <2>3 DEF UeSessions!LinkTypes, UeSessions!ReleaseOffLock
  <2>5. /\ v2' \in UeSessions(B)!Maps(1 .. v12.refs, [psi : B.psis, dl : Nat])
        /\ DOMAIN v2' = DOMAIN v2 \ ({v9.ref} \ bad) /\ DOMAIN v10' = DOMAIN v10 \cup (bad \cap DOMAIN v2)
    <3> HIDE DEF bad
    <3>1. PICK refs, w : refs = {v9.ref} /\ w = bad
      OBVIOUS
    <3>2. UeSessions(B)!release_sm_context(refs, w)
      BY <2>1, <3>1
    <3>3. DOMAIN v2' = DOMAIN v2 \ (refs \ w) /\ DOMAIN v10' = DOMAIN v10 \cup (w \cap DOMAIN v2)
      BY ONLY <3>2, UeSessions(B)!SessionTypes, SmfReleases
    <3>4. v2' \in UeSessions(B)!Maps(1 .. v12.refs, [psi : B.psis, dl : Nat])
      BY ONLY <3>2, UeSessions(B)!SessionTypes, SmfReleased
    <3>q. QED
      BY <3>1, <3>3, <3>4
  <2>6. UeSessions(B)!ContextTypes'
    BY <2>1, <2>2, <2>5 DEF UeSessions!ContextTypes, UeSessions!SessionTypes
  <2>7. UeSessions(B)!SmContextsAreOwned'
    BY <2>1, <2>5 DEF UeSessions!SmContextsAreOwned, UeSessions!Refs
  <2>q. QED
    BY <2>2, <2>4, <2>6, <2>7 DEF UeSessions!SessionTypes
<1>7. ASSUME UeSessions(B)!DropReleased PROVE UeSessions(B)!SessionTypes' /\ UeSessions(B)!SmContextsAreOwned'
  <2>1. UeSessions(B)!LinkTypes'
    BY <1>7, <1>b DEF UeSessions!LinkTypes, UeSessions!DropReleased
  <2>2. CASE v1.cm = "idle" /\ v9.psi \in DOMAIN v1.refs
    <3>1. /\ v1' = [v1 EXCEPT !.refs = UeSessions(B)!Drop(v1.refs, {v9.psi})] /\ UNCHANGED <<v2, v12>>
          /\ v10' = IF v1.refs[v9.psi] \in DOMAIN v2 \ DOMAIN v10
                       THEN UeSessions(B)!Put(v10, v1.refs[v9.psi], "raced") ELSE v10
      BY <1>7, <2>2 DEF UeSessions!DropReleased
    <3>2. /\ v1' = [cm |-> v1.cm, id |-> v1.id, refs |-> UeSessions(B)!Drop(v1.refs, {v9.psi}), releasing |-> v1.releasing]
          /\ DOMAIN v1'.refs = DOMAIN v1.refs \ {v9.psi}
          /\ \A q \in DOMAIN v1'.refs : v1'.refs[q] = v1.refs[q]
      BY <3>1 DEF UeSessions!Drop
    <3>3. UeSessions(B)!ContextTypes'
      <4>1. /\ v1'.refs = UeSessions(B)!Drop(v1.refs, {v9.psi}) /\ v1'.releasing \subseteq B.psis /\ v1'.cm = v1.cm /\ v1'.id = v1.id
            /\ v1' = [cm |-> v1'.cm, id |-> v1'.id, refs |-> v1'.refs, releasing |-> v1'.releasing]
        BY <3>2
      <4>2. v12.refs' = v12.refs
        BY <3>1
      <4>q. QED
        BY <3>1, <4>1, <4>2, ContextKept
    <3>4. UeSessions(B)!SmContextsAreOwned'
      <4> SUFFICES ASSUME NEW x \in DOMAIN v2 PROVE x \in UeSessions(B)!Refs' \cup DOMAIN v10'
        BY <3>1 DEF UeSessions!SmContextsAreOwned
      <4>1. x \in DOMAIN v10 \/ \E q \in DOMAIN v1.refs : x = v1.refs[q]
        BY DEF UeSessions!SmContextsAreOwned, UeSessions!Refs
      <4>2. DOMAIN v10 \subseteq DOMAIN v10'
        BY <3>1 DEF UeSessions!Put
      <4>3. ASSUME NEW q \in DOMAIN v1.refs, q # v9.psi PROVE v1.refs[q] \in UeSessions(B)!Refs'
        BY <3>2, <4>3 DEF UeSessions!Refs
      <4>4. ASSUME x = v1.refs[v9.psi] PROVE x \in DOMAIN v10'
        BY <3>1, <4>4 DEF UeSessions!Put
      <4>q. QED
        BY <4>1, <4>2, <4>3, <4>4
    <3>q. QED
      BY <1>s, <2>1, <3>1, <3>3, <3>4 DEF UeSessions!SessionTypes
  <2>3. CASE ~(v1.cm = "idle" /\ v9.psi \in DOMAIN v1.refs)
    <3>1. UNCHANGED <<v1, v2, v10, v12>>
      BY <1>7, <2>3 DEF UeSessions!DropReleased
    <3>q. QED
      BY <1>s, <2>1, <3>1, Aside DEF UeSessions!SessionTypes
  <2>q. QED
    BY <2>2, <2>3
<1>q. QED
  BY <1>1, <1>2, <1>3, <1>4, <1>5, <1>6, <1>7 DEF UeSessions!SbiStep

LEMMA SessionStep ==
    ASSUME NEW CONSTANT B, UeSessions(B)!SessionBounds, UeSessions(B)!SessionTypes, UeSessions(B)!SmContextsAreOwned, [UeSessions(B)!Next]_(UeSessions(B)!vars)
    PROVE  UeSessions(B)!SessionTypes' /\ UeSessions(B)!SmContextsAreOwned'
<1>1. CASE UNCHANGED UeSessions(B)!vars
  BY <1>1 DEF UeSessions!vars, UeSessions!SessionTypes, UeSessions!BoundTypes, UeSessions!ContextTypes, UeSessions!LinkTypes, UeSessions!SmContextsAreOwned, UeSessions!Refs
<1>2. CASE UeSessions(B)!N2Step
  BY <1>2, EstablishStep, SetupSteps, ReleaseSteps, ReturnStep DEF UeSessions!N2Step
<1>3. CASE UeSessions(B)!CommandStep
  BY <1>3, CommandSteps, ReleaseSteps DEF UeSessions!CommandStep
<1>4. CASE UeSessions(B)!GnbStep
  BY <1>4, GnbSteps
<1>q. QED
  BY <1>1, <1>2, <1>3, <1>4, UeSteps, CommandSteps DEF UeSessions!Next

-----------------------------------------------------------------------------
(* The path of a PDU session between the two ends of the N2 connection,    *)
(* for any bounds B: PathIInv holds at first, each action keeps it, and    *)
(* DownlinkFollowsRan and Reconciled follow from it.                       *)

\* What a queue holds once its first message is taken.
LEMMA Pops ==
    ASSUME NEW CONSTANT B, NEW S, NEW s \in Seq(S), s # <<>>, NEW p
    PROVE  /\ \A k : UeSessions(B)!Has(s, k, p) <=> UeSessions(B)!Of(Head(s), k, p) \/ UeSessions(B)!Has(Tail(s), k, p)
           /\ \A k : UeSessions(B)!Carries(s, k) <=> Head(s).k = k \/ UeSessions(B)!Carries(Tail(s), k)
           /\ UeSessions(B)!Reported(s, p) <=> UeSessions(B)!Reports(Head(s), p) \/ UeSessions(B)!Reported(Tail(s), p)
           /\ UeSessions(B)!Refused(s, p) <=> (Head(s).k = "contextResponse" /\ p \in Head(s).refused) \/ UeSessions(B)!Refused(Tail(s), p)
           /\ UeSessions(B)!AsksLast(s, p) =>
                /\ UeSessions(B)!AsksLast(Tail(s), p)
                /\ UeSessions(B)!Of(Head(s), "establish", p) =>
                    ~UeSessions(B)!Has(Tail(s), "establish", p) /\ ~UeSessions(B)!Has(Tail(s), "complete", p) /\ ~UeSessions(B)!Reported(Tail(s), p)
           /\ UeSessions(B)!AnsweredOnce(s, p) =>
                /\ UeSessions(B)!AnsweredOnce(Tail(s), p)
                /\ UeSessions(B)!Answers(Head(s), p) => ~UeSessions(B)!Has(Tail(s), "setup", p) /\ ~UeSessions(B)!Has(Tail(s), "reject", p)
           /\ \A k, l : UeSessions(B)!Followed(s, k, l, p) =>
                UeSessions(B)!Followed(Tail(s), k, l, p) /\ (UeSessions(B)!Of(Head(s), k, p) => UeSessions(B)!Has(Tail(s), l, p))
           /\ \A ses : UeSessions(B)!Tells(s, p, ses) =>
                /\ UeSessions(B)!Tells(Tail(s), p, ses)
                /\ UeSessions(B)!Reports(Head(s), p) => p \in DOMAIN ses /\ UeSessions(B)!TunnelIn(Head(s), p) = ses[p]
<1> DEFINE t == Tail(s)
           h == Head(s)
<1>1. /\ Len(s) \in Nat \ {0} /\ DOMAIN s = 1 .. Len(s) /\ DOMAIN t = 1 .. Len(s) - 1
      /\ h = s[1] /\ 1 \in DOMAIN s
  BY SeqTail
<1>2. \A i \in DOMAIN t : i \in Nat /\ i + 1 \in DOMAIN s /\ t[i] = s[i + 1] /\ 1 < i + 1
  BY SeqTail
<1>3. \A i \in DOMAIN s : i = 1 \/ (i \in Nat /\ 1 < i /\ i - 1 \in DOMAIN t /\ t[i - 1] = s[i] /\ i - 1 + 1 = i)
  <2>1. ASSUME NEW i \in DOMAIN s, i # 1 PROVE i \in Nat /\ 1 < i /\ i - 1 \in DOMAIN t /\ i - 1 + 1 = i
    BY <1>1, <2>1
  <2>q. QED
    BY <1>2, <2>1
<1> HIDE DEF t, h
<1>4. \A k : UeSessions(B)!Has(s, k, p) <=> UeSessions(B)!Of(h, k, p) \/ UeSessions(B)!Has(t, k, p)
  BY <1>1, <1>2, <1>3 DEF UeSessions!Has
<1>5. \A k : UeSessions(B)!Carries(s, k) <=> h.k = k \/ UeSessions(B)!Carries(t, k)
  BY <1>1, <1>2, <1>3 DEF UeSessions!Carries
<1>6. UeSessions(B)!Reported(s, p) <=> UeSessions(B)!Reports(h, p) \/ UeSessions(B)!Reported(t, p)
  BY <1>1, <1>2, <1>3 DEF UeSessions!Reported
<1>7. UeSessions(B)!Refused(s, p) <=> (h.k = "contextResponse" /\ p \in h.refused) \/ UeSessions(B)!Refused(t, p)
  BY <1>1, <1>2, <1>3 DEF UeSessions!Refused
<1>8. ASSUME UeSessions(B)!AsksLast(s, p)
      PROVE  /\ UeSessions(B)!AsksLast(t, p)
             /\ UeSessions(B)!Of(h, "establish", p) => ~UeSessions(B)!Has(t, "establish", p) /\ ~UeSessions(B)!Has(t, "complete", p) /\ ~UeSessions(B)!Reported(t, p)
  <2>1. \A i, j \in DOMAIN t : i < j /\ UeSessions(B)!Of(t[i], "establish", p) => ~UeSessions(B)!Speaks(t[j], p)
    BY <1>2, <1>8 DEF UeSessions!AsksLast
  <2>2. ASSUME UeSessions(B)!Of(h, "establish", p), NEW j \in DOMAIN t PROVE ~UeSessions(B)!Speaks(t[j], p)
    BY <1>1, <1>2, <1>8, <2>2 DEF UeSessions!AsksLast
  <2>q. QED
    BY <2>1, <2>2 DEF UeSessions!AsksLast, UeSessions!Has, UeSessions!Reported, UeSessions!Speaks
<1>9. ASSUME UeSessions(B)!AnsweredOnce(s, p)
      PROVE  /\ UeSessions(B)!AnsweredOnce(t, p)
             /\ UeSessions(B)!Answers(h, p) => ~UeSessions(B)!Has(t, "setup", p) /\ ~UeSessions(B)!Has(t, "reject", p)
  <2>1. \A i, j \in DOMAIN t : UeSessions(B)!Answers(t[i], p) /\ UeSessions(B)!Answers(t[j], p) => i = j
    BY <1>2, <1>9 DEF UeSessions!AnsweredOnce
  <2>2. ASSUME UeSessions(B)!Answers(h, p), NEW j \in DOMAIN t PROVE ~UeSessions(B)!Answers(t[j], p)
    BY <1>1, <1>2, <1>9, <2>2 DEF UeSessions!AnsweredOnce
  <2>q. QED
    BY <2>1, <2>2 DEF UeSessions!AnsweredOnce, UeSessions!Has, UeSessions!Answers
<1>10. ASSUME NEW k, NEW l, UeSessions(B)!Followed(s, k, l, p)
       PROVE  UeSessions(B)!Followed(t, k, l, p) /\ (UeSessions(B)!Of(h, k, p) => UeSessions(B)!Has(t, l, p))
  <2>1. ASSUME NEW i \in DOMAIN t, UeSessions(B)!Of(t[i], k, p) PROVE \E j \in DOMAIN t : i < j /\ UeSessions(B)!Of(t[j], l, p)
    <3>1. PICK j \in DOMAIN s : i + 1 < j /\ UeSessions(B)!Of(s[j], l, p)
      BY <1>2, <1>10, <2>1 DEF UeSessions!Followed
    <3>2. i \in Nat /\ j # 1
      BY <1>2, <3>1
    <3>3. j \in Nat /\ j - 1 \in DOMAIN t /\ t[j - 1] = s[j]
      BY <1>3, <3>2
    <3>4. i < j - 1
      BY <3>1, <3>2, <3>3
    <3>q. QED
      BY <3>1, <3>3, <3>4
  <2>2. ASSUME UeSessions(B)!Of(h, k, p) PROVE UeSessions(B)!Has(t, l, p)
    <3>1. PICK j \in DOMAIN s : 1 < j /\ UeSessions(B)!Of(s[j], l, p)
      BY <1>1, <1>10, <2>2 DEF UeSessions!Followed
    <3>q. QED
      BY <1>3, <3>1 DEF UeSessions!Has
  <2>q. QED
    BY <2>1, <2>2 DEF UeSessions!Followed
<1>11. ASSUME NEW ses, UeSessions(B)!Tells(s, p, ses)
       PROVE  /\ UeSessions(B)!Tells(t, p, ses)
              /\ UeSessions(B)!Reports(h, p) => p \in DOMAIN ses /\ UeSessions(B)!TunnelIn(h, p) = ses[p]
  BY <1>1, <1>2, <1>11 DEF UeSessions!Tells
<1>q. QED
  BY <1>4, <1>5, <1>6, <1>7, <1>8, <1>9, <1>10, <1>11 DEF t, h

\* What a queue holds once a message is put behind the others.
LEMMA Appends ==
    ASSUME NEW CONSTANT B, NEW S, NEW s \in Seq(S), NEW m \in S, NEW p
    PROVE  /\ \A k : UeSessions(B)!Has(Append(s, m), k, p) <=> UeSessions(B)!Has(s, k, p) \/ UeSessions(B)!Of(m, k, p)
           /\ \A k : UeSessions(B)!Carries(Append(s, m), k) <=> UeSessions(B)!Carries(s, k) \/ m.k = k
           /\ UeSessions(B)!Reported(Append(s, m), p) <=> UeSessions(B)!Reported(s, p) \/ UeSessions(B)!Reports(m, p)
           /\ UeSessions(B)!Refused(Append(s, m), p) <=> UeSessions(B)!Refused(s, p) \/ (m.k = "contextResponse" /\ p \in m.refused)
           /\ UeSessions(B)!AsksLast(s, p) /\ (UeSessions(B)!Has(s, "establish", p) => ~UeSessions(B)!Speaks(m, p)) => UeSessions(B)!AsksLast(Append(s, m), p)
           /\ UeSessions(B)!AnsweredOnce(s, p) /\ (UeSessions(B)!Answers(m, p) => ~UeSessions(B)!Has(s, "setup", p) /\ ~UeSessions(B)!Has(s, "reject", p))
                => UeSessions(B)!AnsweredOnce(Append(s, m), p)
           /\ \A k, l : UeSessions(B)!Followed(s, k, l, p) /\ ~UeSessions(B)!Of(m, k, p) => UeSessions(B)!Followed(Append(s, m), k, l, p)
           /\ \A k, l : k # l /\ UeSessions(B)!Of(m, l, p) => UeSessions(B)!Followed(Append(s, m), k, l, p)
           /\ \A ses : UeSessions(B)!Tells(s, p, ses) /\ (UeSessions(B)!Reports(m, p) => p \in DOMAIN ses /\ UeSessions(B)!TunnelIn(m, p) = ses[p])
                => UeSessions(B)!Tells(Append(s, m), p, ses)
<1> DEFINE t == Append(s, m)
           n == Len(s) + 1
<1>1. n \in Nat \ {0} /\ n \in DOMAIN t /\ t[n] = m
  BY SeqAppend
<1>2. \A i \in DOMAIN s : i \in Nat /\ i \in DOMAIN t /\ t[i] = s[i] /\ i < n
  BY SeqAppend
<1>3. \A i \in DOMAIN t : i \in Nat /\ (i = n \/ i \in DOMAIN s)
  BY SeqAppend
<1> HIDE DEF t, n
<1>4. \A k : UeSessions(B)!Has(t, k, p) <=> UeSessions(B)!Has(s, k, p) \/ UeSessions(B)!Of(m, k, p)
  BY <1>1, <1>2, <1>3 DEF UeSessions!Has
<1>5. \A k : UeSessions(B)!Carries(t, k) <=> UeSessions(B)!Carries(s, k) \/ m.k = k
  BY <1>1, <1>2, <1>3 DEF UeSessions!Carries
<1>6. UeSessions(B)!Reported(t, p) <=> UeSessions(B)!Reported(s, p) \/ UeSessions(B)!Reports(m, p)
  BY <1>1, <1>2, <1>3 DEF UeSessions!Reported
<1>7. UeSessions(B)!Refused(t, p) <=> UeSessions(B)!Refused(s, p) \/ (m.k = "contextResponse" /\ p \in m.refused)
  BY <1>1, <1>2, <1>3 DEF UeSessions!Refused
<1>8. ASSUME UeSessions(B)!AsksLast(s, p), UeSessions(B)!Has(s, "establish", p) => ~UeSessions(B)!Speaks(m, p) PROVE UeSessions(B)!AsksLast(t, p)
  <2> SUFFICES ASSUME NEW i \in DOMAIN t, NEW j \in DOMAIN t, i < j, UeSessions(B)!Of(t[i], "establish", p) PROVE ~UeSessions(B)!Speaks(t[j], p)
    BY DEF UeSessions!AsksLast
  <2>1. i \in DOMAIN s
    BY <1>1, <1>2, <1>3
  <2>2. CASE j \in DOMAIN s
    BY <1>2, <1>8, <2>1, <2>2 DEF UeSessions!AsksLast
  <2>3. CASE j = n
    BY <1>1, <1>2, <1>8, <2>1, <2>3 DEF UeSessions!Has
  <2>q. QED
    BY <1>3, <2>2, <2>3
<1>9. ASSUME UeSessions(B)!AnsweredOnce(s, p), UeSessions(B)!Answers(m, p) => ~UeSessions(B)!Has(s, "setup", p) /\ ~UeSessions(B)!Has(s, "reject", p)
      PROVE  UeSessions(B)!AnsweredOnce(t, p)
  <2> SUFFICES ASSUME NEW i \in DOMAIN t, NEW j \in DOMAIN t, UeSessions(B)!Answers(t[i], p), UeSessions(B)!Answers(t[j], p) PROVE i = j
    BY DEF UeSessions!AnsweredOnce
  <2>1. ASSUME UeSessions(B)!Answers(m, p), NEW x \in DOMAIN s PROVE ~UeSessions(B)!Answers(s[x], p)
    BY <1>9, <2>1 DEF UeSessions!Has, UeSessions!Answers
  <2>2. CASE i = n
    BY <1>1, <1>2, <1>3, <2>1, <2>2
  <2>3. CASE j = n
    BY <1>1, <1>2, <1>3, <2>1, <2>3
  <2>4. CASE i \in DOMAIN s /\ j \in DOMAIN s
    BY <1>2, <1>9, <2>4 DEF UeSessions!AnsweredOnce
  <2>q. QED
    BY <1>3, <2>2, <2>3, <2>4
<1>10. ASSUME NEW k, NEW l, UeSessions(B)!Followed(s, k, l, p), ~UeSessions(B)!Of(m, k, p) PROVE UeSessions(B)!Followed(t, k, l, p)
  <2> SUFFICES ASSUME NEW i \in DOMAIN t, UeSessions(B)!Of(t[i], k, p) PROVE \E j \in DOMAIN t : i < j /\ UeSessions(B)!Of(t[j], l, p)
    BY DEF UeSessions!Followed
  <2>1. i \in DOMAIN s /\ UeSessions(B)!Of(s[i], k, p)
    BY <1>1, <1>2, <1>3, <1>10
  <2>2. PICK j \in DOMAIN s : i < j /\ UeSessions(B)!Of(s[j], l, p)
    BY <1>10, <2>1 DEF UeSessions!Followed
  <2>q. QED
    BY <1>2, <2>2
<1>11. ASSUME NEW k, NEW l, k # l, UeSessions(B)!Of(m, l, p) PROVE UeSessions(B)!Followed(t, k, l, p)
  <2> SUFFICES ASSUME NEW i \in DOMAIN t, UeSessions(B)!Of(t[i], k, p) PROVE \E j \in DOMAIN t : i < j /\ UeSessions(B)!Of(t[j], l, p)
    BY DEF UeSessions!Followed
  <2>1. i # n
    BY <1>1, <1>11 DEF UeSessions!Of
  <2>q. QED
    BY <1>1, <1>2, <1>3, <1>11, <2>1
<1>12. ASSUME NEW ses, UeSessions(B)!Tells(s, p, ses), UeSessions(B)!Reports(m, p) => p \in DOMAIN ses /\ UeSessions(B)!TunnelIn(m, p) = ses[p]
       PROVE  UeSessions(B)!Tells(t, p, ses)
  BY <1>1, <1>2, <1>3, <1>12 DEF UeSessions!Tells
<1>q. QED
  BY <1>4, <1>5, <1>6, <1>7, <1>8, <1>9, <1>10, <1>11, <1>12 DEF t

\* Nothing is on its way in an empty queue.
LEMMA Empties ==
    ASSUME NEW CONSTANT B, NEW p
    PROVE  /\ \A k : ~UeSessions(B)!Has(<<>>, k, p) /\ ~UeSessions(B)!Carries(<<>>, k)
           /\ ~UeSessions(B)!Reported(<<>>, p) /\ ~UeSessions(B)!Refused(<<>>, p) /\ UeSessions(B)!AsksLast(<<>>, p) /\ UeSessions(B)!AnsweredOnce(<<>>, p)
           /\ \A k, l : UeSessions(B)!Followed(<<>>, k, l, p)
           /\ \A ses : UeSessions(B)!Tells(<<>>, p, ses)
BY DEF UeSessions!Has, UeSessions!Carries, UeSessions!Reported, UeSessions!Refused, UeSessions!AsksLast, UeSessions!AnsweredOnce, UeSessions!Followed, UeSessions!Tells

\* The first message down, or up, is taken.
LEMMA DownTaken ==
    ASSUME NEW CONSTANT B, UeSessions(B)!SessionTypes, v6 # <<>>, v6' = Tail(v6), NEW m, m = Head(v6), NEW p, UeSessions(B)!AnsweredOnce(v6, p)
    PROVE  /\ (UeSessions(B)!Has(v6, "setup", p) <=> UeSessions(B)!Of(m, "setup", p) \/ UeSessions(B)!Has(v6', "setup", p))
           /\ (UeSessions(B)!Has(v6, "reject", p) <=> UeSessions(B)!Of(m, "reject", p) \/ UeSessions(B)!Has(v6', "reject", p))
           /\ (UeSessions(B)!Has(v6, "release", p) <=> UeSessions(B)!Of(m, "release", p) \/ UeSessions(B)!Has(v6', "release", p))
           /\ UeSessions(B)!AnsweredOnce(v6', p)
           /\ UeSessions(B)!Answers(m, p) => ~UeSessions(B)!Has(v6', "setup", p) /\ ~UeSessions(B)!Has(v6', "reject", p)
           /\ UeSessions(B)!Followed(v6, "setup", "release", p) =>
                UeSessions(B)!Followed(v6', "setup", "release", p) /\ (UeSessions(B)!Of(m, "setup", p) => UeSessions(B)!Has(v6', "release", p))
           /\ UeSessions(B)!Followed(v6, "release", "setup", p) =>
                UeSessions(B)!Followed(v6', "release", "setup", p) /\ (UeSessions(B)!Of(m, "release", p) => UeSessions(B)!Has(v6', "setup", p))
<1>1. v6 \in Seq(UeSessions(B)!Downlink)
  BY DEF UeSessions!SessionTypes, UeSessions!LinkTypes
<1>2. /\ \A k : UeSessions(B)!Has(v6, k, p) <=> UeSessions(B)!Of(Head(v6), k, p) \/ UeSessions(B)!Has(Tail(v6), k, p)
      /\ UeSessions(B)!AnsweredOnce(v6, p) =>
           /\ UeSessions(B)!AnsweredOnce(Tail(v6), p)
           /\ UeSessions(B)!Answers(Head(v6), p) => ~UeSessions(B)!Has(Tail(v6), "setup", p) /\ ~UeSessions(B)!Has(Tail(v6), "reject", p)
      /\ \A k, l : UeSessions(B)!Followed(v6, k, l, p) =>
           UeSessions(B)!Followed(Tail(v6), k, l, p) /\ (UeSessions(B)!Of(Head(v6), k, p) => UeSessions(B)!Has(Tail(v6), l, p))
  BY <1>1, Pops
<1>q. QED
  BY <1>2

LEMMA UpTaken ==
    ASSUME NEW CONSTANT B, UeSessions(B)!SessionTypes, v5 # <<>>, v5' = Tail(v5), NEW m, m = Head(v5), NEW p, UeSessions(B)!AsksLast(v5, p)
    PROVE  /\ (UeSessions(B)!Has(v5, "establish", p) <=> UeSessions(B)!Of(m, "establish", p) \/ UeSessions(B)!Has(v5', "establish", p))
           /\ (UeSessions(B)!Has(v5, "complete", p) <=> UeSessions(B)!Of(m, "complete", p) \/ UeSessions(B)!Has(v5', "complete", p))
           /\ (UeSessions(B)!Reported(v5, p) <=> UeSessions(B)!Reports(m, p) \/ UeSessions(B)!Reported(v5', p))
           /\ (UeSessions(B)!Refused(v5, p) <=> (m.k = "contextResponse" /\ p \in m.refused) \/ UeSessions(B)!Refused(v5', p))
           /\ UeSessions(B)!Carries(v5', "contextResponse") => UeSessions(B)!Carries(v5, "contextResponse")
           /\ UeSessions(B)!AsksLast(v5', p)
           /\ UeSessions(B)!Of(m, "establish", p) =>
                ~UeSessions(B)!Has(v5', "establish", p) /\ ~UeSessions(B)!Has(v5', "complete", p) /\ ~UeSessions(B)!Reported(v5', p)
           /\ UeSessions(B)!Tells(v5, p, v3.ses) =>
                /\ UeSessions(B)!Tells(v5', p, v3.ses)
                /\ UeSessions(B)!Reports(m, p) => p \in DOMAIN v3.ses /\ UeSessions(B)!TunnelIn(m, p) = v3.ses[p]
<1>1. v5 \in Seq(UeSessions(B)!Uplink)
  BY DEF UeSessions!SessionTypes, UeSessions!LinkTypes
<1>2. /\ \A k : UeSessions(B)!Has(v5, k, p) <=> UeSessions(B)!Of(Head(v5), k, p) \/ UeSessions(B)!Has(Tail(v5), k, p)
      /\ \A k : UeSessions(B)!Carries(v5, k) <=> Head(v5).k = k \/ UeSessions(B)!Carries(Tail(v5), k)
      /\ (UeSessions(B)!Reported(v5, p) <=> UeSessions(B)!Reports(Head(v5), p) \/ UeSessions(B)!Reported(Tail(v5), p))
      /\ (UeSessions(B)!Refused(v5, p) <=> (Head(v5).k = "contextResponse" /\ p \in Head(v5).refused) \/ UeSessions(B)!Refused(Tail(v5), p))
      /\ UeSessions(B)!AsksLast(v5, p) =>
           /\ UeSessions(B)!AsksLast(Tail(v5), p)
           /\ UeSessions(B)!Of(Head(v5), "establish", p) =>
               ~UeSessions(B)!Has(Tail(v5), "establish", p) /\ ~UeSessions(B)!Has(Tail(v5), "complete", p) /\ ~UeSessions(B)!Reported(Tail(v5), p)
      /\ \A ses : UeSessions(B)!Tells(v5, p, ses) =>
           /\ UeSessions(B)!Tells(Tail(v5), p, ses)
           /\ UeSessions(B)!Reports(Head(v5), p) => p \in DOMAIN ses /\ UeSessions(B)!TunnelIn(Head(v5), p) = ses[p]
  BY <1>1, Pops
<1>q. QED
  BY <1>2

\* The reset stays on its way until it is taken.
LEMMA ResetStays ==
    ASSUME NEW CONSTANT B, UeSessions(B)!SessionTypes, v5 # <<>>, v5' = Tail(v5), UeSessions(B)!Carries(v5, "reset"), Head(v5).k # "reset"
    PROVE  UeSessions(B)!Carries(v5', "reset")
<1>1. v5 \in Seq(UeSessions(B)!Uplink)
  BY DEF UeSessions!SessionTypes, UeSessions!LinkTypes
<1>2. \A k : UeSessions(B)!Carries(v5, k) <=> Head(v5).k = k \/ UeSessions(B)!Carries(Tail(v5), k)
  BY <1>1, Pops
<1>q. QED
  BY <1>2

\* A step that leaves everything about p leaves its path.
LEMMA PathStays ==
    ASSUME NEW CONSTANT B, NEW p, UeSessions(B)!ThePath(p), UeSessions(B)!UpKept(p), UeSessions(B)!DownKept(p), UeSessions(B)!RadioKept(p), UeSessions(B)!EntryKept(p), UeSessions(B)!TunnelKept(p)
    PROVE  UeSessions(B)!ThePath(p)'
<1>1. /\ UeSessions(B)!Asking(p)' <=> UeSessions(B)!Asking(p)
      /\ UeSessions(B)!Answering(p)' <=> UeSessions(B)!Answering(p)
      /\ UeSessions(B)!Has(v5, "complete", p)' <=> UeSessions(B)!Has(v5, "complete", p)
      /\ UeSessions(B)!Has(v6, "reject", p)' <=> UeSessions(B)!Has(v6, "reject", p)
      /\ UeSessions(B)!Reported(v5, p)' <=> UeSessions(B)!Reported(v5, p)
  BY DEF UeSessions!UpKept, UeSessions!DownKept, UeSessions!Asking, UeSessions!Answering
<1>2. /\ UeSessions(B)!Held(p)' <=> UeSessions(B)!Held(p)
      /\ UeSessions(B)!Due(p)' <=> UeSessions(B)!Due(p)
      /\ UeSessions(B)!Active(p)' <=> UeSessions(B)!Active(p)
  BY DEF UeSessions!EntryKept, UeSessions!Held, UeSessions!Due, UeSessions!Active
<1>3. UeSessions(B)!Cleared(p) => UeSessions(B)!Cleared(p)'
  BY DEF UeSessions!Cleared, UeSessions!DownKept, UeSessions!RadioKept
<1>4. UeSessions(B)!Tunnel(p)' = UeSessions(B)!Tunnel(p)
  BY DEF UeSessions!Tunnel, UeSessions!RadioKept
<1>5. ASSUME UeSessions(B)!Tells(v5, p, v3.ses) PROVE UeSessions(B)!Tells(v5', p, v3.ses')
  <2>1. UeSessions(B)!Tells(v5', p, v3.ses)
    BY <1>5 DEF UeSessions!UpKept
  <2>q. QED
    BY <2>1 DEF UeSessions!Tells, UeSessions!RadioKept
<1>6. UeSessions(B)!Followed(v6, "release", "setup", p) => UeSessions(B)!Followed(v6', "release", "setup", p)
  BY DEF UeSessions!DownKept
<1>7. /\ UeSessions(B)!Asking(p)' \/ UeSessions(B)!Answering(p)' => p \in v4'.asked /\ p \notin v4'.ses /\ p \notin DOMAIN v3'.ses
      /\ UeSessions(B)!AsksLast(v5', p) /\ UeSessions(B)!AnsweredOnce(v6', p)
      /\ UeSessions(B)!Answering(p)' => /\ ~UeSessions(B)!Asking(p)' /\ ~UeSessions(B)!Has(v5', "complete", p) /\ ~UeSessions(B)!Reported(v5', p)
                         /\ ~UeSessions(B)!Carries(v5', "contextResponse")
      /\ p \in DOMAIN v3'.ses => p \in v4'.ses \cup v4'.asked
  BY <1>1 DEF UeSessions!ThePath, UeSessions!UpKept, UeSessions!DownKept, UeSessions!RadioKept
<1>8. /\ UeSessions(B)!Held(p)' => UeSessions(B)!Has(v5', "complete", p) \/ (p \in v4'.ses \cup v4'.asked /\ ~UeSessions(B)!Asking(p)')
      /\ UeSessions(B)!Has(v6', "reject", p) => ~UeSessions(B)!Held(p)'
      /\ UeSessions(B)!Has(v5', "complete", p) /\ p \in DOMAIN v1'.refs => p \in v1'.releasing
      /\ p \notin DOMAIN v1'.refs \/ UeSessions(B)!Due(p)' \/ UeSessions(B)!Has(v5', "complete", p) => UeSessions(B)!Cleared(p)'
      /\ UeSessions(B)!Refused(v5', p) => p \notin DOMAIN v3'.ses
  BY <1>1, <1>2, <1>3 DEF UeSessions!ThePath, UeSessions!UpKept, UeSessions!RadioKept, UeSessions!EntryKept
<1>9. /\ UeSessions(B)!Active(p)' => UeSessions(B)!Followed(v6', "release", "setup", p) /\ UeSessions(B)!Tells(v5', p, v3'.ses)
      /\ UeSessions(B)!Active(p)' /\ ~UeSessions(B)!Reported(v5', p) /\ v1'.refs[p] \in DOMAIN v2' \ v11'
        => v2'[v1'.refs[p]].dl = UeSessions(B)!Tunnel(p)'
  BY <1>1, <1>2, <1>4, <1>5, <1>6 DEF UeSessions!ThePath, UeSessions!EntryKept, UeSessions!TunnelKept, UeSessions!Active
<1>q. QED
  BY <1>7, <1>8, <1>9 DEF UeSessions!ThePath

LEMMA UpStays ==
    ASSUME NEW CONSTANT B, NEW S, v5 \in Seq(S), NEW p, UeSessions(B)!AsksLast(v5, p),
           \/ v5' = v5
           \/ v5 # <<>> /\ v5' = Tail(v5) /\ ~UeSessions(B)!Speaks(Head(v5), p)
           \/ \E m \in S : v5' = Append(v5, m) /\ ~UeSessions(B)!Speaks(m, p) /\ m.k # "contextResponse"
           \/ \E m, n \in S : /\ v5' = Append(Append(v5, m), n) /\ ~UeSessions(B)!Speaks(m, p) /\ ~UeSessions(B)!Speaks(n, p)
                             /\ m.k # "contextResponse" /\ n.k # "contextResponse"
    PROVE  UeSessions(B)!UpKept(p)
<1>1. CASE v5' = v5
  BY <1>1 DEF UeSessions!UpKept
<1>2. CASE v5 # <<>> /\ v5' = Tail(v5) /\ ~UeSessions(B)!Speaks(Head(v5), p)
  <2>1. /\ \A k : UeSessions(B)!Has(v5, k, p) <=> UeSessions(B)!Of(Head(v5), k, p) \/ UeSessions(B)!Has(Tail(v5), k, p)
        /\ \A k : UeSessions(B)!Carries(v5, k) <=> Head(v5).k = k \/ UeSessions(B)!Carries(Tail(v5), k)
        /\ UeSessions(B)!Reported(v5, p) <=> UeSessions(B)!Reports(Head(v5), p) \/ UeSessions(B)!Reported(Tail(v5), p)
        /\ UeSessions(B)!Refused(Tail(v5), p) => UeSessions(B)!Refused(v5, p)
        /\ UeSessions(B)!AsksLast(Tail(v5), p) /\ \A ses : UeSessions(B)!Tells(v5, p, ses) => UeSessions(B)!Tells(Tail(v5), p, ses)
    BY <1>2, Pops
  <2>q. QED
    BY <1>2, <2>1 DEF UeSessions!UpKept, UeSessions!Speaks
<1>3. ASSUME NEW m \in S, v5' = Append(v5, m), ~UeSessions(B)!Speaks(m, p), m.k # "contextResponse" PROVE UeSessions(B)!UpKept(p)
  <2>1. /\ \A k : UeSessions(B)!Has(v5', k, p) <=> UeSessions(B)!Has(v5, k, p) \/ UeSessions(B)!Of(m, k, p)
        /\ \A k : UeSessions(B)!Carries(v5', k) <=> UeSessions(B)!Carries(v5, k) \/ m.k = k
        /\ UeSessions(B)!Reported(v5', p) <=> UeSessions(B)!Reported(v5, p) \/ UeSessions(B)!Reports(m, p)
        /\ UeSessions(B)!Refused(v5', p) => UeSessions(B)!Refused(v5, p)
        /\ UeSessions(B)!AsksLast(v5', p) /\ \A ses : UeSessions(B)!Tells(v5, p, ses) => UeSessions(B)!Tells(v5', p, ses)
    BY <1>3, Appends DEF UeSessions!Speaks
  <2>q. QED
    BY <1>3, <2>1 DEF UeSessions!UpKept, UeSessions!Speaks
<1>4. ASSUME NEW m \in S, NEW n \in S, v5' = Append(Append(v5, m), n), ~UeSessions(B)!Speaks(m, p), ~UeSessions(B)!Speaks(n, p),
             m.k # "contextResponse", n.k # "contextResponse"
      PROVE  UeSessions(B)!UpKept(p)
  <2> DEFINE w == Append(v5, m)
  <2>1. /\ \A k : UeSessions(B)!Has(w, k, p) <=> UeSessions(B)!Has(v5, k, p) \/ UeSessions(B)!Of(m, k, p)
        /\ \A k : UeSessions(B)!Carries(w, k) <=> UeSessions(B)!Carries(v5, k) \/ m.k = k
        /\ UeSessions(B)!Reported(w, p) <=> UeSessions(B)!Reported(v5, p) \/ UeSessions(B)!Reports(m, p)
        /\ UeSessions(B)!Refused(w, p) => UeSessions(B)!Refused(v5, p)
        /\ UeSessions(B)!AsksLast(w, p) /\ \A ses : UeSessions(B)!Tells(v5, p, ses) => UeSessions(B)!Tells(w, p, ses)
    BY <1>4, Appends DEF UeSessions!Speaks
  <2>2. w \in Seq(S)
    BY SeqAppend
  <2> HIDE DEF w
  <2>3. /\ \A k : UeSessions(B)!Has(Append(w, n), k, p) <=> UeSessions(B)!Has(w, k, p) \/ UeSessions(B)!Of(n, k, p)
        /\ \A k : UeSessions(B)!Carries(Append(w, n), k) <=> UeSessions(B)!Carries(w, k) \/ n.k = k
        /\ UeSessions(B)!Reported(Append(w, n), p) <=> UeSessions(B)!Reported(w, p) \/ UeSessions(B)!Reports(n, p)
        /\ UeSessions(B)!Refused(Append(w, n), p) => UeSessions(B)!Refused(w, p)
        /\ UeSessions(B)!AsksLast(Append(w, n), p) /\ \A ses : UeSessions(B)!Tells(w, p, ses) => UeSessions(B)!Tells(Append(w, n), p, ses)
    BY <1>4, <2>1, <2>2, Appends DEF UeSessions!Speaks
  <2>4. v5' = Append(w, n)
    BY <1>4 DEF w
  <2>q. QED
    BY <1>4, <2>1, <2>3, <2>4 DEF UeSessions!UpKept, UeSessions!Speaks
<1>q. QED
  BY <1>1, <1>2, <1>3, <1>4

LEMMA DownStays ==
    ASSUME NEW CONSTANT B, NEW S, v6 \in Seq(S), NEW p, UeSessions(B)!AnsweredOnce(v6, p),
           \/ v6' = v6
           \/ v6 # <<>> /\ v6' = Tail(v6) /\ ~UeSessions(B)!Answers(Head(v6), p) /\ ~UeSessions(B)!Of(Head(v6), "release", p)
           \/ \E m \in S : v6' = Append(v6, m) /\ ~UeSessions(B)!Answers(m, p) /\ ~UeSessions(B)!Of(m, "release", p)
    PROVE  UeSessions(B)!DownKept(p)
<1>1. CASE v6' = v6
  BY <1>1 DEF UeSessions!DownKept
<1>2. CASE v6 # <<>> /\ v6' = Tail(v6) /\ ~UeSessions(B)!Answers(Head(v6), p) /\ ~UeSessions(B)!Of(Head(v6), "release", p)
  <2>1. /\ \A k : UeSessions(B)!Has(v6, k, p) <=> UeSessions(B)!Of(Head(v6), k, p) \/ UeSessions(B)!Has(Tail(v6), k, p)
        /\ UeSessions(B)!AnsweredOnce(Tail(v6), p)
        /\ \A k, l : UeSessions(B)!Followed(v6, k, l, p) => UeSessions(B)!Followed(Tail(v6), k, l, p)
    BY <1>2, Pops
  <2>q. QED
    BY <1>2, <2>1 DEF UeSessions!DownKept, UeSessions!Answers
<1>3. ASSUME NEW m \in S, v6' = Append(v6, m), ~UeSessions(B)!Answers(m, p), ~UeSessions(B)!Of(m, "release", p) PROVE UeSessions(B)!DownKept(p)
  <2>1. /\ \A k : UeSessions(B)!Has(v6', k, p) <=> UeSessions(B)!Has(v6, k, p) \/ UeSessions(B)!Of(m, k, p)
        /\ UeSessions(B)!AnsweredOnce(v6', p)
        /\ \A k, l : UeSessions(B)!Followed(v6, k, l, p) /\ ~UeSessions(B)!Of(m, k, p) => UeSessions(B)!Followed(v6', k, l, p)
    BY <1>3, Appends
  <2>q. QED
    BY <1>3, <2>1 DEF UeSessions!DownKept, UeSessions!Answers
<1>q. QED
  BY <1>1, <1>2, <1>3

\* What keeps the messages of the link in order.
LEMMA LinkStays ==
    ASSUME NEW CONSTANT B, NEW S, v5 \in Seq(S), NEW T, v6 \in Seq(T), UeSessions(B)!Linked, v1'.cm = v1.cm, v1'.id = v1.id, v3'.id = v3.id,
           \/ v5' = v5
           \/ v5 # <<>> /\ v5' = Tail(v5)
           \/ \E m \in S : v5' = Append(v5, m) /\ m.id = v1.id /\ m.k # "contextResponse"
           \/ \E m, n \in S : /\ v5' = Append(Append(v5, m), n) /\ m.id = v1.id /\ n.id = v1.id
                             /\ m.k # "contextResponse" /\ n.k # "contextResponse",
           \/ v6' = v6
           \/ v6 # <<>> /\ v6' = Tail(v6)
           \/ \E m \in T : v6' = Append(v6, m) /\ m.id = v1.id /\ m.k \in {"setup", "reject", "release", "modify"}
    PROVE  UeSessions(B)!Linked'
<1>1. UeSessions(B)!UpOfLink'
  <2>1. CASE v5' = v5
    BY <2>1 DEF UeSessions!Linked, UeSessions!UpOfLink
  <2>2. CASE v5 # <<>> /\ v5' = Tail(v5)
    <3> SUFFICES ASSUME NEW i \in DOMAIN v5' PROVE v5'[i].id = v1.id /\ (v5'[i].k = "contextResponse" => i = 1)
      BY DEF UeSessions!UpOfLink
    <3>1. i \in Nat \ {0} /\ i + 1 \in DOMAIN v5 /\ v5'[i] = v5[i + 1]
      BY <2>2, SeqTail
    <3>q. QED
      BY <3>1 DEF UeSessions!Linked, UeSessions!UpOfLink
  <2>3. ASSUME NEW m \in S, v5' = Append(v5, m), m.id = v1.id, m.k # "contextResponse" PROVE UeSessions(B)!UpOfLink'
    <3> SUFFICES ASSUME NEW i \in DOMAIN v5' PROVE v5'[i].id = v1.id /\ (v5'[i].k = "contextResponse" => i = 1)
      BY DEF UeSessions!UpOfLink
    <3>1. v5'[i] = m \/ (i \in DOMAIN v5 /\ v5'[i] = v5[i])
      BY <2>3, SeqAppend
    <3>q. QED
      BY <2>3, <3>1 DEF UeSessions!Linked, UeSessions!UpOfLink
  <2>4. ASSUME NEW m \in S, NEW n \in S, v5' = Append(Append(v5, m), n), m.id = v1.id, n.id = v1.id,
               m.k # "contextResponse", n.k # "contextResponse"
        PROVE  UeSessions(B)!UpOfLink'
    <3> SUFFICES ASSUME NEW i \in DOMAIN v5' PROVE v5'[i].id = v1.id /\ (v5'[i].k = "contextResponse" => i = 1)
      BY DEF UeSessions!UpOfLink
    <3>1. Append(v5, m) \in Seq(S)
      BY SeqAppend
    <3>2. v5'[i] = n \/ (i \in DOMAIN Append(v5, m) /\ v5'[i] = Append(v5, m)[i])
      BY <2>4, <3>1, SeqAppend
    <3>3. v5'[i] = n \/ v5'[i] = m \/ (i \in DOMAIN v5 /\ v5'[i] = v5[i])
      BY <3>2, SeqAppend
    <3>q. QED
      BY <2>4, <3>3 DEF UeSessions!Linked, UeSessions!UpOfLink
  <2>q. QED
    BY <2>1, <2>2, <2>3, <2>4
<1>2. UeSessions(B)!DownOfLink'
  <2>1. CASE v6' = v6
    BY <2>1 DEF UeSessions!Linked, UeSessions!DownOfLink
  <2>2. CASE v6 # <<>> /\ v6' = Tail(v6)
    <3> SUFFICES ASSUME NEW i \in DOMAIN v6' PROVE v6'[i].id = v1.id /\ v6'[i].k \in {"setup", "reject", "release", "modify"}
      BY DEF UeSessions!DownOfLink
    <3>1. i + 1 \in DOMAIN v6 /\ v6'[i] = v6[i + 1]
      BY <2>2, SeqTail
    <3>q. QED
      BY <3>1 DEF UeSessions!Linked, UeSessions!DownOfLink
  <2>3. ASSUME NEW m \in T, v6' = Append(v6, m), m.id = v1.id, m.k \in {"setup", "reject", "release", "modify"}
        PROVE  UeSessions(B)!DownOfLink'
    <3> SUFFICES ASSUME NEW i \in DOMAIN v6' PROVE v6'[i].id = v1.id /\ v6'[i].k \in {"setup", "reject", "release", "modify"}
      BY DEF UeSessions!DownOfLink
    <3>1. v6'[i] = m \/ (i \in DOMAIN v6 /\ v6'[i] = v6[i])
      BY <2>3, SeqAppend
    <3>q. QED
      BY <2>3, <3>1 DEF UeSessions!Linked, UeSessions!DownOfLink
  <2>q. QED
    BY <2>1, <2>2, <2>3
<1>q. QED
  BY <1>1, <1>2 DEF UeSessions!Linked

\* A return stays the last message, and the UE as it was.
LEMMA ReturnStays ==
    ASSUME NEW CONSTANT B, NEW S, v5 \in Seq(S), UeSessions(B)!ReturnsLast, v1'.id = v1.id, v12'.connections = v12.connections,
           UeSessions(B)!Carries(v5, "return") => v3'.id = v3.id /\ v4'.cm = v4.cm /\ v4'.ses = v4.ses,
           \/ v5' = v5
           \/ v5 # <<>> /\ v5' = Tail(v5)
           \/ \E m \in S : v5' = Append(v5, m) /\ m.k # "return" /\ ~UeSessions(B)!Carries(v5, "return")
           \/ \E m, n \in S : /\ v5' = Append(Append(v5, m), n) /\ m.k # "return" /\ n.k # "return"
                             /\ ~UeSessions(B)!Carries(v5, "return")
    PROVE  UeSessions(B)!ReturnsLast'
<1> SUFFICES ASSUME NEW i \in DOMAIN v5', v5'[i].k = "return"
             PROVE  /\ i = Len(v5') /\ v1.id < v12.connections /\ v3'.id = 0
                    /\ v4'.cm = "returning" /\ v5'[i].status = v4'.ses
  BY DEF UeSessions!ReturnsLast
<1>1. CASE v5' = v5
  BY <1>1 DEF UeSessions!ReturnsLast, UeSessions!Carries
<1>2. CASE v5 # <<>> /\ v5' = Tail(v5)
  <2>1. /\ i + 1 \in DOMAIN v5 /\ v5'[i] = v5[i + 1] /\ i \in Nat
        /\ Len(v5) \in Nat /\ Len(v5') = Len(v5) - 1
    BY <1>2, SeqTail
  <2>2. /\ i + 1 = Len(v5) /\ v1.id < v12.connections /\ v3.id = 0
        /\ v4.cm = "returning" /\ v5[i + 1].status = v4.ses /\ UeSessions(B)!Carries(v5, "return")
    BY <2>1 DEF UeSessions!ReturnsLast, UeSessions!Carries
  <2>q. QED
    BY <2>1, <2>2
<1>3. CASE \E m \in S : v5' = Append(v5, m) /\ m.k # "return" /\ ~UeSessions(B)!Carries(v5, "return")
  <2>1. i \in DOMAIN v5 /\ v5'[i] = v5[i]
    BY <1>3, SeqAppend
  <2>q. QED
    BY <1>3, <2>1 DEF UeSessions!Carries
<1>4. ASSUME NEW m \in S, NEW n \in S, v5' = Append(Append(v5, m), n), m.k # "return", n.k # "return",
             ~UeSessions(B)!Carries(v5, "return")
      PROVE  FALSE
  <2>1. Append(v5, m) \in Seq(S)
    BY SeqAppend
  <2>2. i \in DOMAIN Append(v5, m) /\ v5'[i] = Append(v5, m)[i]
    BY <1>4, <2>1, SeqAppend
  <2>3. i \in DOMAIN v5 /\ v5'[i] = v5[i]
    BY <1>4, <2>2, SeqAppend
  <2>q. QED
    BY <1>4, <2>3 DEF UeSessions!Carries
<1>q. QED
  BY <1>1, <1>2, <1>3, <1>4

LEMMA Unmoved ==
    ASSUME NEW CONSTANT B, NEW p
    PROVE  /\ UNCHANGED <<v3, v4>> => UeSessions(B)!RadioKept(p)
           /\ UNCHANGED <<v1, v7, v8>> => UeSessions(B)!EntryKept(p)
           /\ UNCHANGED <<v2, v11>> => UeSessions(B)!TunnelKept(p)
BY DEF UeSessions!RadioKept, UeSessions!EntryKept, UeSessions!TunnelKept, UeSessions!Guarded

\* The guards that concern p, and those of older connections.
LEMMA GuardsStay ==
    ASSUME NEW CONSTANT B, NEW S, v7 \in Seq(S), v1'.id = v1.id,
           \/ v8' = v8 /\ v7 # <<>> /\ v7' = Tail(v7)
           \/ v8' = v8 /\ \E m \in S : v7' = Append(v7, m) /\ m.k # "guard"
           \/ \E g \in v8 : \E m \in S :
                /\ v8' = v8 \ {g} /\ v7' = Append(v7, m)
                /\ m.k = "guard" /\ m.id = g.id /\ m.psi = g.psi
    PROVE  /\ UeSessions(B)!Guarding => UeSessions(B)!Guarding'
           /\ \A p : UeSessions(B)!Guarded(p)' => UeSessions(B)!Guarded(p)
           /\ \A p : ~(v7 # <<>> /\ v7' = Tail(v7) /\ UeSessions(B)!Of(Head(v7), "guard", p) /\ Head(v7).id = v1.id)
                => (UeSessions(B)!Guarded(p)' <=> UeSessions(B)!Guarded(p))
<1>1. CASE v8' = v8 /\ v7 # <<>> /\ v7' = Tail(v7)
  <2>1. \A i \in DOMAIN v7' : i + 1 \in DOMAIN v7 /\ v7'[i] = v7[i + 1]
    BY <1>1, SeqTail
  <2>2. \A i \in DOMAIN v7 : v7[i] = Head(v7) \/ (i - 1 \in DOMAIN v7' /\ v7'[i - 1] = v7[i])
    <3> SUFFICES ASSUME NEW i \in DOMAIN v7, i # 1
                 PROVE  i - 1 \in DOMAIN v7' /\ v7'[i - 1] = v7[i]
      BY <1>1, SeqTail
    <3>1. i \in Nat \ {0} /\ i - 1 \in DOMAIN v7'
      BY <1>1, SeqTail
    <3>2. v7'[i - 1] = v7[(i - 1) + 1]
      BY <2>1, <3>1
    <3>q. QED
      BY <3>1, <3>2
  <2>3. UeSessions(B)!Guarding => UeSessions(B)!Guarding'
    BY <1>1, <2>1 DEF UeSessions!Guarding
  <2>4. \A p : UeSessions(B)!Guarded(p)' => UeSessions(B)!Guarded(p)
    BY <1>1, <2>1 DEF UeSessions!Guarded
  <2>5. ASSUME NEW p, ~(UeSessions(B)!Of(Head(v7), "guard", p) /\ Head(v7).id = v1.id), UeSessions(B)!Guarded(p) PROVE UeSessions(B)!Guarded(p)'
    BY <1>1, <2>2, <2>5 DEF UeSessions!Guarded
  <2>q. QED
    BY <1>1, <2>3, <2>4, <2>5
<1>2. ASSUME v8' = v8, NEW m \in S, v7' = Append(v7, m), m.k # "guard"
      PROVE  (UeSessions(B)!Guarding => UeSessions(B)!Guarding') /\ \A p : UeSessions(B)!Guarded(p)' <=> UeSessions(B)!Guarded(p)
  <2>1. /\ \A i \in DOMAIN v7 : i \in DOMAIN v7' /\ v7'[i] = v7[i]
        /\ \A i \in DOMAIN v7' : v7'[i] = m \/ (i \in DOMAIN v7 /\ v7'[i] = v7[i])
    BY <1>2, SeqAppend
  <2>2. UeSessions(B)!Guarding => UeSessions(B)!Guarding'
    BY <1>2, <2>1 DEF UeSessions!Guarding
  <2>3. \A p : UeSessions(B)!Guarded(p)' => UeSessions(B)!Guarded(p)
    BY <1>2, <2>1 DEF UeSessions!Guarded, UeSessions!Of
  <2>4. \A p : UeSessions(B)!Guarded(p) => UeSessions(B)!Guarded(p)'
    BY <1>2, <2>1 DEF UeSessions!Guarded
  <2>q. QED
    BY <2>2, <2>3, <2>4
<1>3. ASSUME NEW g \in v8, NEW m \in S, v8' = v8 \ {g}, v7' = Append(v7, m),
             m.k = "guard", m.id = g.id, m.psi = g.psi
      PROVE  (UeSessions(B)!Guarding => UeSessions(B)!Guarding') /\ \A p : UeSessions(B)!Guarded(p)' <=> UeSessions(B)!Guarded(p)
  <2>1. /\ \A i \in DOMAIN v7 : i \in DOMAIN v7' /\ v7'[i] = v7[i]
        /\ \A i \in DOMAIN v7' : v7'[i] = m \/ (i \in DOMAIN v7 /\ v7'[i] = v7[i])
        /\ Len(v7) + 1 \in DOMAIN v7' /\ v7'[Len(v7) + 1] = m
    BY <1>3, SeqAppend
  <2>2. UeSessions(B)!Guarding => UeSessions(B)!Guarding'
    BY <1>3, <2>1 DEF UeSessions!Guarding
  <2>3. \A p : UeSessions(B)!Guarded(p)' => UeSessions(B)!Guarded(p)
    BY <1>3, <2>1 DEF UeSessions!Guarded, UeSessions!Of
  <2>4. ASSUME NEW p, UeSessions(B)!Guarded(p) PROVE UeSessions(B)!Guarded(p)'
    <3>1. CASE g.id = v1.id /\ g.psi = p
      BY <1>3, <2>1, <3>1 DEF UeSessions!Guarded, UeSessions!Of
    <3>2. CASE ~(g.id = v1.id /\ g.psi = p)
      BY <1>3, <2>1, <2>4, <3>2 DEF UeSessions!Guarded
    <3>q. QED
      BY <3>1, <3>2
  <2>q. QED
    BY <2>2, <2>3, <2>4
<1>q. QED
  BY <1>1, <1>2, <1>3

\* Messages by their kinds.
LEMMA SaysNothing ==
    ASSUME NEW CONSTANT B, NEW m, m.k \notin {"establish", "complete", "setupResponse", "contextResponse"}, NEW p
    PROVE  ~UeSessions(B)!Speaks(m, p)
BY DEF UeSessions!Speaks, UeSessions!Of, UeSessions!Reports

LEMMA EstablishKeeps ==
    ASSUME NEW CONSTANT B, UeSessions(B)!SessionTypes, UeSessions(B)!PathIInv, NEW p \in B.psis, UeSessions(B)!UeEstablish(p)
    PROVE  UeSessions(B)!PathIInv'
<1> USE SessionRecords
<1> DEFINE m == [k |-> "establish", id |-> v3.id, psi |-> p]
<1>1. m \in UeSessions(B)!Uplink
  BY DEF UeSessions!Uplink
<1>2. /\ v4.cm = "connected" /\ p \notin v4.ses /\ p \notin v4.asked /\ v5' = Append(v5, m)
      /\ v4' = [v4 EXCEPT !.asked = v4.asked \cup {p}] /\ UeSessions(B)!Spend("establish")
      /\ UNCHANGED <<v1, v2, v3, v6, v7, v8, v9, v10, v11>>
  BY DEF UeSessions!UeEstablish
<1>3. /\ v4'.cm = v4.cm /\ v4'.ses = v4.ses /\ v4'.asked = v4.asked \cup {p}
      /\ v12'.connections = v12.connections
  BY <1>2, Spends DEF UeSessions!SessionTypes
<1>4. UeSessions(B)!Connections'
  <2>1. v3.id # 0 /\ ~UeSessions(B)!Carries(v5, "return")
    BY <1>2 DEF UeSessions!PathIInv, UeSessions!Connections, UeSessions!ReturnsLast, UeSessions!Carries
  <2>2. UeSessions(B)!ReturnsLast'
    <3>1. UeSessions(B)!ReturnsLast /\ m.k # "return"
      BY DEF UeSessions!PathIInv, UeSessions!Connections
    <3> HIDE DEF m
    <3>q. QED
      BY <1>1, <1>2, <1>3, <2>1, <3>1, ReturnStays
  <2>q. QED
    BY <1>2, <1>3, <2>1, <2>2 DEF UeSessions!PathIInv, UeSessions!Connections, UeSessions!Guarding, UeSessions!Apart
<1>5. ASSUME UeSessions(B)!Together PROVE UeSessions(B)!Together'
  <2>0. UeSessions(B)!Linked /\ m.id = v1.id /\ m.k = "establish" /\ m.psi = p
    BY <1>5 DEF UeSessions!Together, UeSessions!Linked
  <2> HIDE DEF m
  <2>1. UeSessions(B)!Linked'
    BY <1>1, <1>2, <2>0, LinkStays
  <2>2. ASSUME NEW q \in B.psis, q # p PROVE UeSessions(B)!ThePath(q)'
    <3>1. UeSessions(B)!ThePath(q) /\ UeSessions(B)!AsksLast(v5, q) /\ UeSessions(B)!AnsweredOnce(v6, q)
      BY <1>5 DEF UeSessions!Together, UeSessions!ThePath
    <3>2. ~UeSessions(B)!Speaks(m, q)
      BY <2>0, <2>2 DEF UeSessions!Speaks, UeSessions!Of, UeSessions!Reports
    <3>3. UeSessions(B)!UpKept(q)
      BY <1>1, <1>2, <2>0, <3>1, <3>2, UpStays
    <3>4. UeSessions(B)!DownKept(q)
      BY <1>2, <3>1, DownStays
    <3>5. UeSessions(B)!RadioKept(q)
      BY <1>2, <1>3, <2>2 DEF UeSessions!RadioKept
    <3>6. UeSessions(B)!EntryKept(q) /\ UeSessions(B)!TunnelKept(q)
      BY <1>2, Unmoved
    <3>q. QED
      BY <3>1, <3>3, <3>4, <3>5, <3>6, PathStays
  <2>3. UeSessions(B)!ThePath(p)'
    <3>1. UeSessions(B)!ThePath(p)
      BY <1>5 DEF UeSessions!Together
    <3>2. ~UeSessions(B)!Asking(p) /\ ~UeSessions(B)!Answering(p) /\ p \notin DOMAIN v3.ses
      BY <1>2, <3>1 DEF UeSessions!ThePath
    <3>3. UeSessions(B)!Of(m, "establish", p) /\ ~UeSessions(B)!Of(m, "complete", p) /\ ~UeSessions(B)!Reports(m, p) /\ m.k # "contextResponse"
      BY <2>0 DEF UeSessions!Of, UeSessions!Reports
    <3>4. /\ UeSessions(B)!Asking(p)' /\ (UeSessions(B)!Has(v5', "complete", p) <=> UeSessions(B)!Has(v5, "complete", p))
          /\ (UeSessions(B)!Reported(v5', p) <=> UeSessions(B)!Reported(v5, p)) /\ (UeSessions(B)!Refused(v5', p) <=> UeSessions(B)!Refused(v5, p))
          /\ UeSessions(B)!AsksLast(v5', p) /\ (UeSessions(B)!Tells(v5, p, v3.ses) => UeSessions(B)!Tells(v5', p, v3.ses))
      BY <1>1, <1>2, <3>1, <3>2, <3>3, Appends DEF UeSessions!Asking, UeSessions!ThePath
    <3>5. /\ (UeSessions(B)!Held(p)' <=> UeSessions(B)!Held(p)) /\ (UeSessions(B)!Due(p)' <=> UeSessions(B)!Due(p)) /\ (UeSessions(B)!Active(p)' <=> UeSessions(B)!Active(p))
          /\ (UeSessions(B)!Cleared(p)' <=> UeSessions(B)!Cleared(p)) /\ UeSessions(B)!Tunnel(p)' = UeSessions(B)!Tunnel(p) /\ (UeSessions(B)!Answering(p)' <=> UeSessions(B)!Answering(p))
      BY <1>2 DEF UeSessions!Held, UeSessions!Due, UeSessions!Active, UeSessions!Cleared, UeSessions!Tunnel, UeSessions!Guarded, UeSessions!Answering
    <3>q. QED
      BY <1>2, <1>3, <3>1, <3>2, <3>4, <3>5 DEF UeSessions!ThePath
  <2>q. QED
    BY <2>1, <2>2, <2>3 DEF UeSessions!Together
<1>6. ~UeSessions(B)!Cut /\ ~UeSessions(B)!Resuming
  BY <1>2 DEF UeSessions!PathIInv, UeSessions!Connections, UeSessions!Cut, UeSessions!Resuming
<1>7. UeSessions(B)!Released => UeSessions(B)!Released'
  BY <1>2 DEF UeSessions!Released, UeSessions!Deactivated, UeSessions!Carries, UeSessions!LetsGo
<1>q. QED
  BY <1>4, <1>5, <1>6, <1>7 DEF UeSessions!PathIInv

\* A step that speaks of none of the sessions Q leaves their paths.
LEMMA OthersStay ==
    ASSUME NEW CONSTANT B, UeSessions(B)!SessionTypes, UeSessions(B)!Together, NEW Q \in SUBSET B.psis,
           \/ v5' = v5
           \/ v5 # <<>> /\ v5' = Tail(v5) /\ \A q \in Q : ~UeSessions(B)!Speaks(Head(v5), q)
           \/ \E m \in UeSessions(B)!Uplink : v5' = Append(v5, m) /\ m.k # "contextResponse" /\ \A q \in Q : ~UeSessions(B)!Speaks(m, q)
           \/ \E m, n \in UeSessions(B)!Uplink :
                /\ v5' = Append(Append(v5, m), n) /\ m.k # "contextResponse" /\ n.k # "contextResponse"
                /\ \A q \in Q : ~UeSessions(B)!Speaks(m, q) /\ ~UeSessions(B)!Speaks(n, q),
           \/ v6' = v6
           \/ v6 # <<>> /\ v6' = Tail(v6) /\ \A q \in Q : ~UeSessions(B)!Answers(Head(v6), q) /\ ~UeSessions(B)!Of(Head(v6), "release", q)
           \/ \E m \in UeSessions(B)!Downlink : v6' = Append(v6, m) /\ \A q \in Q : ~UeSessions(B)!Answers(m, q) /\ ~UeSessions(B)!Of(m, "release", q),
           \A q \in Q : UeSessions(B)!RadioKept(q) /\ UeSessions(B)!EntryKept(q) /\ UeSessions(B)!TunnelKept(q)
    PROVE  \A q \in Q : UeSessions(B)!ThePath(q)'
<1> SUFFICES ASSUME NEW q \in Q PROVE UeSessions(B)!ThePath(q)'
  OBVIOUS
<1>1. UeSessions(B)!ThePath(q) /\ UeSessions(B)!AsksLast(v5, q) /\ UeSessions(B)!AnsweredOnce(v6, q)
  BY DEF UeSessions!Together, UeSessions!ThePath
<1>2. v5 \in Seq(UeSessions(B)!Uplink) /\ v6 \in Seq(UeSessions(B)!Downlink)
  BY DEF UeSessions!SessionTypes, UeSessions!LinkTypes
<1>3. UeSessions(B)!UpKept(q)
  BY <1>1, <1>2, UpStays
<1>4. UeSessions(B)!DownKept(q)
  BY <1>1, <1>2, DownStays
<1>q. QED
  BY <1>1, <1>3, <1>4, PathStays

\* What the gNB takes and ignores leaves the phase, unless both ends know the connection.
LEMMA GnbIgnores ==
    ASSUME NEW CONSTANT B, UeSessions(B)!SessionTypes, UeSessions(B)!Cut \/ UeSessions(B)!Released \/ UeSessions(B)!Resuming, v6 # <<>>, v6' = Tail(v6), Head(v6).k # "context",
           UNCHANGED <<v1, v2, v11, v7, v8>>, v3'.id = v3.id,
           v3.id = 0 => v5' = v5 /\ v4'.cm = v4.cm /\ v4'.ses = v4.ses,
           ~(Head(v6).k = "contextRelease" /\ v3.id # 0 /\ Head(v6).id = v3.id)
    PROVE  (UeSessions(B)!Cut \/ UeSessions(B)!Released \/ UeSessions(B)!Resuming)'
<1>1. /\ \A i \in DOMAIN v6' : i \in Nat /\ i + 1 \in DOMAIN v6 /\ v6'[i] = v6[i + 1]
      /\ \A i \in DOMAIN v6 : i = 1 \/ (i \in Nat /\ i - 1 \in DOMAIN v6' /\ v6'[i - 1] = v6[i])
      /\ Head(v6) = v6[1]
  <2>1. v6 \in Seq(UeSessions(B)!Downlink)
    BY DEF UeSessions!SessionTypes, UeSessions!LinkTypes
  <2>2. \A i \in DOMAIN v6' : i \in Nat /\ i + 1 \in DOMAIN v6 /\ v6'[i] = v6[i + 1]
    BY <2>1, SeqTail
  <2>3. ASSUME NEW i \in DOMAIN v6, i # 1 PROVE i \in Nat /\ i - 1 \in DOMAIN v6' /\ v6'[i - 1] = v6[i]
    <3>1. i \in Nat \ {0} /\ i - 1 \in DOMAIN v6'
      BY <2>1, <2>3, SeqTail
    <3>2. v6'[i - 1] = v6[(i - 1) + 1]
      BY <2>2, <3>1
    <3>q. QED
      BY <3>1, <3>2
  <2>4. Head(v6) = v6[1]
    BY <2>1, SeqTail
  <2>q. QED
    BY <2>2, <2>3, <2>4
<1>2. ~UeSessions(B)!Carries(v6, "context") => ~UeSessions(B)!Carries(v6', "context")
  BY <1>1 DEF UeSessions!Carries
<1>3. CASE UeSessions(B)!Cut
  BY <1>2, <1>3 DEF UeSessions!Cut
<1>4. CASE UeSessions(B)!Released
  <2>1. UeSessions(B)!Deactivated'
    BY <1>4 DEF UeSessions!Released, UeSessions!Deactivated
  <2>2. ASSUME v3.id = v1.id, UeSessions(B)!LetsGo, v3.id # 0 PROVE UeSessions(B)!LetsGo'
    <3>1. PICK i \in DOMAIN v6 : v6[i].k = "contextRelease" /\ v6[i].id = v1.id
      BY <2>2 DEF UeSessions!LetsGo
    <3>2. i # 1
      BY <1>1, <2>2, <3>1
    <3>q. QED
      BY <1>1, <3>1, <3>2 DEF UeSessions!LetsGo
  <2>q. QED
    BY <1>2, <1>4, <2>1, <2>2 DEF UeSessions!Released
<1>5. CASE UeSessions(B)!Resuming
  <2>1. PICK c \in DOMAIN v6 : UeSessions(B)!ResumesAt(c)
    BY <1>5 DEF UeSessions!Resuming
  <2>2. c # 1
    BY <1>1, <2>1 DEF UeSessions!ResumesAt
  <2> DEFINE d == c - 1
  <2>3. d \in DOMAIN v6' /\ d \in Nat /\ c \in Nat /\ v6'[d] = v6[c] /\ c = d + 1
    BY <1>1, <2>2
  <2> HIDE DEF d
  <2>4. \A p : (UeSessions(B)!Held(p)' <=> UeSessions(B)!Held(p)) /\ (UeSessions(B)!Due(p)' <=> UeSessions(B)!Due(p))
    BY DEF UeSessions!Held, UeSessions!Due, UeSessions!Guarded
  <2>5. v4'.ses = v4.ses /\ v4'.cm = v4.cm /\ v5' = v5
    BY <1>5 DEF UeSessions!Resuming
  <2>6. \A i \in DOMAIN v6' : /\ i < d => i + 1 < c
                              /\ d < i => c < i + 1
    BY <1>1, <2>3
  <2>7. /\ \A i \in DOMAIN v6' : i < d => v6'[i].k # "context"
        /\ \A i \in DOMAIN v6' : d < i => v6'[i].id = v1.id /\ v6'[i].k \in {"release", "modify"}
        /\ \A i \in DOMAIN v6' :
             d < i /\ v6'[i].k = "release" /\ v6'[i].psi \in DOMAIN v1.refs => v6'[i].psi \in v1.releasing
    BY <1>1, <2>1, <2>6 DEF UeSessions!ResumesAt
  <2>8. ASSUME NEW p \in v6[c].active, p \notin DOMAIN v1.refs \/ UeSessions(B)!Due(p)
        PROVE  \E i \in DOMAIN v6' : d < i /\ UeSessions(B)!Of(v6'[i], "release", p)
    <3>1. PICK i \in DOMAIN v6 : c < i /\ UeSessions(B)!Of(v6[i], "release", p)
      BY <2>1, <2>8 DEF UeSessions!ResumesAt
    <3>2. i # 1 /\ i \in Nat
      BY <1>1, <2>3, <3>1
    <3>3. d < i - 1
      BY <2>3, <3>1, <3>2
    <3>q. QED
      BY <1>1, <3>1, <3>2, <3>3
  <2>9. UeSessions(B)!ResumesAt(d)'
    BY <2>1, <2>3, <2>4, <2>5, <2>7, <2>8 DEF UeSessions!ResumesAt
  <2>10. UeSessions(B)!Deactivated'
    BY <1>5 DEF UeSessions!Resuming, UeSessions!Deactivated
  <2>q. QED
    BY <1>5, <2>3, <2>5, <2>9, <2>10 DEF UeSessions!Resuming
<1>q. QED
  BY <1>3, <1>4, <1>5

\* A step that leaves the connection of the two ends leaves what holds in every phase.
LEMMA ConnectionStays ==
    ASSUME NEW CONSTANT B, UeSessions(B)!SessionTypes, UeSessions(B)!PathIInv, v1'.id = v1.id, v3'.id = v3.id, v4'.cm = v4.cm,
           v12'.connections = v12.connections, UeSessions(B)!Guarding',
           v3.id = 0 => v3'.ses = v3.ses /\ v4'.asked \subseteq v4.asked,
           UeSessions(B)!Carries(v5, "return") => v4'.ses = v4.ses,
           \/ v5' = v5
           \/ v5 # <<>> /\ v5' = Tail(v5)
           \/ \E m \in UeSessions(B)!Uplink : v5' = Append(v5, m) /\ m.k # "return" /\ ~UeSessions(B)!Carries(v5, "return")
           \/ \E m, n \in UeSessions(B)!Uplink : /\ v5' = Append(Append(v5, m), n) /\ m.k # "return" /\ n.k # "return"
                                                 /\ ~UeSessions(B)!Carries(v5, "return")
    PROVE  UeSessions(B)!Connections'
<1>1. v5 \in Seq(UeSessions(B)!Uplink)
  BY DEF UeSessions!SessionTypes, UeSessions!LinkTypes
<1>2. UeSessions(B)!ReturnsLast
  BY DEF UeSessions!PathIInv, UeSessions!Connections
<1>3. UeSessions(B)!ReturnsLast'
  BY <1>1, <1>2, ReturnStays
<1>q. QED
  BY <1>3 DEF UeSessions!PathIInv, UeSessions!Connections, UeSessions!Apart, UeSessions!Nothing

LEMMA GuardingStays == ASSUME NEW CONSTANT B, UeSessions(B)!PathIInv, UNCHANGED <<v7, v8>>, v1'.id = v1.id PROVE UeSessions(B)!Guarding'
BY DEF UeSessions!PathIInv, UeSessions!Connections, UeSessions!Guarding

\* A connected UE has no return on its way.
LEMMA NoReturn == ASSUME NEW CONSTANT B, UeSessions(B)!PathIInv, v3.id # 0 PROVE ~UeSessions(B)!Carries(v5, "return")
BY DEF UeSessions!PathIInv, UeSessions!Connections, UeSessions!ReturnsLast, UeSessions!Carries

LEMMA GnbSetsUpKeeps ==
    ASSUME NEW CONSTANT B, UeSessions(B)!SessionTypes, UeSessions(B)!PathIInv, NEW lost \in BOOLEAN, UeSessions(B)!GnbSetsUp(lost)
    PROVE  UeSessions(B)!PathIInv'
<1> USE SessionRecords
<1>0. PICK m, p, t : m = Head(v6) /\ p = m.psi /\ t = v3.made + 1
  OBVIOUS
<1> DEFINE r == [k |-> "setupResponse", id |-> m.id, psi |-> p, teid |-> t]
<1>1. /\ v6 # <<>> /\ v6' = Tail(v6) /\ m \in UeSessions(B)!Downlink /\ m.k = "setup" /\ Head(v6) = m /\ m = v6[1]
  BY <1>0, Takes DEF UeSessions!GnbSetsUp
<1>2. p \in B.psis /\ m.id \in Nat \ {0} /\ t \in Nat /\ 1 \in DOMAIN v6
  BY <1>0, <1>1, DownlinkIs, SeqTail DEF UeSessions!Positive
<1>3. r \in UeSessions(B)!Uplink /\ r.k = "setupResponse" /\ r.psi = p /\ r.teid = t /\ r.id = m.id
  BY <1>2 DEF UeSessions!Uplink
<1>4. UNCHANGED <<v1, v2, v7, v8, v9, v10, v11>>
  BY DEF UeSessions!GnbSetsUp
<1> HIDE DEF r
<1>5. CASE m.id # v3.id
  <2>1. UNCHANGED <<v3, v4, v5, v12>>
    BY <1>0, <1>5 DEF UeSessions!GnbSetsUp
  <2>2. ~UeSessions(B)!Together
    BY <1>1, <1>2, <1>5 DEF UeSessions!Together, UeSessions!Linked, UeSessions!DownOfLink
  <2>3. (UeSessions(B)!Cut \/ UeSessions(B)!Released \/ UeSessions(B)!Resuming)'
    BY <1>1, <1>4, <2>1, <2>2, GnbIgnores DEF UeSessions!PathIInv
  <2>4. UeSessions(B)!Connections'
    BY <1>4, <2>1, GuardingStays, ConnectionStays
  <2>q. QED
    BY <2>3, <2>4 DEF UeSessions!PathIInv
<1>6. CASE m.id = v3.id
  <2>1. /\ v3'.id = v3.id /\ v3'.ses = UeSessions(B)!Put(v3.ses, p, t)
        /\ v5' = Append(v5, r) /\ UeSessions(B)!MayLose(lost)
        /\ v4'.cm = v4.cm /\ (IF lost THEN v4' = v4 ELSE v4'.ses = v4.ses \cup {p} /\ v4'.asked = v4.asked \ {p})
    BY <1>0, <1>6 DEF UeSessions!GnbSetsUp, r
  <2>2. /\ DOMAIN v3'.ses = DOMAIN v3.ses \cup {p} /\ v3'.ses[p] = t
        /\ \A q \in DOMAIN v3.ses \ {p} : v3'.ses[q] = v3.ses[q]
    <3>1. /\ DOMAIN UeSessions(B)!Put(v3.ses, p, t) = DOMAIN v3.ses \cup {p} /\ UeSessions(B)!Put(v3.ses, p, t)[p] = t
          /\ \A q \in DOMAIN v3.ses \ {p} : UeSessions(B)!Put(v3.ses, p, t)[q] = v3.ses[q]
      BY DEF UeSessions!Put
    <3>q. QED
      BY <2>1, <3>1
  <2>3. v12'.connections = v12.connections
    BY <2>1, Spends DEF UeSessions!SessionTypes
  <2>4. v3.id # 0 /\ ~UeSessions(B)!Carries(v5, "return")
    BY <1>2, <1>6, NoReturn
  <2>5. UeSessions(B)!Connections'
    <3>1. UeSessions(B)!Guarding'
      BY <1>4, GuardingStays
    <3>q. QED
      BY <1>3, <1>4, <2>1, <2>3, <2>4, <3>1, ConnectionStays
  <2>6. ASSUME UeSessions(B)!Together PROVE UeSessions(B)!Together'
    <3>1. UeSessions(B)!Linked'
      <4>1. UeSessions(B)!Linked /\ r.id = v1.id
        BY <1>3, <1>6, <2>6 DEF UeSessions!Together, UeSessions!Linked
      <4>q. QED
        BY <1>1, <1>3, <1>4, <2>1, <4>1, LinkStays
    <3>2. \A q \in B.psis \ {p} : UeSessions(B)!ThePath(q)'
      <4>1. \A q \in B.psis \ {p} : ~UeSessions(B)!Speaks(r, q) /\ ~UeSessions(B)!Answers(m, q) /\ ~UeSessions(B)!Of(m, "release", q)
        BY <1>0, <1>1, <1>3 DEF UeSessions!Speaks, UeSessions!Of, UeSessions!Reports, UeSessions!Answers
      <4>2. \A q \in B.psis \ {p} : UeSessions(B)!RadioKept(q)
        BY <2>1, <2>2 DEF UeSessions!RadioKept
      <4>3. \A q \in B.psis \ {p} : UeSessions(B)!EntryKept(q) /\ UeSessions(B)!TunnelKept(q)
        BY <1>4, Unmoved
      <4> DEFINE Q == B.psis \ {p}
      <4>4. Q \in SUBSET B.psis
        OBVIOUS
      <4>5. \A q \in Q : /\ ~UeSessions(B)!Speaks(r, q) /\ ~UeSessions(B)!Answers(m, q) /\ ~UeSessions(B)!Of(m, "release", q)
                       /\ UeSessions(B)!RadioKept(q) /\ UeSessions(B)!EntryKept(q) /\ UeSessions(B)!TunnelKept(q)
        BY <4>1, <4>2, <4>3
      <4> HIDE DEF Q
      <4>6. \A q \in Q : UeSessions(B)!ThePath(q)'
        <5>1. UeSessions(B)!SessionTypes
          OBVIOUS
        <5>q. QED
          BY ONLY <1>1, <1>3, <2>1, <2>6, <4>4, <4>5, <5>1, OthersStay
      <4>q. QED
        BY <4>6 DEF Q
    <3>3. UeSessions(B)!ThePath(p)'
      <4>1. UeSessions(B)!ThePath(p)
        BY <1>2, <2>6 DEF UeSessions!Together
      <4>2. UeSessions(B)!Of(m, "setup", p) /\ UeSessions(B)!Answers(m, p) /\ ~UeSessions(B)!Of(m, "reject", p) /\ ~UeSessions(B)!Of(m, "release", p)
        BY <1>0, <1>1 DEF UeSessions!Of, UeSessions!Answers
      <4>3. /\ UeSessions(B)!Has(v6, "setup", p) /\ ~UeSessions(B)!Has(v6', "setup", p) /\ ~UeSessions(B)!Has(v6', "reject", p)
            /\ (UeSessions(B)!Has(v6', "release", p) <=> UeSessions(B)!Has(v6, "release", p))
            /\ UeSessions(B)!AnsweredOnce(v6', p)
            /\ UeSessions(B)!Followed(v6, "setup", "release", p) => UeSessions(B)!Followed(v6', "setup", "release", p) /\ UeSessions(B)!Has(v6', "release", p)
            /\ UeSessions(B)!Followed(v6, "release", "setup", p) => UeSessions(B)!Followed(v6', "release", "setup", p)
        <5>1. UeSessions(B)!AnsweredOnce(v6, p) /\ v6 \in Seq(UeSessions(B)!Downlink)
          BY <4>1 DEF UeSessions!ThePath
        <5>q. QED
          BY <1>1, <4>2, <5>1, DownTaken
      <4>4. UeSessions(B)!Answering(p) /\ ~UeSessions(B)!Answering(p)'
        BY <4>3 DEF UeSessions!Answering
      <4>5. /\ p \in v4.asked /\ p \notin DOMAIN v3.ses /\ ~UeSessions(B)!Asking(p) /\ ~UeSessions(B)!Has(v5, "complete", p) /\ ~UeSessions(B)!Reported(v5, p)
            /\ ~UeSessions(B)!Carries(v5, "contextResponse") /\ ~UeSessions(B)!Refused(v5, p)
        BY <4>1, <4>4 DEF UeSessions!ThePath, UeSessions!Refused, UeSessions!Carries
      <4>6. /\ UeSessions(B)!Reports(r, p) /\ ~UeSessions(B)!Of(r, "establish", p) /\ ~UeSessions(B)!Of(r, "complete", p) /\ UeSessions(B)!TunnelIn(r, p) = t
            /\ r.k # "contextResponse"
        BY <1>3 DEF UeSessions!Of, UeSessions!Reports, UeSessions!TunnelIn
      <4>7. /\ ~UeSessions(B)!Asking(p)' /\ ~UeSessions(B)!Has(v5', "complete", p) /\ UeSessions(B)!Reported(v5', p) /\ ~UeSessions(B)!Refused(v5', p) /\ UeSessions(B)!AsksLast(v5', p)
            /\ ~UeSessions(B)!Carries(v5', "contextResponse") /\ UeSessions(B)!Tells(v5', p, v3'.ses)
        <5>1. UeSessions(B)!Tells(v5, p, v3'.ses)
          BY <4>5 DEF UeSessions!Tells, UeSessions!Reported
        <5>2. ~UeSessions(B)!Has(v5, "establish", p) /\ UeSessions(B)!AsksLast(v5, p)
          BY <4>1, <4>5 DEF UeSessions!Asking, UeSessions!ThePath
        <5>3. UeSessions(B)!Tells(v5', p, v3'.ses)
          BY <1>3, <2>1, <2>2, <4>6, <5>1, Appends
        <5>q. QED
          BY <1>3, <2>1, <4>5, <4>6, <5>2, <5>3, Appends DEF UeSessions!Asking
      <4>8. /\ (UeSessions(B)!Held(p)' <=> UeSessions(B)!Held(p)) /\ (UeSessions(B)!Due(p)' <=> UeSessions(B)!Due(p)) /\ (UeSessions(B)!Active(p)' <=> UeSessions(B)!Active(p))
        BY <1>4 DEF UeSessions!Held, UeSessions!Due, UeSessions!Active, UeSessions!Guarded
      <4>9. UeSessions(B)!Cleared(p) => UeSessions(B)!Cleared(p)'
        BY <4>3 DEF UeSessions!Cleared
      <4>10. p \in v4'.ses \cup v4'.asked
        BY <2>1, <4>5
      <4>q. QED
        BY <1>4, <2>2, <4>1, <4>3, <4>4, <4>5, <4>7, <4>8, <4>9, <4>10 DEF UeSessions!ThePath
    <3>q. QED
      BY <1>2, <3>1, <3>2, <3>3 DEF UeSessions!Together
  <2>7. UeSessions(B)!Cut \/ UeSessions(B)!Released \/ UeSessions(B)!Resuming => (UeSessions(B)!Cut \/ UeSessions(B)!Released \/ UeSessions(B)!Resuming)'
    BY <1>1, <1>4, <2>1, <2>4, GnbIgnores
  <2>q. QED
    BY <2>5, <2>6, <2>7 DEF UeSessions!PathIInv
<1>q. QED
  BY <1>5, <1>6

LEMMA SeqOnto ==
    ASSUME NEW S, NEW s \in Seq(S), NEW m \in S
    PROVE  s \o <<m>> = Append(s, m) /\ s \o <<>> = s
OBVIOUS

LEMMA GnbReleasesKeeps ==
    ASSUME NEW CONSTANT B, UeSessions(B)!SessionTypes, UeSessions(B)!PathIInv, NEW lost \in BOOLEAN, UeSessions(B)!GnbReleases(lost)
    PROVE  UeSessions(B)!PathIInv'
<1> USE SessionRecords
<1>0. PICK m, p : m = Head(v6) /\ p = m.psi
  OBVIOUS
<1> DEFINE r == [k |-> "releaseResponse", id |-> m.id, psi |-> p]
           c == [k |-> "complete", id |-> m.id, psi |-> p]
           told == ~lost /\ p \in v4.ses
<1>1. /\ v6 # <<>> /\ v6' = Tail(v6) /\ m \in UeSessions(B)!Downlink /\ m.k = "release" /\ Head(v6) = m /\ m = v6[1]
  BY <1>0, Takes DEF UeSessions!GnbReleases
<1>2. p \in B.psis /\ m.id \in Nat \ {0} /\ 1 \in DOMAIN v6
  BY <1>0, <1>1, DownlinkIs, SeqTail DEF UeSessions!Positive
<1>3. /\ r \in UeSessions(B)!Uplink /\ r.k = "releaseResponse" /\ r.psi = p /\ r.id = m.id
      /\ c \in UeSessions(B)!Uplink /\ c.k = "complete" /\ c.psi = p /\ c.id = m.id
  BY <1>2 DEF UeSessions!Uplink
<1>4. UNCHANGED <<v1, v2, v7, v8, v9, v10, v11>>
  BY DEF UeSessions!GnbReleases
<1>5. CASE m.id # v3.id
  <2>1. UNCHANGED <<v3, v4, v5, v12>>
    BY <1>0, <1>5 DEF UeSessions!GnbReleases
  <2>2. ~UeSessions(B)!Together
    BY <1>1, <1>2, <1>5 DEF UeSessions!Together, UeSessions!Linked, UeSessions!DownOfLink
  <2>3. (UeSessions(B)!Cut \/ UeSessions(B)!Released \/ UeSessions(B)!Resuming)'
    BY <1>1, <1>4, <2>1, <2>2, GnbIgnores DEF UeSessions!PathIInv
  <2>4. UeSessions(B)!Connections'
    BY <1>4, <2>1, GuardingStays, ConnectionStays
  <2>q. QED
    BY <2>3, <2>4 DEF UeSessions!PathIInv
<1>6. CASE m.id = v3.id
  <2>1. /\ v3'.id = v3.id /\ v3'.ses = UeSessions(B)!Drop(v3.ses, {p}) /\ UeSessions(B)!MayLose(lost)
        /\ v5' = Append(v5, r) \o (IF told THEN <<c>> ELSE <<>>)
        /\ v4'.cm = v4.cm /\ v4'.asked = v4.asked
        /\ v4'.ses = IF told THEN v4.ses \ {p} ELSE v4.ses
    BY <1>0, <1>6 DEF UeSessions!GnbReleases
  <2>2. v5' = IF told THEN Append(Append(v5, r), c) ELSE Append(v5, r)
    <3> HIDE DEF r, c, told
    <3>1. Append(v5, r) \in Seq(UeSessions(B)!Uplink)
      BY <1>3, SeqAppend
    <3>2. Append(v5, r) \o <<c>> = Append(Append(v5, r), c) /\ Append(v5, r) \o <<>> = Append(v5, r)
      BY <1>3, <3>1, SeqOnto
    <3>q. QED
      BY <2>1, <3>2
  <2>3. DOMAIN v3'.ses = DOMAIN v3.ses \ {p} /\ \A q \in DOMAIN v3'.ses : v3'.ses[q] = v3.ses[q]
    <3>1. /\ DOMAIN UeSessions(B)!Drop(v3.ses, {p}) = DOMAIN v3.ses \ {p}
          /\ \A q \in DOMAIN v3.ses \ {p} : UeSessions(B)!Drop(v3.ses, {p})[q] = v3.ses[q]
      BY DEF UeSessions!Drop
    <3>q. QED
      BY <2>1, <3>1
  <2>4. v12'.connections = v12.connections
    BY <2>1, Spends DEF UeSessions!SessionTypes
  <2>5. v3.id # 0 /\ ~UeSessions(B)!Carries(v5, "return")
    BY <1>2, <1>6, NoReturn
  <2> HIDE DEF r, c
  <2>6. UeSessions(B)!Connections'
    <3>1. UeSessions(B)!Guarding'
      BY <1>4, GuardingStays
    <3>2. \/ v5' = Append(v5, r) /\ r.k # "return" /\ ~UeSessions(B)!Carries(v5, "return")
          \/ v5' = Append(Append(v5, r), c) /\ r.k # "return" /\ c.k # "return" /\ ~UeSessions(B)!Carries(v5, "return")
      BY <1>3, <2>2, <2>5
    <3>q. QED
      BY <1>3, <1>4, <2>1, <2>4, <2>5, <3>1, <3>2, ConnectionStays
  <2>7. ASSUME UeSessions(B)!Together PROVE UeSessions(B)!Together'
    <3>1. UeSessions(B)!Linked'
      <4>1. UeSessions(B)!Linked /\ r.id = v1.id /\ c.id = v1.id
        BY <1>3, <1>6, <2>7 DEF UeSessions!Together, UeSessions!Linked
      <4>2. \/ v5' = Append(v5, r) /\ r.id = v1.id /\ r.k # "contextResponse"
            \/ /\ v5' = Append(Append(v5, r), c) /\ r.id = v1.id /\ c.id = v1.id
               /\ r.k # "contextResponse" /\ c.k # "contextResponse"
        BY <1>3, <2>2, <4>1
      <4>q. QED
        BY <1>1, <1>3, <1>4, <2>1, <4>1, <4>2, LinkStays
    <3>2. \A q \in B.psis \ {p} : UeSessions(B)!ThePath(q)'
      <4>1. \A q \in B.psis \ {p} : ~UeSessions(B)!Speaks(r, q) /\ ~UeSessions(B)!Speaks(c, q) /\ ~UeSessions(B)!Answers(m, q) /\ ~UeSessions(B)!Of(m, "release", q)
        BY <1>0, <1>1, <1>3 DEF UeSessions!Speaks, UeSessions!Of, UeSessions!Reports, UeSessions!Answers
      <4>2. \A q \in B.psis \ {p} : UeSessions(B)!RadioKept(q)
        BY <2>1, <2>3 DEF UeSessions!RadioKept
      <4>3. \A q \in B.psis \ {p} : UeSessions(B)!EntryKept(q) /\ UeSessions(B)!TunnelKept(q)
        BY <1>4, Unmoved
      <4> DEFINE Q == B.psis \ {p}
      <4>4. Q \in SUBSET B.psis
        OBVIOUS
      <4>5. \A q \in Q : /\ ~UeSessions(B)!Speaks(r, q) /\ ~UeSessions(B)!Speaks(c, q) /\ ~UeSessions(B)!Answers(m, q) /\ ~UeSessions(B)!Of(m, "release", q)
                         /\ UeSessions(B)!RadioKept(q) /\ UeSessions(B)!EntryKept(q) /\ UeSessions(B)!TunnelKept(q)
        BY <4>1, <4>2, <4>3
      <4> HIDE DEF Q
      <4>6. \/ v5' = Append(v5, r) /\ r.k # "contextResponse" /\ \A q \in Q : ~UeSessions(B)!Speaks(r, q)
            \/ /\ v5' = Append(Append(v5, r), c) /\ r.k # "contextResponse" /\ c.k # "contextResponse"
               /\ \A q \in Q : ~UeSessions(B)!Speaks(r, q) /\ ~UeSessions(B)!Speaks(c, q)
        BY <1>3, <2>2, <4>5
      <4>7. \A q \in Q : UeSessions(B)!ThePath(q)'
        <5>1. UeSessions(B)!SessionTypes
          OBVIOUS
        <5>q. QED
          BY ONLY <1>1, <1>3, <2>7, <4>4, <4>5, <4>6, <5>1, OthersStay
      <4>q. QED
        BY <4>7 DEF Q
    <3>3. UeSessions(B)!ThePath(p)'
      <4>1. UeSessions(B)!ThePath(p)
        BY <1>2, <2>7 DEF UeSessions!Together
      <4>2. UeSessions(B)!Of(m, "release", p) /\ ~UeSessions(B)!Of(m, "setup", p) /\ ~UeSessions(B)!Of(m, "reject", p)
        BY <1>0, <1>1 DEF UeSessions!Of
      <4>3. /\ (UeSessions(B)!Has(v6', "setup", p) <=> UeSessions(B)!Has(v6, "setup", p))
            /\ (UeSessions(B)!Has(v6', "reject", p) <=> UeSessions(B)!Has(v6, "reject", p))
            /\ UeSessions(B)!AnsweredOnce(v6', p)
            /\ UeSessions(B)!Followed(v6, "setup", "release", p) => UeSessions(B)!Followed(v6', "setup", "release", p)
            /\ UeSessions(B)!Followed(v6, "release", "setup", p) => UeSessions(B)!Followed(v6', "release", "setup", p) /\ UeSessions(B)!Has(v6, "setup", p)
        <5>1. UeSessions(B)!AnsweredOnce(v6, p) /\ v6 \in Seq(UeSessions(B)!Downlink)
          BY <4>1 DEF UeSessions!ThePath
        <5>q. QED
          BY <1>1, <4>2, <5>1, DownTaken
      <4>4. UeSessions(B)!Answering(p)' <=> UeSessions(B)!Answering(p)
        BY <4>3 DEF UeSessions!Answering
      \* A session of the context whose release is not awaited will be set up after this.
      <4>5. UeSessions(B)!Active(p) => UeSessions(B)!Answering(p) /\ p \notin v4.ses /\ p \notin DOMAIN v3.ses /\ ~UeSessions(B)!Reported(v5, p)
        BY <4>1, <4>3 DEF UeSessions!ThePath, UeSessions!Answering
      <4>6. UeSessions(B)!Cleared(p)' <=> UeSessions(B)!Followed(v6', "setup", "release", p)
        BY <2>3 DEF UeSessions!Cleared
      <4>7. told => ~UeSessions(B)!Asking(p) /\ ~UeSessions(B)!Answering(p) /\ ~UeSessions(B)!Has(v6, "setup", p)
        BY <4>1 DEF UeSessions!ThePath, UeSessions!Answering
      <4>8. told => UeSessions(B)!Cleared(p)'
        BY <4>3, <4>6, <4>7 DEF UeSessions!Followed, UeSessions!Has
      <4>9. UeSessions(B)!Cleared(p) => UeSessions(B)!Cleared(p)'
        BY <4>3, <4>6 DEF UeSessions!Cleared
      <4>10. /\ (UeSessions(B)!Held(p)' <=> UeSessions(B)!Held(p)) /\ (UeSessions(B)!Due(p)' <=> UeSessions(B)!Due(p)) /\ (UeSessions(B)!Active(p)' <=> UeSessions(B)!Active(p))
        BY <1>4 DEF UeSessions!Held, UeSessions!Due, UeSessions!Active, UeSessions!Guarded
      <4>11. /\ (UeSessions(B)!Asking(p)' <=> UeSessions(B)!Asking(p)) /\ (UeSessions(B)!Reported(v5', p) <=> UeSessions(B)!Reported(v5, p))
             /\ (UeSessions(B)!Has(v5', "complete", p) <=> told \/ UeSessions(B)!Has(v5, "complete", p))
             /\ (UeSessions(B)!Refused(v5', p) => UeSessions(B)!Refused(v5, p)) /\ UeSessions(B)!AsksLast(v5', p)
             /\ (UeSessions(B)!Carries(v5', "contextResponse") <=> UeSessions(B)!Carries(v5, "contextResponse"))
        <5>1. ~UeSessions(B)!Of(r, "establish", p) /\ ~UeSessions(B)!Of(r, "complete", p) /\ ~UeSessions(B)!Reports(r, p) /\ r.k # "contextResponse"
          BY <1>3 DEF UeSessions!Of, UeSessions!Reports
        <5>2. ~UeSessions(B)!Of(c, "establish", p) /\ UeSessions(B)!Of(c, "complete", p) /\ ~UeSessions(B)!Reports(c, p) /\ c.k # "contextResponse"
          BY <1>3 DEF UeSessions!Of, UeSessions!Reports
        <5>3. UeSessions(B)!AsksLast(v5, p) /\ (told => ~UeSessions(B)!Has(v5, "establish", p))
          BY <4>1, <4>7 DEF UeSessions!Asking, UeSessions!ThePath
        <5> DEFINE w == Append(v5, r)
        <5>4. /\ w \in Seq(UeSessions(B)!Uplink) /\ (UeSessions(B)!Has(w, "establish", p) <=> UeSessions(B)!Has(v5, "establish", p))
              /\ (UeSessions(B)!Reported(w, p) <=> UeSessions(B)!Reported(v5, p))
              /\ (UeSessions(B)!Has(w, "complete", p) <=> UeSessions(B)!Has(v5, "complete", p))
              /\ (UeSessions(B)!Refused(w, p) => UeSessions(B)!Refused(v5, p)) /\ UeSessions(B)!AsksLast(w, p)
              /\ (UeSessions(B)!Carries(w, "contextResponse") <=> UeSessions(B)!Carries(v5, "contextResponse"))
          BY <1>3, <5>1, <5>3, Appends, SeqAppend DEF UeSessions!Speaks
        <5> HIDE DEF w
        <5>5. ASSUME told
              PROVE  /\ (UeSessions(B)!Has(Append(w, c), "establish", p) <=> UeSessions(B)!Has(w, "establish", p))
                     /\ (UeSessions(B)!Reported(Append(w, c), p) <=> UeSessions(B)!Reported(w, p)) /\ UeSessions(B)!Has(Append(w, c), "complete", p)
                     /\ (UeSessions(B)!Refused(Append(w, c), p) => UeSessions(B)!Refused(w, p)) /\ UeSessions(B)!AsksLast(Append(w, c), p)
                     /\ (UeSessions(B)!Carries(Append(w, c), "contextResponse") <=> UeSessions(B)!Carries(w, "contextResponse"))
          BY <1>3, <5>2, <5>3, <5>4, <5>5, Appends
        <5>6. CASE told
          BY <2>2, <5>4, <5>5, <5>6 DEF UeSessions!Asking, w
        <5>7. CASE ~told
          BY <2>2, <5>4, <5>7 DEF UeSessions!Asking, w
        <5>q. QED
          BY <5>6, <5>7
      <4>12. /\ UeSessions(B)!Asking(p)' \/ UeSessions(B)!Answering(p)' => p \in v4'.asked /\ p \notin v4'.ses /\ p \notin DOMAIN v3'.ses
             /\ UeSessions(B)!Answering(p)' => /\ ~UeSessions(B)!Asking(p)' /\ ~UeSessions(B)!Has(v5', "complete", p) /\ ~UeSessions(B)!Reported(v5', p)
                                /\ ~UeSessions(B)!Carries(v5', "contextResponse")
        BY <2>1, <2>3, <4>1, <4>4, <4>7, <4>11 DEF UeSessions!ThePath
      <4>13. /\ p \in DOMAIN v3'.ses => p \in v4'.ses \cup v4'.asked
             /\ UeSessions(B)!Held(p)' => UeSessions(B)!Has(v5', "complete", p) \/ (p \in v4'.ses \cup v4'.asked /\ ~UeSessions(B)!Asking(p)')
             /\ UeSessions(B)!Has(v6', "reject", p) => ~UeSessions(B)!Held(p)'
             /\ UeSessions(B)!Has(v5', "complete", p) /\ p \in DOMAIN v1'.refs => p \in v1'.releasing
        BY <1>4, <2>1, <2>3, <4>1, <4>3, <4>5, <4>10, <4>11 DEF UeSessions!ThePath, UeSessions!Active
      <4>14. /\ p \notin DOMAIN v1'.refs \/ UeSessions(B)!Due(p)' \/ UeSessions(B)!Has(v5', "complete", p) => UeSessions(B)!Cleared(p)'
             /\ UeSessions(B)!Refused(v5', p) => p \notin DOMAIN v3'.ses
        BY <1>4, <2>3, <4>1, <4>8, <4>9, <4>10, <4>11 DEF UeSessions!ThePath
      <4>15. /\ UeSessions(B)!Active(p)' => UeSessions(B)!Followed(v6', "release", "setup", p) /\ UeSessions(B)!Tells(v5', p, v3'.ses)
             /\ UeSessions(B)!Active(p)' /\ ~UeSessions(B)!Reported(v5', p) /\ v1'.refs[p] \in DOMAIN v2' \ v11'
                 => v2'[v1'.refs[p]].dl = UeSessions(B)!Tunnel(p)'
        <5>1. UeSessions(B)!Active(p) => UeSessions(B)!Tells(v5', p, v3'.ses)
          BY <4>5, <4>11 DEF UeSessions!Tells, UeSessions!Reported
        <5>2. UeSessions(B)!Active(p) => UeSessions(B)!Tunnel(p)' = UeSessions(B)!Tunnel(p)
          BY <2>3, <4>5 DEF UeSessions!Tunnel
        <5>q. QED
          BY <1>4, <4>1, <4>3, <4>10, <4>11, <5>1, <5>2 DEF UeSessions!ThePath
      <4>q. QED
        BY <4>3, <4>11, <4>12, <4>13, <4>14, <4>15 DEF UeSessions!ThePath
    <3>q. QED
      BY <1>2, <3>1, <3>2, <3>3 DEF UeSessions!Together
  <2>8. UeSessions(B)!Cut \/ UeSessions(B)!Released \/ UeSessions(B)!Resuming => (UeSessions(B)!Cut \/ UeSessions(B)!Released \/ UeSessions(B)!Resuming)'
    BY <1>1, <1>4, <2>1, <2>5, GnbIgnores
  <2>q. QED
    BY <2>6, <2>7, <2>8 DEF UeSessions!PathIInv
<1>q. QED
  BY <1>5, <1>6

LEMMA GnbRejectsKeeps ==
    ASSUME NEW CONSTANT B, UeSessions(B)!SessionTypes, UeSessions(B)!PathIInv, UeSessions(B)!GnbRejects
    PROVE  UeSessions(B)!PathIInv'
<1> USE SessionRecords
<1>0. PICK m, p : m = Head(v6) /\ p = m.psi
  OBVIOUS
<1>1. /\ v6 # <<>> /\ v6' = Tail(v6) /\ m \in UeSessions(B)!Downlink /\ m.k = "reject" /\ Head(v6) = m
  BY <1>0, Takes DEF UeSessions!GnbRejects
<1>2. p \in B.psis
  BY <1>0, <1>1, DownlinkIs
<1>3. /\ UNCHANGED <<v1, v2, v3, v5, v7, v8, v9, v10, v11, v12>>
      /\ v4'.cm = v4.cm /\ v4'.ses = v4.ses /\ v4'.asked = v4.asked \ {p}
  BY <1>0 DEF UeSessions!GnbRejects
<1>4. UeSessions(B)!Connections'
  BY <1>3, GuardingStays, ConnectionStays
<1>5. ASSUME UeSessions(B)!Together PROVE UeSessions(B)!Together'
  <2>1. UeSessions(B)!Linked'
    BY <1>1, <1>3, <1>5, LinkStays DEF UeSessions!Together
  <2>2. \A q \in B.psis \ {p} : UeSessions(B)!ThePath(q)'
    <3> DEFINE Q == B.psis \ {p}
    <3>1. \A q \in Q : ~UeSessions(B)!Answers(m, q) /\ ~UeSessions(B)!Of(m, "release", q)
      BY <1>0, <1>1 DEF UeSessions!Of, UeSessions!Answers
    <3>2. \A q \in Q : UeSessions(B)!RadioKept(q) /\ UeSessions(B)!EntryKept(q) /\ UeSessions(B)!TunnelKept(q)
      BY <1>3, Unmoved DEF UeSessions!RadioKept
    <3>3. Q \in SUBSET B.psis
      OBVIOUS
    <3> HIDE DEF Q
    <3>4. \A q \in Q : UeSessions(B)!ThePath(q)'
      BY <1>1, <1>3, <1>5, <3>1, <3>2, <3>3, OthersStay
    <3>q. QED
      BY <3>4 DEF Q
  <2>3. UeSessions(B)!ThePath(p)'
    <3>1. UeSessions(B)!ThePath(p)
      BY <1>2, <1>5 DEF UeSessions!Together
    <3>2. UeSessions(B)!Of(m, "reject", p) /\ UeSessions(B)!Answers(m, p) /\ ~UeSessions(B)!Of(m, "release", p)
      BY <1>0, <1>1 DEF UeSessions!Of, UeSessions!Answers
    <3>3. /\ UeSessions(B)!Has(v6, "reject", p) /\ ~UeSessions(B)!Has(v6', "setup", p) /\ ~UeSessions(B)!Has(v6', "reject", p)
          /\ (UeSessions(B)!Has(v6', "release", p) <=> UeSessions(B)!Has(v6, "release", p))
          /\ UeSessions(B)!AnsweredOnce(v6', p)
          /\ UeSessions(B)!Followed(v6, "setup", "release", p) => UeSessions(B)!Followed(v6', "setup", "release", p)
          /\ UeSessions(B)!Followed(v6, "release", "setup", p) => UeSessions(B)!Followed(v6', "release", "setup", p)
      <4>1. UeSessions(B)!AnsweredOnce(v6, p) /\ v6 \in Seq(UeSessions(B)!Downlink)
        BY <3>1 DEF UeSessions!ThePath
      <4>q. QED
        BY <1>1, <3>2, <4>1, DownTaken
    <3>4. UeSessions(B)!Answering(p) /\ ~UeSessions(B)!Answering(p)' /\ ~UeSessions(B)!Held(p) /\ ~UeSessions(B)!Asking(p) /\ p \notin DOMAIN v3.ses
      BY <3>1, <3>3 DEF UeSessions!Answering, UeSessions!ThePath
    <3>5. /\ (UeSessions(B)!Held(p)' <=> UeSessions(B)!Held(p)) /\ (UeSessions(B)!Due(p)' <=> UeSessions(B)!Due(p)) /\ (UeSessions(B)!Active(p)' <=> UeSessions(B)!Active(p))
          /\ (UeSessions(B)!Asking(p)' <=> UeSessions(B)!Asking(p)) /\ (UeSessions(B)!Cleared(p) => UeSessions(B)!Cleared(p)') /\ UeSessions(B)!Tunnel(p)' = UeSessions(B)!Tunnel(p)
      BY <1>3, <3>3 DEF UeSessions!Held, UeSessions!Due, UeSessions!Active, UeSessions!Guarded, UeSessions!Asking, UeSessions!Cleared, UeSessions!Tunnel
    <3>q. QED
      BY <1>3, <3>1, <3>3, <3>4, <3>5 DEF UeSessions!ThePath
  <2>q. QED
    BY <1>2, <2>1, <2>2, <2>3 DEF UeSessions!Together
<1>6. UeSessions(B)!Cut \/ UeSessions(B)!Released \/ UeSessions(B)!Resuming => (UeSessions(B)!Cut \/ UeSessions(B)!Released \/ UeSessions(B)!Resuming)'
  BY <1>1, <1>3, GnbIgnores
<1>q. QED
  BY <1>4, <1>5, <1>6 DEF UeSessions!PathIInv

LEMMA GnbModifiesKeeps ==
    ASSUME NEW CONSTANT B, UeSessions(B)!SessionTypes, UeSessions(B)!PathIInv, UeSessions(B)!GnbModifies
    PROVE  UeSessions(B)!PathIInv'
<1> USE SessionRecords
<1>0. PICK m : m = Head(v6)
  OBVIOUS
<1>1. /\ v6 # <<>> /\ v6' = Tail(v6) /\ m.k = "modify" /\ Head(v6) = m
  BY <1>0, Takes DEF UeSessions!GnbModifies
<1>2. UNCHANGED <<v1, v2, v3, v4, v5, v7, v8, v9, v10, v11, v12>>
  BY DEF UeSessions!GnbModifies
<1>3. UeSessions(B)!Connections'
  BY <1>2, GuardingStays, ConnectionStays
<1>4. ASSUME UeSessions(B)!Together PROVE UeSessions(B)!Together'
  <2>1. UeSessions(B)!Linked'
    BY <1>1, <1>2, <1>4, LinkStays DEF UeSessions!Together
  <2>2. \A q \in B.psis : ~UeSessions(B)!Answers(m, q) /\ ~UeSessions(B)!Of(m, "release", q)
    BY <1>1 DEF UeSessions!Of, UeSessions!Answers
  <2>3. \A q \in B.psis : UeSessions(B)!RadioKept(q) /\ UeSessions(B)!EntryKept(q) /\ UeSessions(B)!TunnelKept(q)
    BY <1>2, Unmoved
  <2>4. \A q \in B.psis : UeSessions(B)!ThePath(q)'
    BY <1>1, <1>2, <1>4, <2>2, <2>3, OthersStay
  <2>q. QED
    BY <1>2, <2>1, <2>4 DEF UeSessions!Together
<1>5. UeSessions(B)!Cut \/ UeSessions(B)!Released \/ UeSessions(B)!Resuming => (UeSessions(B)!Cut \/ UeSessions(B)!Released \/ UeSessions(B)!Resuming)'
  BY <1>1, <1>2, GnbIgnores
<1>q. QED
  BY <1>3, <1>4, <1>5 DEF UeSessions!PathIInv

LEMMA GnbLetsGoKeeps ==
    ASSUME NEW CONSTANT B, UeSessions(B)!SessionTypes, UeSessions(B)!PathIInv, UeSessions(B)!GnbLetsGo
    PROVE  UeSessions(B)!PathIInv'
<1> USE SessionRecords
<1>0. PICK m : m = Head(v6)
  OBVIOUS
<1>1. /\ v6 # <<>> /\ v6' = Tail(v6) /\ m \in UeSessions(B)!Downlink /\ m.k = "contextRelease" /\ Head(v6) = m /\ m = v6[1]
  BY <1>0, Takes DEF UeSessions!GnbLetsGo
<1>2. m.id \in Nat \ {0} /\ 1 \in DOMAIN v6 /\ v6[1].k = "contextRelease"
  BY <1>1, DownlinkIs, SeqTail DEF UeSessions!Positive
<1>3. UNCHANGED <<v1, v2, v5, v7, v8, v9, v10, v11, v12>>
  BY DEF UeSessions!GnbLetsGo
<1>4. ~UeSessions(B)!Together
  BY <1>2 DEF UeSessions!Together, UeSessions!Linked, UeSessions!DownOfLink
<1>5. CASE m.id # v3.id
  <2>1. UNCHANGED <<v3, v4>>
    BY <1>0, <1>5 DEF UeSessions!GnbLetsGo
  <2>2. (UeSessions(B)!Cut \/ UeSessions(B)!Released \/ UeSessions(B)!Resuming)'
    BY <1>1, <1>3, <1>4, <1>5, <2>1, GnbIgnores DEF UeSessions!PathIInv
  <2>3. UeSessions(B)!Connections'
    BY <1>3, <2>1, GuardingStays, ConnectionStays
  <2>q. QED
    BY <2>2, <2>3 DEF UeSessions!PathIInv
<1>6. CASE m.id = v3.id
  <2>1. v3'.id = 0 /\ v3'.ses = UeSessions(B)!Nothing /\ v4'.cm = "idle" /\ v4'.asked = {}
    BY <1>0, <1>6 DEF UeSessions!GnbLetsGo, UeSessions!GnbIdle
  <2>2. v3.id # 0 /\ ~UeSessions(B)!Carries(v5, "return")
    BY <1>2, <1>6, NoReturn
  <2>3. UeSessions(B)!Released
    BY <1>4, <2>2 DEF UeSessions!PathIInv, UeSessions!Cut, UeSessions!Resuming
  <2>4. ~UeSessions(B)!Carries(v6', "context")
    BY <1>1, <2>3, Pops DEF UeSessions!Released
  <2>5. UeSessions(B)!Released'
    BY <1>3, <2>1, <2>3, <2>4 DEF UeSessions!Released, UeSessions!Deactivated
  <2>6. UeSessions(B)!ReturnsLast'
    BY <1>3, <2>2 DEF UeSessions!ReturnsLast, UeSessions!Carries
  <2>7. UeSessions(B)!Connections'
    BY <1>3, <2>1, <2>6 DEF UeSessions!PathIInv, UeSessions!Connections, UeSessions!Guarding, UeSessions!Apart, UeSessions!Nothing
  <2>q. QED
    BY <2>5, <2>7 DEF UeSessions!PathIInv
<1>q. QED
  BY <1>5, <1>6

LEMMA GnbResumesKeeps ==
    ASSUME NEW CONSTANT B, UeSessions(B)!SessionTypes, UeSessions(B)!PathIInv, NEW refused \in SUBSET B.psis, UeSessions(B)!GnbResumes(refused)
    PROVE  UeSessions(B)!PathIInv'
<1> USE SessionRecords
<1>0. PICK m : m = Head(v6)
  OBVIOUS
<1>1. /\ v6 # <<>> /\ v6' = Tail(v6) /\ m \in UeSessions(B)!Downlink /\ m.k = "context" /\ Head(v6) = m /\ m = v6[1]
  BY <1>0, Takes DEF UeSessions!GnbResumes
<1>2. 1 \in DOMAIN v6 /\ \A i \in DOMAIN v6' : i \in Nat /\ 1 < i + 1 /\ i + 1 \in DOMAIN v6 /\ v6'[i] = v6[i + 1]
  BY <1>1, SeqTail
<1>3. UeSessions(B)!Resuming
  <2>1. ~UeSessions(B)!Together
    BY <1>1, <1>2 DEF UeSessions!Together, UeSessions!Linked, UeSessions!DownOfLink
  <2>2. UeSessions(B)!Carries(v6, "context")
    BY <1>1, <1>2 DEF UeSessions!Carries
  <2>q. QED
    BY <2>1, <2>2 DEF UeSessions!PathIInv, UeSessions!Cut, UeSessions!Released
<1>4. UeSessions(B)!ResumesAt(1)
  <2>1. PICK c \in DOMAIN v6 : UeSessions(B)!ResumesAt(c)
    BY <1>3 DEF UeSessions!Resuming
  <2>2. c \in Nat \ {0} /\ ~(1 < c)
    BY <1>1, <1>2, <2>1 DEF UeSessions!ResumesAt
  <2>3. c = 1
    BY <2>2
  <2>q. QED
    BY <2>1, <2>3
<1>5. PICK r : r = [k |-> "contextResponse", id |-> m.id, ses |-> v3'.ses, refused |-> refused]
  OBVIOUS
<1>6. /\ v5' = Append(<<>>, r) /\ r.k = "contextResponse" /\ r.id = v1.id /\ r.ses = v3'.ses /\ r.refused = refused
      /\ UNCHANGED <<v1, v2, v7, v8, v9, v10, v11, v12>>
      /\ v4'.cm = "connected" /\ v4'.ses = m.active /\ v4'.asked = {} /\ v3'.id = v1.id
  <2>1. v5 = <<>> /\ v3.id = 0 /\ m.active \subseteq v4.ses /\ m.id = v1.id
    BY <1>1, <1>3, <1>4 DEF UeSessions!Resuming, UeSessions!ResumesAt
  <2>2. v4.asked = {}
    BY <2>1 DEF UeSessions!PathIInv, UeSessions!Connections, UeSessions!Apart
  <2>q. QED
    BY <1>0, <1>5, <2>1, <2>2 DEF UeSessions!GnbResumes
<1>7. DOMAIN v3'.ses = m.psis \ refused
  <2>1. PICK n : v3'.ses \in UeSessions(B)!Injection(m.psis \ refused, v3.made + 1 .. n)
    BY <1>0 DEF UeSessions!GnbResumes
  <2>q. QED
    BY <2>1 DEF UeSessions!Injection
<1>8. UeSessions(B)!Connections'
  <2>1. DOMAIN v5' = {1} /\ v5'[1] = r
    BY <1>6
  <2>2. UeSessions(B)!ReturnsLast'
    BY <1>6, <2>1 DEF UeSessions!ReturnsLast
  <2>q. QED
    BY <1>6, <2>2 DEF UeSessions!PathIInv, UeSessions!Connections, UeSessions!Guarding, UeSessions!Apart
<1>9. UeSessions(B)!Linked'
  <2>1. DOMAIN v5' = {1} /\ v5'[1] = r
    BY <1>6
  <2>2. UeSessions(B)!UpOfLink'
    BY <1>6, <2>1 DEF UeSessions!UpOfLink
  <2>3. UeSessions(B)!DownOfLink'
    BY <1>2, <1>4, <1>6 DEF UeSessions!DownOfLink, UeSessions!ResumesAt
  <2>q. QED
    BY <1>3, <1>6, <2>2, <2>3 DEF UeSessions!Linked, UeSessions!Resuming
<1>10. ASSUME NEW p \in B.psis PROVE UeSessions(B)!ThePath(p)'
  <2>1. /\ \A k : UeSessions(B)!Has(v5', k, p) <=> UeSessions(B)!Of(r, k, p)
        /\ UeSessions(B)!Reported(v5', p) <=> UeSessions(B)!Reports(r, p)
        /\ UeSessions(B)!Refused(v5', p) <=> p \in refused
        /\ UeSessions(B)!AsksLast(v5', p)
        /\ (UeSessions(B)!Reports(r, p) => p \in DOMAIN v3'.ses /\ UeSessions(B)!TunnelIn(r, p) = v3'.ses[p]) => UeSessions(B)!Tells(v5', p, v3'.ses)
    <3> DEFINE S == {r}
    <3>1. <<>> \in Seq(S) /\ r \in S
      OBVIOUS
    <3> HIDE DEF S
    <3>2. /\ \A k : UeSessions(B)!Has(Append(<<>>, r), k, p) <=> UeSessions(B)!Has(<<>>, k, p) \/ UeSessions(B)!Of(r, k, p)
          /\ UeSessions(B)!Reported(Append(<<>>, r), p) <=> UeSessions(B)!Reported(<<>>, p) \/ UeSessions(B)!Reports(r, p)
          /\ UeSessions(B)!Refused(Append(<<>>, r), p) <=> UeSessions(B)!Refused(<<>>, p) \/ (r.k = "contextResponse" /\ p \in r.refused)
          /\ UeSessions(B)!AsksLast(<<>>, p) /\ (UeSessions(B)!Has(<<>>, "establish", p) => ~UeSessions(B)!Speaks(r, p)) => UeSessions(B)!AsksLast(Append(<<>>, r), p)
          /\ \A ses : UeSessions(B)!Tells(<<>>, p, ses) /\ (UeSessions(B)!Reports(r, p) => p \in DOMAIN ses /\ UeSessions(B)!TunnelIn(r, p) = ses[p])
              => UeSessions(B)!Tells(Append(<<>>, r), p, ses)
      BY <3>1, Appends
    <3>3. /\ \A k : ~UeSessions(B)!Has(<<>>, k, p) /\ ~UeSessions(B)!Reported(<<>>, p) /\ ~UeSessions(B)!Refused(<<>>, p) /\ UeSessions(B)!AsksLast(<<>>, p)
          /\ \A ses : UeSessions(B)!Tells(<<>>, p, ses)
      BY Empties
    <3>q. QED
      BY <1>6, <3>2, <3>3
  <2>2. /\ \A k \in {"establish", "complete"} : ~UeSessions(B)!Has(v5', k, p)
        /\ UeSessions(B)!Reported(v5', p) <=> p \in DOMAIN v3'.ses
        /\ UeSessions(B)!Tells(v5', p, v3'.ses)
    BY <1>6, <2>1 DEF UeSessions!Of, UeSessions!Reports, UeSessions!TunnelIn
  <2>3. /\ ~UeSessions(B)!Has(v6', "setup", p) /\ ~UeSessions(B)!Has(v6', "reject", p) /\ UeSessions(B)!AnsweredOnce(v6', p)
        /\ UeSessions(B)!Followed(v6', "setup", "release", p)
    <3>1. \A i \in DOMAIN v6' : v6'[i].k \in {"release", "modify"}
      BY <1>2, <1>4 DEF UeSessions!ResumesAt
    <3>q. QED
      BY <3>1 DEF UeSessions!Has, UeSessions!AnsweredOnce, UeSessions!Followed, UeSessions!Answers, UeSessions!Of
  <2>4. (UeSessions(B)!Held(p)' <=> UeSessions(B)!Held(p)) /\ (UeSessions(B)!Due(p)' <=> UeSessions(B)!Due(p)) /\ (UeSessions(B)!Active(p)' <=> UeSessions(B)!Active(p))
    BY <1>6 DEF UeSessions!Held, UeSessions!Due, UeSessions!Active, UeSessions!Guarded
  <2>5. UeSessions(B)!Active(p) => UeSessions(B)!Followed(v6', "release", "setup", p)
    <3>1. ASSUME NEW i \in DOMAIN v6', v6'[i].k = "release", v6'[i].psi \in DOMAIN v1.refs PROVE v6'[i].psi \in v1.releasing
      <4>1. i + 1 \in DOMAIN v6 /\ 1 < i + 1 /\ v6[i + 1] = v6'[i]
        BY <1>2
      <4>q. QED
        BY <1>4, <3>1, <4>1 DEF UeSessions!ResumesAt
    <3>2. ASSUME UeSessions(B)!Active(p) PROVE \A i \in DOMAIN v6' : ~UeSessions(B)!Of(v6'[i], "release", p)
      BY <3>1, <3>2 DEF UeSessions!Of, UeSessions!Active
    <3>q. QED
      BY <3>2 DEF UeSessions!Followed
  <2>6. p \in DOMAIN v3'.ses => p \in m.active /\ p \notin refused
    BY <1>1, <1>4, <1>7 DEF UeSessions!ResumesAt
  <2>7. p \notin DOMAIN v1.refs \/ UeSessions(B)!Due(p) => UeSessions(B)!Cleared(p)'
    <3>1. ASSUME p \in m.active, p \notin DOMAIN v1.refs \/ UeSessions(B)!Due(p) PROVE UeSessions(B)!Has(v6', "release", p)
      <4>1. PICK i \in DOMAIN v6 : 1 < i /\ UeSessions(B)!Of(v6[i], "release", p)
        BY <1>1, <1>4, <3>1 DEF UeSessions!ResumesAt
      <4>2. i - 1 \in DOMAIN v6' /\ v6'[i - 1] = v6[(i - 1) + 1] /\ (i - 1) + 1 = i
        BY <1>1, <4>1, SeqTail
      <4>q. QED
        BY <4>1, <4>2 DEF UeSessions!Has
    <3>q. QED
      BY <2>3, <2>6, <3>1 DEF UeSessions!Cleared
  <2>8. UeSessions(B)!Held(p) => p \in m.active
    BY <1>1, <1>4 DEF UeSessions!ResumesAt
  <2>9. UeSessions(B)!Active(p) /\ ~UeSessions(B)!Reported(v5', p) /\ v1.refs[p] \in DOMAIN v2 \ v11 => v2[v1.refs[p]].dl = UeSessions(B)!Tunnel(p)'
    BY <1>3, <2>2 DEF UeSessions!Resuming, UeSessions!Deactivated, UeSessions!Active, UeSessions!Tunnel
  <2>10. ~UeSessions(B)!Asking(p)' /\ ~UeSessions(B)!Answering(p)'
    BY <2>2, <2>3 DEF UeSessions!Asking, UeSessions!Answering
  <2>q. QED
    BY <1>6, <2>1, <2>2, <2>3, <2>4, <2>5, <2>6, <2>7, <2>8, <2>9, <2>10 DEF UeSessions!ThePath
<1>11. UeSessions(B)!Together'
  BY <1>9, <1>10 DEF UeSessions!Together
<1>q. QED
  BY <1>8, <1>11 DEF UeSessions!PathIInv

LEMMA GnbEndsKeeps ==
    ASSUME NEW CONSTANT B, UeSessions(B)!SessionTypes, UeSessions(B)!PathIInv, UeSessions(B)!GnbAsksRelease \/ UeSessions(B)!GnbResets
    PROVE  UeSessions(B)!PathIInv'
<1> USE SessionRecords
<1>0. v3.id # 0 /\ ~UeSessions(B)!Carries(v5, "return") /\ ~UeSessions(B)!Cut /\ ~UeSessions(B)!Resuming
  BY NoReturn DEF UeSessions!GnbAsksRelease, UeSessions!GnbResets, UeSessions!Cut, UeSessions!Resuming
<1>1. ASSUME UeSessions(B)!GnbAsksRelease PROVE UeSessions(B)!PathIInv'
  <2>0. PICK m : m = [k |-> "releaseRequest", id |-> v3.id]
    OBVIOUS
  <2>1. /\ m \in UeSessions(B)!Uplink /\ m.k = "releaseRequest" /\ m.id = v3.id /\ v5' = Append(v5, m)
        /\ UNCHANGED <<v1, v2, v3, v4, v6, v7, v8, v9, v10, v11, v12>>
    BY <1>1, <2>0 DEF UeSessions!GnbAsksRelease, UeSessions!Uplink
  <2>2. UeSessions(B)!Connections'
    BY <1>0, <2>1, GuardingStays, ConnectionStays
  <2>3. ASSUME UeSessions(B)!Together PROVE UeSessions(B)!Together'
    <3>1. UeSessions(B)!Linked /\ m.id = v1.id
      BY <2>1, <2>3 DEF UeSessions!Together, UeSessions!Linked
    <3>2. UeSessions(B)!Linked'
      BY <2>1, <3>1, LinkStays
    <3>3. \A q \in B.psis : ~UeSessions(B)!Speaks(m, q)
      BY <2>1, SaysNothing
    <3>4. \A q \in B.psis : UeSessions(B)!RadioKept(q) /\ UeSessions(B)!EntryKept(q) /\ UeSessions(B)!TunnelKept(q)
      BY <2>1, Unmoved
    <3>5. \A q \in B.psis : UeSessions(B)!ThePath(q)'
      BY <2>1, <2>3, <3>3, <3>4, OthersStay
    <3>q. QED
      BY <3>2, <3>5 DEF UeSessions!Together
  <2>4. UeSessions(B)!Released => UeSessions(B)!Released'
    BY <2>1 DEF UeSessions!Released, UeSessions!Deactivated, UeSessions!Carries, UeSessions!LetsGo
  <2>q. QED
    BY <1>0, <2>2, <2>3, <2>4 DEF UeSessions!PathIInv
<1>2. ASSUME UeSessions(B)!GnbResets PROVE UeSessions(B)!PathIInv'
  <2>0. PICK m : m = [k |-> "reset", id |-> 0]
    OBVIOUS
  <2>1. /\ m \in UeSessions(B)!Uplink /\ m.k = "reset" /\ v5' = Append(v5, m) /\ UeSessions(B)!Spend("lost")
        /\ UNCHANGED <<v1, v2, v6, v7, v8, v9, v10, v11>>
        /\ v3'.id = 0 /\ v3'.ses = UeSessions(B)!Nothing /\ v4'.cm = "idle" /\ v4'.asked = {}
    BY <1>2, <2>0 DEF UeSessions!GnbResets, UeSessions!GnbIdle, UeSessions!Uplink
  <2>2. v12'.connections = v12.connections
    BY <2>1, Spends DEF UeSessions!SessionTypes
  <2>3. UeSessions(B)!ReturnsLast'
    <3>1. UeSessions(B)!ReturnsLast
      BY DEF UeSessions!PathIInv, UeSessions!Connections
    <3>q. QED
      BY <1>0, <2>1, <2>2, <3>1, ReturnStays
  <2>4. UeSessions(B)!Connections'
    BY <2>1, <2>2, <2>3 DEF UeSessions!PathIInv, UeSessions!Connections, UeSessions!Guarding, UeSessions!Apart, UeSessions!Nothing
  <2>5. UeSessions(B)!Together => UeSessions(B)!Cut'
    <3>1. UeSessions(B)!Carries(v5', "reset")
      BY <2>1, Appends
    <3>2. UeSessions(B)!Together => ~UeSessions(B)!Carries(v6, "context")
      BY DEF UeSessions!Together, UeSessions!Linked, UeSessions!DownOfLink, UeSessions!Carries
    <3>q. QED
      BY <2>1, <3>1, <3>2 DEF UeSessions!Together, UeSessions!Linked, UeSessions!Cut
  <2>6. UeSessions(B)!Released => UeSessions(B)!Released'
    BY <2>1 DEF UeSessions!Released, UeSessions!Deactivated, UeSessions!Carries
  <2>q. QED
    BY <1>0, <2>4, <2>5, <2>6 DEF UeSessions!PathIInv
<1>q. QED
  BY <1>1, <1>2

LEMMA UeIdleKeeps ==
    ASSUME NEW CONSTANT B, UeSessions(B)!SessionTypes, UeSessions(B)!PathIInv,
           \/ \E p \in B.psis : UeSessions(B)!UeForgets(p)
           \/ \E kind \in B.returns, data \in SUBSET B.psis : UeSessions(B)!UeReturns(kind, data)
    PROVE  UeSessions(B)!PathIInv'
<1> USE SessionRecords
<1>0. v4.cm = "idle"
  BY DEF UeSessions!UeForgets, UeSessions!UeReturns
<1>1. v3.id = 0 /\ ~UeSessions(B)!Carries(v5, "return") /\ ~UeSessions(B)!Together /\ ~UeSessions(B)!Resuming
  <2>1. v3.id = 0 /\ ~UeSessions(B)!Carries(v5, "return")
    BY <1>0 DEF UeSessions!PathIInv, UeSessions!Connections, UeSessions!ReturnsLast, UeSessions!Carries
  <2>q. QED
    BY <1>0, <2>1 DEF UeSessions!Together, UeSessions!Linked, UeSessions!Resuming
<1>2. ASSUME NEW p \in B.psis, UeSessions(B)!UeForgets(p) PROVE UeSessions(B)!PathIInv'
  <2>1. /\ UNCHANGED <<v1, v2, v3, v5, v6, v7, v8, v9, v10, v11>> /\ UeSessions(B)!Spend("forgets")
        /\ v4'.cm = v4.cm /\ v4'.asked = v4.asked
    BY <1>2 DEF UeSessions!UeForgets
  <2>2. v12'.connections = v12.connections
    BY <2>1, Spends DEF UeSessions!SessionTypes
  <2>3. UeSessions(B)!Connections'
    BY <1>1, <2>1, <2>2, GuardingStays, ConnectionStays
  <2>4. (UeSessions(B)!Cut => UeSessions(B)!Cut') /\ (UeSessions(B)!Released => UeSessions(B)!Released')
    BY <1>1, <2>1 DEF UeSessions!Cut, UeSessions!Released, UeSessions!Deactivated, UeSessions!Carries, UeSessions!LetsGo
  <2>q. QED
    BY <1>1, <2>3, <2>4 DEF UeSessions!PathIInv
<1>3. ASSUME NEW kind \in B.returns, NEW data \in SUBSET B.psis, UeSessions(B)!UeReturns(kind, data) PROVE UeSessions(B)!PathIInv'
  <2>0. PICK m : m = [k |-> "return", id |-> 0, kind |-> kind, status |-> v4.ses, data |-> data]
    OBVIOUS
  <2>1. /\ m \in UeSessions(B)!Uplink /\ m.k = "return" /\ m.status = v4.ses /\ v5' = Append(v5, m) /\ UeSessions(B)!Spend("connections")
        /\ UNCHANGED <<v1, v2, v3, v6, v7, v8, v9, v10, v11>>
        /\ v4'.cm = "returning" /\ v4'.asked = v4.asked /\ v4'.ses = v4.ses
    BY <1>3, <2>0 DEF UeSessions!UeReturns, UeSessions!Uplink
  <2>2. v12'.connections = v12.connections + 1 /\ v12.connections \in Nat
    BY <2>1, Spends DEF UeSessions!SessionTypes, UeSessions!BoundTypes, UeSessions!Positive
  <2>3. UeSessions(B)!ReturnsLast'
    <3> SUFFICES ASSUME NEW i \in DOMAIN v5', v5'[i].k = "return"
                 PROVE  /\ i = Len(v5') /\ v1.id < v12'.connections
                        /\ v5'[i].status = v4.ses
      BY <1>1, <2>1 DEF UeSessions!ReturnsLast
    <3>1. v1.id <= v12.connections /\ v1.id \in Nat
      BY DEF UeSessions!PathIInv, UeSessions!Connections
    <3>2. i = Len(v5) + 1 /\ v5'[i] = m /\ Len(v5') = Len(v5) + 1
      <4>1. i \in DOMAIN v5 => v5'[i] = v5[i] /\ v5[i].k # "return"
        BY <1>1, <2>1, SeqAppend DEF UeSessions!Carries
      <4>q. QED
        BY <2>1, <4>1, SeqAppend
    <3>q. QED
      BY <2>1, <2>2, <3>1, <3>2
  <2>4. UeSessions(B)!Connections'
    <3>1. v1.id <= v12'.connections
      BY <2>2 DEF UeSessions!PathIInv, UeSessions!Connections
    <3>q. QED
      BY <1>0, <1>1, <2>1, <2>3, <3>1 DEF UeSessions!PathIInv, UeSessions!Connections, UeSessions!Guarding, UeSessions!Apart
  <2>5. UeSessions(B)!Cut => UeSessions(B)!Cut'
    <3>1. UeSessions(B)!Carries(v5, "reset") => UeSessions(B)!Carries(v5', "reset")
      <4>1. \A i \in DOMAIN v5 : i \in DOMAIN v5' /\ v5'[i] = v5[i]
        BY <2>1, SeqAppend
      <4>q. QED
        BY <4>1 DEF UeSessions!Carries
    <3>q. QED
      BY <1>1, <2>1, <3>1 DEF UeSessions!Cut
  <2>6. UeSessions(B)!Released => UeSessions(B)!Released'
    BY <1>1, <2>1 DEF UeSessions!Released, UeSessions!Deactivated, UeSessions!Carries, UeSessions!LetsGo
  <2>q. QED
    BY <1>1, <2>4, <2>5, <2>6 DEF UeSessions!PathIInv
<1>q. QED
  BY <1>2, <1>3

\* A message the AMF takes, and answers at most with a message of the session.
LEMMA AmfTakes ==
    ASSUME NEW CONSTANT B, UeSessions(B)!SessionTypes, UeSessions(B)!PathIInv, v5 # <<>>, v5' = Tail(v5)
    PROVE  /\ ~UeSessions(B)!Resuming
           /\ UeSessions(B)!Cut /\ v1'.cm = "connected" /\ v3'.id = v3.id /\ Head(v5).k # "reset"
                /\ (v6' = v6 \/ \E m \in UeSessions(B)!Downlink : v6' = Append(v6, m) /\ m.k # "context") => UeSessions(B)!Cut'
           /\ UeSessions(B)!Released /\ UNCHANGED <<v1, v2, v11, v3, v6>> => UeSessions(B)!Released'
<1>1. ~UeSessions(B)!Resuming
  BY DEF UeSessions!Resuming
<1>2. ASSUME UeSessions(B)!Cut, v1'.cm = "connected", v3'.id = v3.id, Head(v5).k # "reset",
             v6' = v6 \/ \E m \in UeSessions(B)!Downlink : v6' = Append(v6, m) /\ m.k # "context"
      PROVE  UeSessions(B)!Cut'
  <2>1. v5 \in Seq(UeSessions(B)!Uplink) /\ v6 \in Seq(UeSessions(B)!Downlink)
    BY SessionRecords
  <2>2. UeSessions(B)!Carries(v5', "reset")
    BY <1>2, <2>1, Pops DEF UeSessions!Cut
  <2>3. ~UeSessions(B)!Carries(v6', "context")
    <3>1. \A i \in DOMAIN v6 : v6[i].k # "context"
      BY <1>2 DEF UeSessions!Cut, UeSessions!Carries
    <3>2. ASSUME NEW n \in UeSessions(B)!Downlink, v6' = Append(v6, n), n.k # "context" PROVE ~UeSessions(B)!Carries(v6', "context")
      BY <2>1, <3>1, <3>2, SeqAppend DEF UeSessions!Carries
    <3>q. QED
      BY <1>2, <3>1, <3>2 DEF UeSessions!Carries
  <2>q. QED
    BY <1>2, <2>2, <2>3 DEF UeSessions!Cut
<1>3. UeSessions(B)!Released /\ UNCHANGED <<v1, v2, v11, v3, v6>> => UeSessions(B)!Released'
  BY DEF UeSessions!Released, UeSessions!Deactivated, UeSessions!Carries, UeSessions!LetsGo
<1>q. QED
  BY <1>1, <1>2, <1>3

\* What CreateSMContext leaves.
LEMMA EstablishedIs ==
    ASSUME NEW CONSTANT B, UeSessions(B)!SessionTypes, NEW m, m.psi \in B.psis, m.id \in Nat \ {0},
           NEW how \in {"created", "refused", "unanswered"}, UeSessions(B)!Established(m, how)
    PROVE  /\ v1'.cm = v1.cm /\ v1'.id = v1.id /\ v1'.releasing = v1.releasing
           /\ v12'.connections = v12.connections
           /\ \A q \in DOMAIN v1.refs : v1.refs[q] \in DOMAIN v2' => v2'[v1.refs[q]] = v2[v1.refs[q]] /\ v1.refs[q] \in DOMAIN v2
           /\ \E n \in UeSessions(B)!Downlink :
                /\ v6' = Append(v6, n) /\ n.id = m.id /\ n.psi = m.psi
                /\ IF how = "created"
                   THEN /\ n.k = "setup" /\ DOMAIN v1'.refs = DOMAIN v1.refs \cup {m.psi}
                        /\ \A q \in DOMAIN v1.refs \ {m.psi} : v1'.refs[q] = v1.refs[q]
                        /\ v2'[v1'.refs[m.psi]].dl = 0
                   ELSE n.k = "reject" /\ v1'.refs = v1.refs
<1> USE SessionRecords
<1>0. PICK r, w : r = v12.refs + 1 /\ w = [psi |-> m.psi, dl |-> 0]
  OBVIOUS
<1>1. v12.refs \in Nat /\ {"refs", "connections", "failed"} \subseteq DOMAIN v12
  BY DEF UeSessions!SessionTypes, UeSessions!BoundTypes
<1>2. \A q \in DOMAIN v1.refs : v1.refs[q] # r
  BY <1>0, <1>1
<1>3. PICK s, j : /\ s = [k |-> "setup", id |-> m.id, psi |-> m.psi]
                  /\ j = [k |-> "reject", id |-> m.id, psi |-> m.psi]
  OBVIOUS
<1>4. /\ s \in UeSessions(B)!Downlink /\ s.k = "setup" /\ s.id = m.id /\ s.psi = m.psi
      /\ j \in UeSessions(B)!Downlink /\ j.k = "reject" /\ j.id = m.id /\ j.psi = m.psi
  BY <1>3 DEF UeSessions!Downlink, UeSessions!About, UeSessions!Positive
<1>5. /\ DOMAIN UeSessions(B)!Put(v2, r, w) = DOMAIN v2 \cup {r} /\ UeSessions(B)!Put(v2, r, w)[r] = w
      /\ \A x \in DOMAIN v2 \ {r} : UeSessions(B)!Put(v2, r, w)[x] = v2[x]
  BY DEF UeSessions!Put
<1>6. /\ DOMAIN UeSessions(B)!Put(v1.refs, m.psi, r) = DOMAIN v1.refs \cup {m.psi} /\ UeSessions(B)!Put(v1.refs, m.psi, r)[m.psi] = r
      /\ \A x \in DOMAIN v1.refs \ {m.psi} : UeSessions(B)!Put(v1.refs, m.psi, r)[x] = v1.refs[x]
  BY DEF UeSessions!Put
<1>7. CASE how = "refused"
  <2>1. v6' = Append(v6, j) /\ UNCHANGED <<v1, v2, v12>>
    BY <1>3, <1>7 DEF UeSessions!Established
  <2>q. QED
    BY <1>4, <1>7, <2>1
<1>8. CASE how # "refused"
  <2>1. v2' = UeSessions(B)!Put(v2, r, w)
    BY <1>0, <1>8 DEF UeSessions!Established
  <2>2. \A q \in DOMAIN v1.refs : v1.refs[q] \in DOMAIN v2' => v2'[v1.refs[q]] = v2[v1.refs[q]] /\ v1.refs[q] \in DOMAIN v2
    BY <1>2, <1>5, <2>1
  <2>3. CASE how = "created"
    <3>1. /\ v1' = [v1 EXCEPT !.refs = UeSessions(B)!Put(v1.refs, m.psi, r)] /\ v6' = Append(v6, s)
          /\ v12' = [v12 EXCEPT !.refs = r]
      BY <1>0, <1>3, <2>3 DEF UeSessions!Established
    <3>2. /\ v1'.cm = v1.cm /\ v1'.id = v1.id /\ v1'.releasing = v1.releasing /\ v1'.refs = UeSessions(B)!Put(v1.refs, m.psi, r)
          /\ v12'.connections = v12.connections
      BY <1>1, <3>1
    <3>3. v2'[v1'.refs[m.psi]].dl = 0
      BY <1>0, <1>5, <1>6, <2>1, <3>2
    <3>q. QED
      BY <1>4, <1>6, <2>2, <2>3, <3>1, <3>2, <3>3
  <2>4. CASE how = "unanswered"
    <3>1. UNCHANGED v1 /\ v6' = Append(v6, j) /\ v12' = [v12 EXCEPT !.refs = r, !.failed = v12.failed + 1]
      BY <1>0, <1>3, <2>4 DEF UeSessions!Established
    <3>2. v12'.connections = v12.connections
      BY <1>1, <3>1
    <3>q. QED
      BY <1>4, <2>2, <2>4, <3>1, <3>2
  <2>q. QED
    BY <1>8, <2>3, <2>4
<1>q. QED
  BY <1>7, <1>8

LEMMA EstablishedKeeps ==
    ASSUME NEW CONSTANT B, UeSessions(B)!SessionTypes, UeSessions(B)!PathIInv, NEW how \in {"created", "refused", "unanswered"}, UeSessions(B)!OnUlNasTransport(how)
    PROVE  UeSessions(B)!PathIInv'
<1> USE SessionRecords
<1>0. PICK m, p : m = Head(v5) /\ p = m.psi
  OBVIOUS
<1>1. /\ v5 # <<>> /\ v5' = Tail(v5) /\ m \in UeSessions(B)!Uplink /\ m.k = "establish" /\ Head(v5) = m /\ m = v5[1] /\ 1 \in DOMAIN v5
  <2>1. /\ v5 # <<>> /\ v5' = Tail(v5) /\ m \in UeSessions(B)!Uplink /\ m = v5[1] /\ 1 \in DOMAIN v5
    BY <1>0, SeqTail DEF UeSessions!OnUlNasTransport
  <2>2. m.k \in {"establish", "modified"}
    BY <1>0 DEF UeSessions!OnUlNasTransport
  <2>q. QED
    BY <1>0, <2>1, <2>2, UplinkIs
<1>2. p \in B.psis /\ m.id \in Nat
  BY <1>0, <1>1, UplinkIs
<1>3. UNCHANGED <<v3, v4, v7, v8, v9, v11>>
  BY DEF UeSessions!OnUlNasTransport
<1>4. CASE ~UeSessions(B)!Known(m.id)
  <2>1. UNCHANGED <<v1, v2, v10, v6, v12>>
    BY <1>0, <1>4 DEF UeSessions!OnUlNasTransport
  <2>2. ~UeSessions(B)!Together
    BY <1>1, <1>4 DEF UeSessions!Together, UeSessions!Linked, UeSessions!UpOfLink, UeSessions!Known
  <2>3. (UeSessions(B)!Cut => UeSessions(B)!Cut') /\ (UeSessions(B)!Released => UeSessions(B)!Released') /\ ~UeSessions(B)!Resuming
    BY <1>1, <1>3, <2>1, AmfTakes DEF UeSessions!Cut
  <2>4. UeSessions(B)!Connections'
    BY <1>1, <1>3, <2>1, GuardingStays, ConnectionStays
  <2>q. QED
    BY <2>2, <2>3, <2>4 DEF UeSessions!PathIInv
<1>5. CASE UeSessions(B)!Known(m.id)
  <2>0. UeSessions(B)!Established(m, how) /\ m.id \in Nat \ {0} /\ m.id = v1.id
    BY <1>0, <1>5 DEF UeSessions!OnUlNasTransport, UeSessions!Known
  <2>1. /\ v1'.cm = v1.cm /\ v1'.id = v1.id /\ v1'.releasing = v1.releasing
        /\ v12'.connections = v12.connections
        /\ \A q \in DOMAIN v1.refs : v1.refs[q] \in DOMAIN v2' => v2'[v1.refs[q]] = v2[v1.refs[q]] /\ v1.refs[q] \in DOMAIN v2
        /\ \E n \in UeSessions(B)!Downlink :
             /\ v6' = Append(v6, n) /\ n.id = m.id /\ n.psi = m.psi
             /\ IF how = "created"
                THEN /\ n.k = "setup" /\ DOMAIN v1'.refs = DOMAIN v1.refs \cup {m.psi}
                     /\ \A q \in DOMAIN v1.refs \ {m.psi} : v1'.refs[q] = v1.refs[q]
                     /\ v2'[v1'.refs[m.psi]].dl = 0
                ELSE n.k = "reject" /\ v1'.refs = v1.refs
    BY <1>0, <1>2, <2>0, EstablishedIs
  <2>2. PICK n \in UeSessions(B)!Downlink :
             /\ v6' = Append(v6, n) /\ n.id = m.id /\ n.psi = p /\ n.k \in {"setup", "reject"}
             /\ IF how = "created"
                THEN /\ n.k = "setup" /\ DOMAIN v1'.refs = DOMAIN v1.refs \cup {p}
                     /\ \A q \in DOMAIN v1.refs \ {p} : v1'.refs[q] = v1.refs[q]
                     /\ v2'[v1'.refs[p]].dl = 0
                ELSE n.k = "reject" /\ v1'.refs = v1.refs
    BY <1>0, <2>1
  <2>3. UeSessions(B)!Connections'
    <3>1. UeSessions(B)!Guarding'
      BY <1>3, <2>1, GuardingStays
    <3>q. QED
      BY <1>1, <1>3, <2>1, <3>1, ConnectionStays
  <2>4. ASSUME UeSessions(B)!Together PROVE UeSessions(B)!Together'
    <3>1. UeSessions(B)!Linked'
      BY <1>1, <1>3, <2>0, <2>1, <2>2, <2>4, LinkStays DEF UeSessions!Together
    <3>2. \A q \in B.psis \ {p} : UeSessions(B)!ThePath(q)'
      <4> DEFINE Q == B.psis \ {p}
      <4>1. \A q \in Q : ~UeSessions(B)!Speaks(m, q) /\ ~UeSessions(B)!Answers(n, q) /\ ~UeSessions(B)!Of(n, "release", q)
        BY <1>0, <1>1, <2>2 DEF UeSessions!Speaks, UeSessions!Of, UeSessions!Reports, UeSessions!Answers
      <4>2. \A q \in Q : UeSessions(B)!RadioKept(q)
        BY <1>3, Unmoved
      <4>3. \A q \in Q : UeSessions(B)!EntryKept(q) /\ UeSessions(B)!TunnelKept(q)
        BY <1>3, <2>1, <2>2 DEF UeSessions!EntryKept, UeSessions!TunnelKept, UeSessions!Guarded
      <4>4. Q \in SUBSET B.psis
        OBVIOUS
      <4> HIDE DEF Q
      <4>5. \A q \in Q : UeSessions(B)!ThePath(q)'
        <5>1. UeSessions(B)!SessionTypes
          OBVIOUS
        <5>q. QED
          BY ONLY <1>1, <2>2, <2>4, <4>1, <4>2, <4>3, <4>4, <5>1, OthersStay
      <4>q. QED
        BY <4>5 DEF Q
    <3>3. UeSessions(B)!ThePath(p)'
      <4>1. UeSessions(B)!ThePath(p)
        BY <1>2, <2>4 DEF UeSessions!Together
      <4>2. /\ UeSessions(B)!Of(m, "establish", p) /\ ~UeSessions(B)!Of(m, "complete", p)
            /\ (UeSessions(B)!Of(n, "setup", p) <=> n.k = "setup") /\ (UeSessions(B)!Of(n, "reject", p) <=> n.k = "reject") /\ ~UeSessions(B)!Of(n, "release", p)
        BY <1>0, <1>1, <2>2 DEF UeSessions!Of
      <4>3. /\ UeSessions(B)!Asking(p) /\ ~UeSessions(B)!Asking(p)' /\ ~UeSessions(B)!Has(v5', "complete", p) /\ ~UeSessions(B)!Reported(v5', p) /\ ~UeSessions(B)!Has(v5, "complete", p)
            /\ UeSessions(B)!AsksLast(v5', p) /\ (UeSessions(B)!Refused(v5', p) => UeSessions(B)!Refused(v5, p)) /\ UeSessions(B)!Tells(v5', p, v3'.ses)
        <5>1. UeSessions(B)!AsksLast(v5, p)
          BY <4>1 DEF UeSessions!ThePath
        <5>2. /\ UeSessions(B)!Has(v5, "establish", p) /\ ~UeSessions(B)!Has(v5', "establish", p) /\ ~UeSessions(B)!Has(v5', "complete", p) /\ ~UeSessions(B)!Reported(v5', p)
              /\ (UeSessions(B)!Has(v5, "complete", p) <=> UeSessions(B)!Of(m, "complete", p) \/ UeSessions(B)!Has(v5', "complete", p))
              /\ UeSessions(B)!AsksLast(v5', p) /\ (UeSessions(B)!Refused(v5', p) => UeSessions(B)!Refused(v5, p))
          BY <1>1, <4>2, <5>1, UpTaken
        <5>3. UeSessions(B)!Tells(v5', p, v3'.ses)
          BY <5>2 DEF UeSessions!Tells, UeSessions!Reported
        <5>q. QED
          BY <4>2, <5>2, <5>3 DEF UeSessions!Asking
      <4>4. ~UeSessions(B)!Carries(v5', "contextResponse")
        <5>1. \A i \in DOMAIN v5' : i + 1 \in DOMAIN v5 /\ v5'[i] = v5[i + 1] /\ i \in Nat \ {0}
          BY <1>1, SeqTail
        <5>q. QED
          BY <2>4, <5>1 DEF UeSessions!Together, UeSessions!Linked, UeSessions!UpOfLink, UeSessions!Carries
      <4>5. /\ ~UeSessions(B)!Held(p) /\ p \notin DOMAIN v1.refs /\ ~UeSessions(B)!Due(p) /\ UeSessions(B)!Cleared(p) /\ ~UeSessions(B)!Answering(p)
            /\ p \in v4.asked /\ p \notin v4.ses /\ p \notin DOMAIN v3.ses
        BY <4>1, <4>3 DEF UeSessions!ThePath, UeSessions!Held
      <4>6. ~UeSessions(B)!Due(p)'
        BY <1>3, <2>1, <4>5 DEF UeSessions!Due, UeSessions!Guarded
      <4>7. /\ (UeSessions(B)!Has(v6', "setup", p) <=> n.k = "setup") /\ (UeSessions(B)!Has(v6', "reject", p) <=> n.k = "reject")
            /\ UeSessions(B)!AnsweredOnce(v6', p)
            /\ n.k = "setup" => UeSessions(B)!Followed(v6', "release", "setup", p)
            /\ n.k # "setup" => UeSessions(B)!Followed(v6', "setup", "release", p)
            /\ UeSessions(B)!Has(v6', "release", p) <=> UeSessions(B)!Has(v6, "release", p)
        <5>1. ~UeSessions(B)!Has(v6, "setup", p) /\ ~UeSessions(B)!Has(v6, "reject", p)
          BY <4>5 DEF UeSessions!Answering
        <5>2. UeSessions(B)!AnsweredOnce(v6, p) /\ UeSessions(B)!Followed(v6, "setup", "release", p)
          BY <4>1, <4>5 DEF UeSessions!ThePath, UeSessions!Cleared
        <5>q. QED
          BY <2>2, <4>2, <5>1, <5>2, Appends
      <4>8. p \in v4'.asked /\ p \notin v4'.ses /\ p \notin DOMAIN v3'.ses
        BY <1>3, <4>5
      <4>9. CASE how = "created"
        <5>1. n.k = "setup" /\ p \in DOMAIN v1'.refs /\ v2'[v1'.refs[p]].dl = 0
          BY <2>2, <4>9
        <5>2. UeSessions(B)!Tunnel(p)' = 0
          BY <4>8 DEF UeSessions!Tunnel
        <5>q. QED
          BY <4>3, <4>4, <4>6, <4>7, <4>8, <5>1, <5>2 DEF UeSessions!ThePath
      <4>10. CASE how # "created"
        <5>1. n.k = "reject" /\ p \notin DOMAIN v1'.refs
          BY <2>2, <4>5, <4>10
        <5>2. UeSessions(B)!Cleared(p)' /\ ~UeSessions(B)!Held(p)' /\ ~UeSessions(B)!Active(p)'
          BY <4>6, <4>7, <4>8, <5>1 DEF UeSessions!Cleared, UeSessions!Held, UeSessions!Active
        <5>q. QED
          BY <4>3, <4>4, <4>6, <4>7, <4>8, <5>1, <5>2 DEF UeSessions!ThePath
      <4>q. QED
        BY <4>9, <4>10
    <3>q. QED
      BY <1>2, <3>1, <3>2, <3>3 DEF UeSessions!Together
  <2>5. (UeSessions(B)!Cut => UeSessions(B)!Cut') /\ ~UeSessions(B)!Released /\ ~UeSessions(B)!Resuming
    BY <1>1, <1>3, <1>5, <2>1, <2>2, AmfTakes DEF UeSessions!Cut, UeSessions!Released, UeSessions!Known
  <2>q. QED
    BY <2>3, <2>4, <2>5 DEF UeSessions!PathIInv
<1>q. QED
  BY <1>4, <1>5

LEMMA ReleaseResponseKeeps ==
    ASSUME NEW CONSTANT B, UeSessions(B)!SessionTypes, UeSessions(B)!PathIInv, UeSessions(B)!on_release_response
    PROVE  UeSessions(B)!PathIInv'
<1> USE SessionRecords
<1>0. PICK m : m = Head(v5)
  OBVIOUS
<1>1. /\ v5 # <<>> /\ v5' = Tail(v5) /\ m.k = "releaseResponse" /\ Head(v5) = m
      /\ UNCHANGED <<v1, v2, v3, v4, v6, v7, v8, v9, v10, v11, v12>>
  BY <1>0, Takes DEF UeSessions!on_release_response
<1>2. UeSessions(B)!Connections'
  BY <1>1, GuardingStays, ConnectionStays
<1>3. ASSUME UeSessions(B)!Together PROVE UeSessions(B)!Together'
  <2>1. UeSessions(B)!Linked'
    BY <1>1, <1>3, LinkStays DEF UeSessions!Together
  <2>2. \A q \in B.psis : ~UeSessions(B)!Speaks(m, q)
    BY <1>1, SaysNothing
  <2>3. \A q \in B.psis : UeSessions(B)!RadioKept(q) /\ UeSessions(B)!EntryKept(q) /\ UeSessions(B)!TunnelKept(q)
    BY <1>1, Unmoved
  <2>4. \A q \in B.psis : UeSessions(B)!ThePath(q)'
    BY <1>1, <1>3, <2>2, <2>3, OthersStay
  <2>q. QED
    BY <2>1, <2>4 DEF UeSessions!Together
<1>4. (UeSessions(B)!Cut => UeSessions(B)!Cut') /\ (UeSessions(B)!Released => UeSessions(B)!Released') /\ ~UeSessions(B)!Resuming
  BY <1>1, AmfTakes DEF UeSessions!Cut
<1>q. QED
  BY <1>2, <1>3, <1>4 DEF UeSessions!PathIInv

\* What a release that is finalised leaves.
LEMMA FinalizeLeaves ==
    ASSUME NEW CONSTANT B, UeSessions(B)!SessionTypes, NEW id, NEW p, NEW ok \in BOOLEAN, UeSessions(B)!finalize_release(id, p, ok)
    PROVE  /\ v1'.cm = v1.cm /\ v1'.id = v1.id /\ v11' = v11 /\ v12'.connections = v12.connections
           /\ DOMAIN v2' \subseteq DOMAIN v2 /\ \A r \in DOMAIN v2' : v2'[r] = v2[r]
           /\ \A q : q # p => (q \in DOMAIN v1'.refs <=> q \in DOMAIN v1.refs) /\ (q \in v1'.releasing <=> q \in v1.releasing)
           /\ \A q \in DOMAIN v1'.refs : q \in DOMAIN v1.refs /\ v1'.refs[q] = v1.refs[q]
           /\ v1'.releasing \subseteq v1.releasing
           /\ IF UeSessions(B)!Known(id) /\ p \in v1.releasing
              THEN p \notin DOMAIN v1'.refs /\ p \notin v1'.releasing ELSE UNCHANGED <<v1, v2>>
<1> USE SessionRecords
<1>1. CASE ~(UeSessions(B)!Known(id) /\ p \in v1.releasing)
  <2>1. UNCHANGED <<v1, v2, v11, v12>>
    BY <1>1 DEF UeSessions!finalize_release
  <2>q. QED
    BY <1>1, <2>1
<1>2. CASE UeSessions(B)!Known(id) /\ p \in v1.releasing
  <2>1. PICK refs, bad : UeSessions(B)!release_sm_context(refs, bad)
    BY <1>2 DEF UeSessions!finalize_release
  <2>2. DOMAIN v2' = DOMAIN v2 \ (refs \ bad) /\ \A r \in DOMAIN v2' : v2'[r] = v2[r]
    <3>1. DOMAIN v2' = DOMAIN v2 \ (refs \ bad)
      BY <2>1 DEF UeSessions!release_sm_context, UeSessions!Drop
    <3>2. \A r \in DOMAIN v2' : v2'[r] = v2[r]
      BY <2>1, SmfReleased
    <3>q. QED
      BY <3>1, <3>2
  <2>3. /\ \E n \in Nat : UeSessions(B)!Failing(n)
        /\ v1' = [v1 EXCEPT !.refs = UeSessions(B)!Drop(v1.refs, {p}), !.releasing = v1.releasing \ {p}]
        /\ UNCHANGED v11
    BY <1>2 DEF UeSessions!finalize_release
  <2>4. v12'.connections = v12.connections
    BY <2>3, Spends DEF UeSessions!SessionTypes
  <2>5. /\ v1'.cm = v1.cm /\ v1'.id = v1.id /\ v1'.refs = UeSessions(B)!Drop(v1.refs, {p})
        /\ v1'.releasing = v1.releasing \ {p}
    BY <2>3
  <2>6. DOMAIN UeSessions(B)!Drop(v1.refs, {p}) = DOMAIN v1.refs \ {p} /\ \A q \in DOMAIN v1.refs \ {p} : UeSessions(B)!Drop(v1.refs, {p})[q] = v1.refs[q]
    BY DEF UeSessions!Drop
  <2>q. QED
    BY <1>2, <2>2, <2>3, <2>4, <2>5, <2>6
<1>q. QED
  BY <1>1, <1>2

\* A release is finalised when the UE has completed it, or when its guard runs out.
LEMMA FinalizeKeeps ==
    ASSUME NEW CONSTANT B, UeSessions(B)!SessionTypes, UeSessions(B)!PathIInv, NEW id, NEW p \in B.psis, NEW ok \in BOOLEAN, UeSessions(B)!finalize_release(id, p, ok),
           UNCHANGED <<v3, v4, v6>>, UeSessions(B)!Guarding', \A q : UeSessions(B)!Guarded(q)' => UeSessions(B)!Guarded(q),
           \A q \in B.psis \ {p} : UeSessions(B)!Guarded(q)' <=> UeSessions(B)!Guarded(q),
           \/ v5' = v5 /\ (UeSessions(B)!Known(id) /\ p \in v1.releasing => UeSessions(B)!Due(p))
           \/ v5 # <<>> /\ v5' = Tail(v5) /\ UeSessions(B)!Of(Head(v5), "complete", p) /\ Head(v5).id = id
    PROVE  UeSessions(B)!PathIInv'
<1> USE SessionRecords
<1>1. /\ v1'.cm = v1.cm /\ v1'.id = v1.id /\ v11' = v11 /\ v12'.connections = v12.connections
      /\ DOMAIN v2' \subseteq DOMAIN v2 /\ \A r \in DOMAIN v2' : v2'[r] = v2[r]
      /\ \A q : q # p => (q \in DOMAIN v1'.refs <=> q \in DOMAIN v1.refs) /\ (q \in v1'.releasing <=> q \in v1.releasing)
      /\ \A q \in DOMAIN v1'.refs : q \in DOMAIN v1.refs /\ v1'.refs[q] = v1.refs[q]
      /\ v1'.releasing \subseteq v1.releasing
      /\ IF UeSessions(B)!Known(id) /\ p \in v1.releasing
         THEN p \notin DOMAIN v1'.refs /\ p \notin v1'.releasing ELSE UNCHANGED <<v1, v2>>
  BY FinalizeLeaves
<1>2. UeSessions(B)!Connections'
  BY <1>1, ConnectionStays
<1>3. \A q \in B.psis : UeSessions(B)!Due(q)' => UeSessions(B)!Due(q)
  BY <1>1 DEF UeSessions!Due
<1>4. UeSessions(B)!Deactivated => UeSessions(B)!Deactivated'
  BY <1>1 DEF UeSessions!Deactivated
<1>5. ASSUME UeSessions(B)!Together PROVE UeSessions(B)!Together'
  <2>1. UeSessions(B)!Linked'
    BY <1>1, <1>5, LinkStays DEF UeSessions!Together
  <2>2. \A q \in B.psis \ {p} : UeSessions(B)!ThePath(q)'
    <3>1. PICK Q : Q = B.psis \ {p}
      OBVIOUS
    <3>2. \A q \in Q : UeSessions(B)!RadioKept(q) /\ UeSessions(B)!EntryKept(q) /\ UeSessions(B)!TunnelKept(q)
      <4>1. \A q \in Q : UeSessions(B)!RadioKept(q)
        BY Unmoved
      <4>2. \A q \in Q : UeSessions(B)!EntryKept(q)
        BY <1>1, <3>1 DEF UeSessions!EntryKept
      <4>3. \A q \in Q : UeSessions(B)!TunnelKept(q)
        BY <1>1 DEF UeSessions!TunnelKept
      <4>q. QED
        BY <4>1, <4>2, <4>3
    <3>3. v5' = v5 \/ (v5 # <<>> /\ v5' = Tail(v5) /\ \A q \in Q : ~UeSessions(B)!Speaks(Head(v5), q))
      BY <3>1 DEF UeSessions!Speaks, UeSessions!Of, UeSessions!Reports
    <3>4. Q \in SUBSET B.psis
      BY <3>1
    <3>5. \A q \in Q : UeSessions(B)!ThePath(q)'
      BY <1>5, <3>2, <3>3, <3>4, OthersStay
    <3>q. QED
      BY <3>1, <3>5
  <2>3. UeSessions(B)!ThePath(p)
    BY <1>5 DEF UeSessions!Together
  <2>4. UeSessions(B)!ThePath(p)'
    <3>1. CASE v5' = v5
      <4>1. (UeSessions(B)!Held(p)' => UeSessions(B)!Held(p)) /\ (UeSessions(B)!Active(p)' => UeSessions(B)!Active(p) /\ v1' = v1 /\ v2' = v2)
        BY <1>1, <1>3 DEF UeSessions!Held, UeSessions!Active
      <4>2. p \notin DOMAIN v1'.refs \/ UeSessions(B)!Due(p)' => p \notin DOMAIN v1.refs \/ UeSessions(B)!Due(p)
        BY <1>1, <1>3, <3>1 DEF UeSessions!Known
      <4>3. UeSessions(B)!Has(v5, "complete", p) /\ p \in DOMAIN v1'.refs => p \in v1'.releasing
        BY <1>1, <2>3 DEF UeSessions!ThePath
      <4>4. /\ (UeSessions(B)!Cleared(p)' <=> UeSessions(B)!Cleared(p)) /\ UeSessions(B)!Tunnel(p)' = UeSessions(B)!Tunnel(p)
            /\ (UeSessions(B)!Asking(p)' <=> UeSessions(B)!Asking(p)) /\ (UeSessions(B)!Answering(p)' <=> UeSessions(B)!Answering(p))
        BY <3>1 DEF UeSessions!Cleared, UeSessions!Tunnel, UeSessions!Asking, UeSessions!Answering
      <4>q. QED
        BY <1>1, <2>3, <3>1, <4>1, <4>2, <4>3, <4>4 DEF UeSessions!ThePath
    <3>2. CASE v5 # <<>> /\ v5' = Tail(v5) /\ UeSessions(B)!Of(Head(v5), "complete", p) /\ Head(v5).id = id
      <4>0. PICK m : m = Head(v5)
        OBVIOUS
      <4>1. /\ UeSessions(B)!Has(v5, "complete", p) /\ (UeSessions(B)!Has(v5', "establish", p) => UeSessions(B)!Has(v5, "establish", p))
            /\ (UeSessions(B)!Refused(v5', p) => UeSessions(B)!Refused(v5, p)) /\ UeSessions(B)!AsksLast(v5', p)
        <5>1. UeSessions(B)!AsksLast(v5, p) /\ v5 \in Seq(UeSessions(B)!Uplink)
          BY <2>3 DEF UeSessions!ThePath
        <5>q. QED
          BY <3>2, <5>1, Pops
      <4>2. UeSessions(B)!Known(id)
        <5>1. m = v5[1] /\ 1 \in DOMAIN v5
          BY <3>2, <4>0, SeqTail
        <5>q. QED
          BY <1>5, <3>2, <4>0, <5>1 DEF UeSessions!Together, UeSessions!Linked, UeSessions!UpOfLink, UeSessions!Known
      <4>3. p \notin DOMAIN v1'.refs /\ p \notin v1'.releasing
        BY <1>1, <2>3, <4>1, <4>2 DEF UeSessions!ThePath
      <4>4. ~UeSessions(B)!Held(p)' /\ ~UeSessions(B)!Due(p)' /\ ~UeSessions(B)!Active(p)'
        BY <4>3 DEF UeSessions!Held, UeSessions!Due, UeSessions!Active
      <4>5. /\ (UeSessions(B)!Cleared(p)' <=> UeSessions(B)!Cleared(p)) /\ (UeSessions(B)!Answering(p)' <=> UeSessions(B)!Answering(p)) /\ (UeSessions(B)!Asking(p)' => UeSessions(B)!Asking(p))
        BY <4>1 DEF UeSessions!Cleared, UeSessions!Answering, UeSessions!Asking
      <4>6. UeSessions(B)!Cleared(p) /\ ~UeSessions(B)!Answering(p)
        BY <2>3, <4>1 DEF UeSessions!ThePath
      <4>q. QED
        BY <2>3, <4>1, <4>3, <4>4, <4>5, <4>6 DEF UeSessions!ThePath, UeSessions!Answering
    <3>q. QED
      BY <3>1, <3>2
  <2>q. QED
    BY <2>1, <2>2, <2>4 DEF UeSessions!Together
<1>6. UeSessions(B)!Cut => UeSessions(B)!Cut'
  <2>1. UeSessions(B)!Carries(v5, "reset") => UeSessions(B)!Carries(v5', "reset")
    <3>1. CASE v5' = v5
      BY <3>1
    <3>2. CASE v5 # <<>> /\ v5' = Tail(v5) /\ UeSessions(B)!Of(Head(v5), "complete", p)
      BY <3>2, ResetStays DEF UeSessions!Of
    <3>q. QED
      BY <3>1, <3>2
  <2>q. QED
    BY <1>1, <2>1 DEF UeSessions!Cut
<1>7. UeSessions(B)!Released => UeSessions(B)!Released'
  BY <1>1, <1>4 DEF UeSessions!Released, UeSessions!LetsGo
<1>8. ASSUME UeSessions(B)!Resuming PROVE UeSessions(B)!Resuming'
  <2>1. PICK c \in DOMAIN v6 : UeSessions(B)!ResumesAt(c)
    BY <1>8 DEF UeSessions!Resuming
  <2>2. v5' = v5 /\ (UeSessions(B)!Known(id) /\ p \in v1.releasing => UeSessions(B)!Due(p))
    BY <1>8 DEF UeSessions!Resuming
  <2>3. \A q \in B.psis : UeSessions(B)!Held(q)' => UeSessions(B)!Held(q)
    BY <1>1, <1>3 DEF UeSessions!Held
  <2>4. \A q \in B.psis : q \notin DOMAIN v1'.refs \/ UeSessions(B)!Due(q)' => q \notin DOMAIN v1.refs \/ UeSessions(B)!Due(q)
    BY <1>1, <1>3, <2>2
  <2>5. \A i \in DOMAIN v6 : c < i /\ v6[i].k = "release" /\ v6[i].psi \in DOMAIN v1'.refs => v6[i].psi \in v1'.releasing
    BY <1>1, <2>1 DEF UeSessions!ResumesAt
  <2>6. v6[c].active \subseteq B.psis
    BY <2>1, DownlinkIs DEF UeSessions!ResumesAt
  <2>7. UeSessions(B)!ResumesAt(c)'
    BY <1>1, <2>1, <2>3, <2>4, <2>5, <2>6 DEF UeSessions!ResumesAt
  <2>q. QED
    BY <1>1, <1>4, <1>8, <2>2, <2>7 DEF UeSessions!Resuming
<1>q. QED
  BY <1>2, <1>5, <1>6, <1>7, <1>8 DEF UeSessions!PathIInv

LEMMA CompleteKeeps ==
    ASSUME NEW CONSTANT B, UeSessions(B)!SessionTypes, UeSessions(B)!PathIInv, NEW ok \in BOOLEAN, UeSessions(B)!OnReleaseComplete(ok)
    PROVE  UeSessions(B)!PathIInv'
<1> USE SessionRecords
<1>0. PICK m, p : m = Head(v5) /\ p = m.psi
  OBVIOUS
<1>1. /\ v5 # <<>> /\ v5' = Tail(v5) /\ m \in UeSessions(B)!Uplink /\ m.k = "complete" /\ Head(v5) = m
      /\ UeSessions(B)!finalize_release(m.id, p, ok) /\ UNCHANGED <<v3, v4, v6, v7, v8, v9>>
  BY <1>0, Takes DEF UeSessions!OnReleaseComplete
<1>2. p \in B.psis /\ UeSessions(B)!Of(m, "complete", p)
  BY <1>0, <1>1, UplinkIs DEF UeSessions!Of
<1>3. v1'.id = v1.id
  BY <1>1, FinalizeLeaves
<1>4. UeSessions(B)!Guarding' /\ \A q : UeSessions(B)!Guarded(q)' <=> UeSessions(B)!Guarded(q)
  BY <1>1, <1>3, GuardingStays DEF UeSessions!Guarded
<1>q. QED
  BY <1>1, <1>2, <1>4, FinalizeKeeps

LEMMA ExpiryKeeps ==
    ASSUME NEW CONSTANT B, UeSessions(B)!SessionTypes, UeSessions(B)!PathIInv, NEW ok \in BOOLEAN, UeSessions(B)!ReleaseGuardExpiry(ok)
    PROVE  UeSessions(B)!PathIInv'
<1> USE SessionRecords
<1>0. PICK m, p : m = Head(v7) /\ p = m.psi
  OBVIOUS
<1>1. /\ v7 # <<>> /\ v7' = Tail(v7) /\ m \in UeSessions(B)!Commands /\ m.k = "guard" /\ Head(v7) = m /\ m = v7[1]
      /\ UeSessions(B)!finalize_release(m.id, p, ok) /\ UNCHANGED <<v3, v4, v5, v6, v8, v9>>
  BY <1>0, Takes DEF UeSessions!ReleaseGuardExpiry
<1>2. p \in B.psis /\ UeSessions(B)!Of(m, "guard", p) /\ 1 \in DOMAIN v7 /\ \A q : q # p => ~UeSessions(B)!Of(m, "guard", q)
  BY <1>0, <1>1, CommandIs, SeqTail DEF UeSessions!Of
<1>3. v1'.id = v1.id
  BY <1>1, FinalizeLeaves
<1>4. UeSessions(B)!Guarding' /\ (\A q : UeSessions(B)!Guarded(q)' => UeSessions(B)!Guarded(q)) /\ \A q \in B.psis \ {p} : UeSessions(B)!Guarded(q)' <=> UeSessions(B)!Guarded(q)
  <2>1. v7 \in Seq(UeSessions(B)!Commands) /\ UeSessions(B)!Guarding
    BY DEF UeSessions!PathIInv, UeSessions!Connections
  <2>q. QED
    BY <1>1, <1>2, <1>3, <2>1, GuardsStay
<1>5. UeSessions(B)!Known(m.id) /\ p \in v1.releasing => UeSessions(B)!Due(p)
  BY <1>1, <1>2 DEF UeSessions!Known, UeSessions!Due, UeSessions!Guarded
<1>6. UNCHANGED <<v3, v4, v6>> /\ v5' = v5
  BY <1>1
<1>7. UeSessions(B)!SessionTypes /\ UeSessions(B)!PathIInv /\ ok \in BOOLEAN
  OBVIOUS
<1>q. QED
  BY ONLY <1>1, <1>2, <1>4, <1>5, <1>6, <1>7, FinalizeKeeps

LEMMA TailIs ==
    ASSUME NEW S, NEW s \in Seq(S), s # <<>>
    PROVE  /\ \A i \in DOMAIN Tail(s) : i + 1 \in DOMAIN s /\ Tail(s)[i] = s[i + 1]
           /\ \A i \in DOMAIN s : i = 1 \/ (i - 1 \in DOMAIN Tail(s) /\ Tail(s)[i - 1] = s[i])
<1>1. \A i \in DOMAIN Tail(s) : i + 1 \in DOMAIN s /\ Tail(s)[i] = s[i + 1]
  BY SeqTail
<1>2. ASSUME NEW i \in DOMAIN s, i # 1 PROVE i - 1 \in DOMAIN Tail(s) /\ Tail(s)[i - 1] = s[i]
  <2>1. i \in Nat \ {0} /\ i - 1 \in DOMAIN Tail(s)
    BY <1>2, SeqTail
  <2>2. Tail(s)[i - 1] = s[(i - 1) + 1]
    BY <1>1, <2>1
  <2>q. QED
    BY <2>1, <2>2
<1>q. QED
  BY <1>1, <1>2

\* A step that touches neither end of the connection, nor what guards it.
LEMMA QuietKeeps ==
    ASSUME NEW CONSTANT B, UeSessions(B)!SessionTypes, UeSessions(B)!PathIInv, UNCHANGED <<v1, v3, v4, v5, v6, v11>>, v12'.connections = v12.connections,
           UeSessions(B)!Guarding', \A q : UeSessions(B)!Guarded(q)' <=> UeSessions(B)!Guarded(q),
           DOMAIN v2' \subseteq DOMAIN v2, \A r \in DOMAIN v2' : v2'[r] = v2[r]
    PROVE  UeSessions(B)!PathIInv'
<1>1. UeSessions(B)!Connections'
  BY ConnectionStays
<1>2. UeSessions(B)!Deactivated => UeSessions(B)!Deactivated'
  BY DEF UeSessions!Deactivated
<1>3. ASSUME UeSessions(B)!Together PROVE UeSessions(B)!Together'
  <2>1. UeSessions(B)!Linked'
    BY <1>3 DEF UeSessions!Together, UeSessions!Linked, UeSessions!UpOfLink, UeSessions!DownOfLink
  <2>2. \A q \in B.psis : UeSessions(B)!RadioKept(q) /\ UeSessions(B)!EntryKept(q)
    BY DEF UeSessions!RadioKept, UeSessions!EntryKept
  <2>3. \A q \in B.psis : UeSessions(B)!TunnelKept(q)
    BY DEF UeSessions!TunnelKept
  <2>4. \A q \in B.psis : UeSessions(B)!ThePath(q)'
    BY <1>3, <2>2, <2>3, OthersStay
  <2>q. QED
    BY <2>1, <2>4 DEF UeSessions!Together
<1>4. UeSessions(B)!Cut => UeSessions(B)!Cut'
  BY DEF UeSessions!Cut
<1>5. UeSessions(B)!Released => UeSessions(B)!Released'
  BY <1>2 DEF UeSessions!Released, UeSessions!LetsGo
<1>6. ASSUME UeSessions(B)!Resuming PROVE UeSessions(B)!Resuming'
  <2>1. PICK c \in DOMAIN v6 : UeSessions(B)!ResumesAt(c)
    BY <1>6 DEF UeSessions!Resuming
  <2>2. \A q : (UeSessions(B)!Held(q)' <=> UeSessions(B)!Held(q)) /\ (UeSessions(B)!Due(q)' <=> UeSessions(B)!Due(q))
    BY DEF UeSessions!Held, UeSessions!Due
  <2>3. UeSessions(B)!ResumesAt(c)'
    BY <2>1, <2>2 DEF UeSessions!ResumesAt
  <2>q. QED
    BY <1>2, <1>6, <2>3 DEF UeSessions!Resuming
<1>q. QED
  BY <1>1, <1>3, <1>4, <1>5, <1>6 DEF UeSessions!PathIInv

LEMMA QuietSteps ==
    ASSUME NEW CONSTANT B, UeSessions(B)!SessionTypes, UeSessions(B)!PathIInv,
           \/ \E g \in v8 : UeSessions(B)!GuardFires(g)
           \/ \E p \in B.psis : UeSessions(B)!modify_policy(p) \/ UeSessions(B)!release_session(p)
    PROVE  UeSessions(B)!PathIInv'
<1> USE SessionRecords
<1>0. v7 \in Seq(UeSessions(B)!Commands) /\ UeSessions(B)!Guarding
  BY DEF UeSessions!PathIInv, UeSessions!Connections
<1>1. ASSUME NEW g \in v8, UeSessions(B)!GuardFires(g) PROVE UeSessions(B)!PathIInv'
  <2>1. PICK m : m = [k |-> "guard", id |-> g.id, psi |-> g.psi, for |-> g.for]
    OBVIOUS
  <2>2. /\ v8' = v8 \ {g} /\ v7' = Append(v7, m)
        /\ UNCHANGED <<v1, v2, v3, v4, v5, v6, v9, v10, v11, v12>>
    BY <1>1, <2>1 DEF UeSessions!GuardFires
  <2>3. m \in UeSessions(B)!Commands /\ m.k = "guard" /\ m.id = g.id /\ m.psi = g.psi
    <3>1. g \in UeSessions(B)!Guards
      BY DEF UeSessions!SessionTypes, UeSessions!LinkTypes
    <3>q. QED
      BY <2>1, <3>1 DEF UeSessions!Guards, UeSessions!Commands
  <2>4. UeSessions(B)!Guarding' /\ \A q : UeSessions(B)!Guarded(q)' <=> UeSessions(B)!Guarded(q)
    <3>1. \E h \in v8 : \E n \in UeSessions(B)!Commands :
             /\ v8' = v8 \ {h} /\ v7' = Append(v7, n) /\ n.k = "guard" /\ n.id = h.id /\ n.psi = h.psi
      BY <2>2, <2>3
    <3>2. ~(v7 # <<>> /\ v7' = Tail(v7))
      BY <1>0, <2>2, <2>3, SeqTail, SeqAppend
    <3>q. QED
      BY <1>0, <2>2, <3>1, <3>2, GuardsStay
  <2>q. QED
    BY <2>2, <2>4, QuietKeeps
<1>2. ASSUME NEW p \in B.psis, UeSessions(B)!modify_policy(p) \/ UeSessions(B)!release_session(p) PROVE UeSessions(B)!PathIInv'
  <2>1. /\ UNCHANGED <<v1, v2, v3, v4, v5, v6, v8, v10, v11>> /\ UeSessions(B)!Spend("network")
        /\ v7' = v7 \/ \E m \in UeSessions(B)!Commands : v7' = Append(v7, m) /\ m.k # "guard"
    <3>1. PICK m, n : m = [k |-> "modify", id |-> v1.id, psi |-> p] /\ n = [k |-> "release", id |-> v1.id, psi |-> p]
      OBVIOUS
    <3>2. m \in UeSessions(B)!Commands /\ m.k = "modify" /\ n \in UeSessions(B)!Commands /\ n.k = "release"
      BY <3>1 DEF UeSessions!Commands, UeSessions!About, UeSessions!Positive
    <3>q. QED
      BY <1>2, <3>1, <3>2 DEF UeSessions!modify_policy, UeSessions!release_session
  <2>2. UeSessions(B)!Guarding' /\ \A q : UeSessions(B)!Guarded(q)' <=> UeSessions(B)!Guarded(q)
    <3>1. CASE v7' = v7
      BY <1>0, <2>1, <3>1 DEF UeSessions!Guarding, UeSessions!Guarded
    <3>2. ASSUME NEW m \in UeSessions(B)!Commands, v7' = Append(v7, m), m.k # "guard" PROVE UeSessions(B)!Guarding' /\ \A q : UeSessions(B)!Guarded(q)' <=> UeSessions(B)!Guarded(q)
      <4>1. ~(v7 # <<>> /\ v7' = Tail(v7))
        BY <1>0, <3>2, SeqTail, SeqAppend
      <4>q. QED
        BY <1>0, <2>1, <3>2, <4>1, GuardsStay
    <3>q. QED
      BY <2>1, <3>1, <3>2
  <2>3. v12'.connections = v12.connections
    BY <2>1, Spends DEF UeSessions!SessionTypes
  <2>q. QED
    BY <2>1, <2>2, <2>3, QuietKeeps
<1>q. QED
  BY <1>1, <1>2

\* The release of a CM-IDLE UE's session.
LEMMA SbiKeeps ==
    ASSUME NEW CONSTANT B, UeSessions(B)!SessionTypes, UeSessions(B)!PathIInv, UeSessions(B)!SbiStep
    PROVE  UeSessions(B)!PathIInv'
<1> USE SessionRecords
<1>1. ASSUME NEW ok \in BOOLEAN, UeSessions(B)!ReleaseOffLock(ok) PROVE UeSessions(B)!PathIInv'
  <2>1. PICK refs, bad : UeSessions(B)!release_sm_context(refs, bad)
    BY <1>1 DEF UeSessions!ReleaseOffLock
  <2>2. DOMAIN v2' \subseteq DOMAIN v2 /\ \A r \in DOMAIN v2' : v2'[r] = v2[r]
    <3>1. DOMAIN v2' = DOMAIN v2 \ (refs \ bad)
      BY <2>1 DEF UeSessions!release_sm_context, UeSessions!Drop
    <3>2. \A r \in DOMAIN v2' : v2'[r] = v2[r]
      BY <2>1, SmfReleased
    <3>q. QED
      BY <3>1, <3>2
  <2>3. UNCHANGED <<v1, v3, v4, v5, v6, v7, v8, v11>> /\ \E n \in Nat : UeSessions(B)!Failing(n)
    BY <1>1 DEF UeSessions!ReleaseOffLock
  <2>4. v12'.connections = v12.connections
    BY <2>3, Spends DEF UeSessions!SessionTypes
  <2>5. UeSessions(B)!Guarding' /\ \A q : UeSessions(B)!Guarded(q)' <=> UeSessions(B)!Guarded(q)
    BY <2>3, GuardingStays DEF UeSessions!Guarded
  <2>q. QED
    BY <2>2, <2>3, <2>4, <2>5, QuietKeeps
<1>2. ASSUME UeSessions(B)!DropReleased, UNCHANGED v1 PROVE UeSessions(B)!PathIInv'
  <2>1. UNCHANGED <<v2, v3, v4, v5, v6, v7, v8, v11, v12>>
    BY <1>2 DEF UeSessions!DropReleased
  <2>2. UeSessions(B)!Guarding' /\ \A q : UeSessions(B)!Guarded(q)' <=> UeSessions(B)!Guarded(q)
    BY <1>2, <2>1, GuardingStays DEF UeSessions!Guarded
  <2>q. QED
    BY <1>2, <2>1, <2>2, QuietKeeps
<1>3. ASSUME UeSessions(B)!DropReleased, ~UNCHANGED v1 PROVE UeSessions(B)!PathIInv'
  <2>1. /\ v1.cm = "idle" /\ v1' = [v1 EXCEPT !.refs = UeSessions(B)!Drop(v1.refs, {v9.psi})]
        /\ UNCHANGED <<v2, v3, v4, v5, v6, v7, v8, v11, v12>>
    BY <1>3 DEF UeSessions!DropReleased
  <2>2. v1'.cm = "idle" /\ v1'.id = v1.id /\ v1'.refs = UeSessions(B)!Drop(v1.refs, {v9.psi})
    BY <2>1
  <2>3. \A q \in DOMAIN v1'.refs : q \in DOMAIN v1.refs /\ v1'.refs[q] = v1.refs[q]
    BY <2>2 DEF UeSessions!Drop
  <2>4. UeSessions(B)!Connections'
    BY <2>1, <2>2, GuardingStays, ConnectionStays
  <2>5. UeSessions(B)!Released
    BY <2>1 DEF UeSessions!PathIInv, UeSessions!Together, UeSessions!Linked, UeSessions!Cut, UeSessions!Resuming
  <2>6. UeSessions(B)!Released'
    BY <2>1, <2>2, <2>3, <2>5 DEF UeSessions!Released, UeSessions!Deactivated, UeSessions!LetsGo
  <2>q. QED
    BY <2>4, <2>6 DEF UeSessions!PathIInv
<1>q. QED
  BY <1>1, <1>2, <1>3 DEF UeSessions!SbiStep

\* A command of the SMF is sent on behind whatever is on its way.
LEMMA SentBehind ==
    ASSUME NEW CONSTANT B, UeSessions(B)!SessionTypes, NEW c \in DOMAIN v6, UeSessions(B)!ResumesAt(c), NEW m \in UeSessions(B)!Downlink, v6' = Append(v6, m),
           m.k \in {"release", "modify"}, m.id = v1.id, v1'.id = v1.id, v4'.ses = v4.ses,
           v1'.refs = v1.refs, v1.releasing \subseteq v1'.releasing,
           m.k = "release" => m.psi \in v1'.releasing,
           \A q : UeSessions(B)!Held(q)' => UeSessions(B)!Held(q), \A q : UeSessions(B)!Due(q)' => UeSessions(B)!Due(q) \/ UeSessions(B)!Of(m, "release", q)
    PROVE  c \in DOMAIN v6' /\ UeSessions(B)!ResumesAt(c)'
<1>1. v6 \in Seq(UeSessions(B)!Downlink)
  BY SessionRecords
<1>2. /\ \A i \in DOMAIN v6 : i \in DOMAIN v6' /\ v6'[i] = v6[i] /\ i \in Nat
      /\ Len(v6) + 1 \in DOMAIN v6' /\ v6'[Len(v6) + 1] = m /\ c < Len(v6) + 1
      /\ \A i \in DOMAIN v6' : i \in DOMAIN v6 \/ i = Len(v6) + 1
  BY <1>1, SeqAppend
<1>3. /\ \A i \in DOMAIN v6' : i < c => v6'[i].k # "context"
      /\ \A i \in DOMAIN v6' : c < i => v6'[i].id = v1.id /\ v6'[i].k \in {"release", "modify"}
      /\ \A i \in DOMAIN v6' :
           c < i /\ v6'[i].k = "release" /\ v6'[i].psi \in DOMAIN v1.refs => v6'[i].psi \in v1'.releasing
  BY <1>2 DEF UeSessions!ResumesAt
<1>4. \A p : \A k : \A i \in DOMAIN v6 : c < i /\ UeSessions(B)!Of(v6[i], k, p) => c < i /\ UeSessions(B)!Of(v6'[i], k, p)
  BY <1>2
<1>5. ASSUME NEW p \in v6[c].active, p \notin DOMAIN v1.refs \/ UeSessions(B)!Due(p)'
      PROVE  \E i \in DOMAIN v6' : c < i /\ UeSessions(B)!Of(v6'[i], "release", p)
  <2>1. CASE UeSessions(B)!Of(m, "release", p)
    BY <1>2, <2>1
  <2>2. CASE ~UeSessions(B)!Of(m, "release", p)
    <3>1. \E i \in DOMAIN v6 : c < i /\ UeSessions(B)!Of(v6[i], "release", p)
      BY <1>5, <2>2 DEF UeSessions!ResumesAt
    <3>q. QED
      BY <1>2, <3>1
  <2>q. QED
    BY <2>1, <2>2
<1>6. v6'[c] = v6[c] /\ c \in DOMAIN v6'
  BY <1>2
<1>q. QED
  BY <1>3, <1>5, <1>6 DEF UeSessions!ResumesAt

LEMMA ModificationKeeps ==
    ASSUME NEW CONSTANT B, UeSessions(B)!SessionTypes, UeSessions(B)!PathIInv, UeSessions(B)!on_network_modification
    PROVE  UeSessions(B)!PathIInv'
<1> USE SessionRecords
<1>0. PICK c, m : c = Head(v7) /\ m = [k |-> "modify", id |-> c.id, psi |-> c.psi]
  OBVIOUS
<1>1. /\ v7 # <<>> /\ v7' = Tail(v7) /\ c \in UeSessions(B)!Commands /\ c.k = "modify" /\ Head(v7) = c
      /\ UNCHANGED <<v1, v2, v3, v4, v5, v8, v9, v10, v11, v12>>
      /\ v6' = IF UeSessions(B)!Known(c.id) /\ c.psi \in DOMAIN v1.refs THEN Append(v6, m) ELSE v6
  BY <1>0, Takes DEF UeSessions!on_network_modification
<1>2. UeSessions(B)!Guarding' /\ \A q : UeSessions(B)!Guarded(q)' <=> UeSessions(B)!Guarded(q)
  <2>1. v7 \in Seq(UeSessions(B)!Commands) /\ UeSessions(B)!Guarding
    BY DEF UeSessions!PathIInv, UeSessions!Connections
  <2>2. \A q : ~UeSessions(B)!Of(c, "guard", q)
    BY <1>1 DEF UeSessions!Of
  <2>q. QED
    BY <1>1, <2>1, <2>2, GuardsStay
<1>3. CASE v6' = v6
  BY <1>1, <1>2, <1>3, QuietKeeps
<1>4. CASE v6' # v6
  <2>1. v1.cm = "connected" /\ c.id = v1.id /\ v6' = Append(v6, m)
    BY <1>1, <1>4 DEF UeSessions!Known
  <2>2. m \in UeSessions(B)!Downlink /\ m.k = "modify" /\ m.id = v1.id
    BY <1>0, <1>1, <2>1, CommandIs DEF UeSessions!Downlink, UeSessions!About
  <2>3. UeSessions(B)!Connections'
    BY <1>1, <1>2, ConnectionStays
  <2>4. ASSUME UeSessions(B)!Together PROVE UeSessions(B)!Together'
    <3>1. UeSessions(B)!Linked'
      BY <1>1, <2>1, <2>2, <2>4, LinkStays DEF UeSessions!Together
    <3>2. \A q \in B.psis : ~UeSessions(B)!Answers(m, q) /\ ~UeSessions(B)!Of(m, "release", q)
      BY <2>2 DEF UeSessions!Answers, UeSessions!Of
    <3>3. \A q \in B.psis : UeSessions(B)!RadioKept(q) /\ UeSessions(B)!TunnelKept(q)
      BY <1>1, Unmoved
    <3>4. \A q \in B.psis : UeSessions(B)!EntryKept(q)
      BY <1>1, <1>2 DEF UeSessions!EntryKept
    <3>5. \A q \in B.psis : UeSessions(B)!ThePath(q)'
      BY <1>1, <2>1, <2>2, <2>4, <3>2, <3>3, <3>4, OthersStay
    <3>q. QED
      BY <3>1, <3>5 DEF UeSessions!Together
  <2>5. UeSessions(B)!Cut => UeSessions(B)!Cut'
    <3>1. ~UeSessions(B)!Carries(v6, "context") => ~UeSessions(B)!Carries(v6', "context")
      BY <2>1, <2>2, SeqAppend DEF UeSessions!Carries
    <3>q. QED
      BY <1>1, <3>1 DEF UeSessions!Cut
  <2>6. ~UeSessions(B)!Released
    BY <2>1 DEF UeSessions!Released
  <2>7. ASSUME UeSessions(B)!Resuming PROVE UeSessions(B)!Resuming'
    <3>1. PICK n \in DOMAIN v6 : UeSessions(B)!ResumesAt(n)
      BY <2>7 DEF UeSessions!Resuming
    <3>2. \A q : (UeSessions(B)!Held(q)' <=> UeSessions(B)!Held(q)) /\ (UeSessions(B)!Due(q)' <=> UeSessions(B)!Due(q))
      BY <1>1, <1>2 DEF UeSessions!Held, UeSessions!Due
    <3>3. n \in DOMAIN v6' /\ UeSessions(B)!ResumesAt(n)'
      BY <1>1, <2>1, <2>2, <3>1, <3>2, SentBehind
    <3>q. QED
      BY <1>1, <2>7, <3>3 DEF UeSessions!Resuming, UeSessions!Deactivated
  <2>q. QED
    BY <2>3, <2>4, <2>5, <2>6, <2>7 DEF UeSessions!PathIInv
<1>q. QED
  BY <1>3, <1>4

LEMMA NetworkReleaseKeeps ==
    ASSUME NEW CONSTANT B, UeSessions(B)!SessionTypes, UeSessions(B)!PathIInv, UeSessions(B)!on_network_release
    PROVE  UeSessions(B)!PathIInv'
<1> USE SessionRecords
<1>0. PICK c, p, m : c = Head(v7) /\ p = c.psi /\ m = [k |-> "release", id |-> c.id, psi |-> p]
  OBVIOUS
<1>1. /\ v7 # <<>> /\ v7' = Tail(v7) /\ c \in UeSessions(B)!Commands /\ c.k = "release" /\ Head(v7) = c /\ c = v7[1]
      /\ UNCHANGED <<v2, v3, v4, v5, v9, v10, v11, v12>>
  BY <1>0, Takes DEF UeSessions!on_network_release
<1>2. v7 \in Seq(UeSessions(B)!Commands) /\ UeSessions(B)!Guarding /\ (\A q : ~UeSessions(B)!Of(c, "guard", q)) /\ p \in B.psis /\ c.id \in Nat \ {0}
  BY <1>0, <1>1, CommandIs DEF UeSessions!PathIInv, UeSessions!Connections, UeSessions!Of, UeSessions!Positive
<1>3. CASE ~(UeSessions(B)!Known(c.id) /\ p \in DOMAIN v1.refs)
  <2>1. UNCHANGED <<v1, v8, v6>>
    BY <1>0, <1>3 DEF UeSessions!on_network_release
  <2>2. UeSessions(B)!Guarding' /\ \A q : UeSessions(B)!Guarded(q)' <=> UeSessions(B)!Guarded(q)
    BY <1>1, <1>2, <2>1, GuardsStay
  <2>q. QED
    BY <1>1, <2>1, <2>2, QuietKeeps
<1>4. CASE UeSessions(B)!Known(c.id) /\ p \in DOMAIN v1.refs
  <2>1. /\ v1' = [v1 EXCEPT !.releasing = v1.releasing \cup {p}] /\ v6' = Append(v6, m)
        /\ v8' = v8 \cup {[id |-> c.id, psi |-> p, for |-> v1.refs[p]]}
    BY <1>0, <1>4 DEF UeSessions!on_network_release, UeSessions!arm_release_guard
  <2>2. /\ v1'.cm = v1.cm /\ v1'.id = v1.id /\ v1'.refs = v1.refs /\ v1'.releasing = v1.releasing \cup {p}
        /\ v1.cm = "connected" /\ c.id = v1.id
    BY <1>4, <2>1 DEF UeSessions!Known
  <2>3. m \in UeSessions(B)!Downlink /\ m.k = "release" /\ m.id = v1.id /\ m.psi = p
    BY <1>0, <1>2, <2>2 DEF UeSessions!Downlink, UeSessions!About, UeSessions!Positive
  <2>4. PICK g : g = [id |-> c.id, psi |-> p, for |-> v1.refs[p]]
    OBVIOUS
  <2>5. v8' = v8 \cup {g} /\ g.id = v1.id /\ g.psi = p
    BY <2>1, <2>2, <2>4
  <2>6. /\ \A i \in DOMAIN v7' : i + 1 \in DOMAIN v7 /\ v7'[i] = v7[i + 1]
        /\ \A i \in DOMAIN v7 : i = 1 \/ (i - 1 \in DOMAIN v7' /\ v7'[i - 1] = v7[i])
    BY <1>1, <1>2, TailIs
  <2>7. UeSessions(B)!Guarding' /\ UeSessions(B)!Guarded(p)' /\ \A q : q # p => (UeSessions(B)!Guarded(q)' <=> UeSessions(B)!Guarded(q))
    <3>1. UeSessions(B)!Guarding'
      BY <1>2, <2>2, <2>5, <2>6 DEF UeSessions!Guarding
    <3>2. UeSessions(B)!Guarded(p)'
      BY <2>2, <2>5 DEF UeSessions!Guarded
    <3>3. ASSUME NEW q, q # p, UeSessions(B)!Guarded(q)' PROVE UeSessions(B)!Guarded(q)
      BY <2>2, <2>5, <2>6, <3>3 DEF UeSessions!Guarded
    <3>4. ASSUME NEW q, q # p, UeSessions(B)!Guarded(q) PROVE UeSessions(B)!Guarded(q)'
      <4>1. CASE \E h \in v8 : h.id = v1.id /\ h.psi = q
        BY <2>2, <2>5, <4>1 DEF UeSessions!Guarded
      <4>2. ASSUME NEW i \in DOMAIN v7, UeSessions(B)!Of(v7[i], "guard", q), v7[i].id = v1.id PROVE UeSessions(B)!Guarded(q)'
        <5>1. i # 1
          BY <1>1, <1>2, <4>2
        <5>2. i - 1 \in DOMAIN v7' /\ v7'[i - 1] = v7[i]
          BY <2>6, <5>1
        <5>q. QED
          BY <2>2, <4>2, <5>2 DEF UeSessions!Guarded
      <4>q. QED
        BY <3>4, <4>1, <4>2 DEF UeSessions!Guarded
    <3>q. QED
      BY <3>1, <3>2, <3>3, <3>4
  <2>8. UeSessions(B)!Connections'
    BY <1>1, <2>2, <2>7, ConnectionStays
  <2>9. ASSUME UeSessions(B)!Together PROVE UeSessions(B)!Together'
    <3>1. UeSessions(B)!Linked'
      BY <1>1, <2>1, <2>2, <2>3, <2>9, LinkStays DEF UeSessions!Together
    <3>2. \A q \in B.psis \ {p} : UeSessions(B)!ThePath(q)'
      <4>1. PICK Q : Q = B.psis \ {p}
        OBVIOUS
      <4>2. \A q \in Q : ~UeSessions(B)!Answers(m, q) /\ ~UeSessions(B)!Of(m, "release", q)
        BY <2>3, <4>1 DEF UeSessions!Answers, UeSessions!Of
      <4>3. \A q \in Q : UeSessions(B)!RadioKept(q) /\ UeSessions(B)!TunnelKept(q)
        BY <1>1, Unmoved
      <4>4. \A q \in Q : UeSessions(B)!EntryKept(q)
        BY <2>2, <2>7, <4>1 DEF UeSessions!EntryKept
      <4>5. Q \in SUBSET B.psis
        BY <4>1
      <4>6. \A q \in Q : UeSessions(B)!ThePath(q)'
        BY <1>1, <2>1, <2>3, <2>9, <4>2, <4>3, <4>4, <4>5, OthersStay
      <4>q. QED
        BY <4>1, <4>6
    <3>3. UeSessions(B)!ThePath(p)'
      <4>1. UeSessions(B)!ThePath(p)
        BY <1>2, <2>9 DEF UeSessions!Together
      <4>2. UeSessions(B)!Of(m, "release", p) /\ ~UeSessions(B)!Of(m, "setup", p) /\ ~UeSessions(B)!Of(m, "reject", p) /\ ~UeSessions(B)!Answers(m, p)
        BY <2>3 DEF UeSessions!Of, UeSessions!Answers
      <4>3. /\ (UeSessions(B)!Has(v6', "setup", p) <=> UeSessions(B)!Has(v6, "setup", p)) /\ (UeSessions(B)!Has(v6', "reject", p) <=> UeSessions(B)!Has(v6, "reject", p))
            /\ UeSessions(B)!Has(v6', "release", p) /\ UeSessions(B)!AnsweredOnce(v6', p) /\ UeSessions(B)!Followed(v6', "setup", "release", p)
        <5>1. UeSessions(B)!AnsweredOnce(v6, p) /\ v6 \in Seq(UeSessions(B)!Downlink)
          BY <4>1 DEF UeSessions!ThePath
        <5>q. QED
          BY <2>1, <2>3, <4>2, <5>1, Appends
      <4>4. UeSessions(B)!Held(p) /\ ~UeSessions(B)!Active(p)' /\ p \in DOMAIN v1'.refs /\ p \in v1'.releasing
        BY <1>4, <2>2 DEF UeSessions!Held, UeSessions!Active
      <4>5. UeSessions(B)!Cleared(p)'
        BY <4>3 DEF UeSessions!Cleared
      <4>6. (UeSessions(B)!Asking(p)' <=> UeSessions(B)!Asking(p)) /\ (UeSessions(B)!Answering(p)' <=> UeSessions(B)!Answering(p))
        BY <1>1, <4>3 DEF UeSessions!Asking, UeSessions!Answering
      <4>q. QED
        BY <1>1, <4>1, <4>3, <4>4, <4>5, <4>6 DEF UeSessions!ThePath
    <3>q. QED
      BY <3>1, <3>2, <3>3 DEF UeSessions!Together
  <2>10. UeSessions(B)!Cut => UeSessions(B)!Cut'
    <3>1. ~UeSessions(B)!Carries(v6, "context") => ~UeSessions(B)!Carries(v6', "context")
      BY <2>1, <2>3, SeqAppend DEF UeSessions!Carries
    <3>q. QED
      BY <1>1, <2>2, <3>1 DEF UeSessions!Cut
  <2>11. ~UeSessions(B)!Released
    BY <2>2 DEF UeSessions!Released
  <2>12. ASSUME UeSessions(B)!Resuming PROVE UeSessions(B)!Resuming'
    <3>1. PICK n \in DOMAIN v6 : UeSessions(B)!ResumesAt(n)
      BY <2>12 DEF UeSessions!Resuming
    <3>2. \A q : UeSessions(B)!Held(q)' => UeSessions(B)!Held(q)
      BY <1>4, <2>2, <2>7 DEF UeSessions!Held, UeSessions!Due
    <3>3. \A q : UeSessions(B)!Due(q)' => UeSessions(B)!Due(q) \/ UeSessions(B)!Of(m, "release", q)
      BY <2>2, <2>3, <2>7 DEF UeSessions!Due, UeSessions!Of
    <3>4. n \in DOMAIN v6' /\ UeSessions(B)!ResumesAt(n)'
      BY <1>1, <2>1, <2>2, <2>3, <3>1, <3>2, <3>3, SentBehind
    <3>q. QED
      BY <1>1, <2>2, <2>12, <3>4 DEF UeSessions!Resuming, UeSessions!Deactivated
  <2>q. QED
    BY <2>8, <2>9, <2>10, <2>11, <2>12 DEF UeSessions!PathIInv
<1>q. QED
  BY <1>3, <1>4

LEMMA SetupResponseKeeps ==
    ASSUME NEW CONSTANT B, UeSessions(B)!SessionTypes, UeSessions(B)!PathIInv, NEW ok \in BOOLEAN, UeSessions(B)!on_pdu_session_setup_response(ok)
    PROVE  UeSessions(B)!PathIInv'
<1> USE SessionRecords
<1>0. PICK m, p : m = Head(v5) /\ p = m.psi
  OBVIOUS
<1>1. /\ v5 # <<>> /\ v5' = Tail(v5) /\ m \in UeSessions(B)!Uplink /\ m.k = "setupResponse" /\ Head(v5) = m /\ m = v5[1]
      /\ UNCHANGED <<v1, v3, v4, v6, v7, v8, v9, v10>>
  BY <1>0, Takes DEF UeSessions!on_pdu_session_setup_response
<1>2. p \in B.psis /\ m.teid \in Nat /\ 1 \in DOMAIN v5
  BY <1>0, <1>1, UplinkIs, SeqTail
<1>3. v12'.connections = v12.connections
  BY Spends DEF UeSessions!SessionTypes, UeSessions!on_pdu_session_setup_response
<1>4. UeSessions(B)!Connections'
  BY <1>1, <1>3, GuardingStays, ConnectionStays
<1>6. ~(UeSessions(B)!Known(m.id) /\ p \in DOMAIN v1.refs) => UNCHANGED <<v2, v11>>
  BY <1>0 DEF UeSessions!on_pdu_session_setup_response
<1>7. ASSUME UeSessions(B)!Known(m.id), p \in DOMAIN v1.refs
      PROVE  \A r \in DOMAIN v2' \ v11' :
                IF r = v1.refs[p] THEN v2'[r].dl = m.teid
                ELSE r \in DOMAIN v2 \ v11 /\ v2'[r].dl = v2[r].dl
  <2>1. PICK dl, bad : /\ dl = [r \in {v1.refs[p]} |-> m.teid] /\ bad = IF ok THEN {} ELSE {v1.refs[p]}
                       /\ UeSessions(B)!update_sm_context(dl, bad)
    BY <1>0, <1>7 DEF UeSessions!on_pdu_session_setup_response
  <2>2. DOMAIN dl = {v1.refs[p]} /\ dl[v1.refs[p]] = m.teid
    BY <2>1
  <2>3. /\ DOMAIN v2' = DOMAIN v2
        /\ \A r \in DOMAIN v2 : v2'[r].dl = IF r \in DOMAIN dl \ bad THEN dl[r] ELSE v2[r].dl
    <3>1. \A r \in DOMAIN dl : dl[r] \in Nat
      BY <1>2, <2>2
    <3>2. UeSessions(B)!SessionTypes /\ UeSessions(B)!update_sm_context(dl, bad)
      BY <2>1
    <3>q. QED
      BY ONLY <3>1, <3>2, SmfUpdates
  <2>4. v11' = (v11 \ DOMAIN dl) \cup (bad \cap DOMAIN v2)
    BY <2>1 DEF UeSessions!update_sm_context
  <2>q. QED
    BY <2>1, <2>2, <2>3, <2>4
<1>8. \A q \in B.psis : (UeSessions(B)!Held(q)' <=> UeSessions(B)!Held(q)) /\ (UeSessions(B)!Due(q)' <=> UeSessions(B)!Due(q)) /\ (UeSessions(B)!Active(q)' <=> UeSessions(B)!Active(q))
  BY <1>1 DEF UeSessions!Held, UeSessions!Due, UeSessions!Active, UeSessions!Guarded
<1>9. ASSUME UeSessions(B)!Together PROVE UeSessions(B)!Together'
  <2>1. UeSessions(B)!Linked'
    BY <1>1, <1>9, LinkStays DEF UeSessions!Together
  <2>2. UeSessions(B)!Known(m.id)
    BY <1>1, <1>2, <1>9 DEF UeSessions!Together, UeSessions!Linked, UeSessions!UpOfLink, UeSessions!Known
  <2>3. \A q \in B.psis \ {p} : UeSessions(B)!ThePath(q)'
    <3>1. PICK Q : Q = B.psis \ {p}
      OBVIOUS
    <3>2. \A q \in Q : ~UeSessions(B)!Speaks(m, q)
      BY <1>0, <1>1, <3>1 DEF UeSessions!Speaks, UeSessions!Of, UeSessions!Reports
    <3>3. \A q \in Q : UeSessions(B)!RadioKept(q) /\ UeSessions(B)!EntryKept(q)
      BY <1>1, Unmoved
    <3>4. \A q \in Q : UeSessions(B)!TunnelKept(q)
      <4>1. \A q \in DOMAIN v1.refs : p \in DOMAIN v1.refs /\ q # p => v1.refs[q] # v1.refs[p]
        BY DEF UeSessions!SessionTypes, UeSessions!ContextTypes
      <4>q. QED
        BY <1>6, <1>7, <2>2, <3>1, <4>1 DEF UeSessions!TunnelKept
    <3>5. Q \in SUBSET B.psis
      BY <3>1
    <3>6. \A q \in Q : UeSessions(B)!ThePath(q)'
      <4>1. UeSessions(B)!SessionTypes
        OBVIOUS
      <4>q. QED
        BY ONLY <1>1, <1>9, <3>2, <3>3, <3>4, <3>5, <4>1, OthersStay
    <3>q. QED
      BY <3>1, <3>6
  <2>4. UeSessions(B)!ThePath(p)'
    <3>1. UeSessions(B)!ThePath(p)
      BY <1>2, <1>9 DEF UeSessions!Together
    <3>2. UeSessions(B)!Reports(m, p) /\ UeSessions(B)!TunnelIn(m, p) = m.teid /\ ~UeSessions(B)!Of(m, "establish", p) /\ ~UeSessions(B)!Of(m, "complete", p)
      BY <1>0, <1>1 DEF UeSessions!Reports, UeSessions!TunnelIn, UeSessions!Of
    <3>3. /\ \A k \in {"establish", "complete"} : UeSessions(B)!Has(v5', k, p) <=> UeSessions(B)!Has(v5, k, p)
          /\ UeSessions(B)!Refused(v5', p) => UeSessions(B)!Refused(v5, p)
          /\ UeSessions(B)!Reported(v5', p) => UeSessions(B)!Reported(v5, p)
          /\ UeSessions(B)!Carries(v5', "contextResponse") => UeSessions(B)!Carries(v5, "contextResponse")
          /\ UeSessions(B)!AsksLast(v5', p)
          /\ UeSessions(B)!Tells(v5, p, v3.ses) => UeSessions(B)!Tells(v5', p, v3.ses) /\ p \in DOMAIN v3.ses /\ m.teid = v3.ses[p]
      <4>1. UeSessions(B)!AsksLast(v5, p) /\ v5 \in Seq(UeSessions(B)!Uplink)
        BY <3>1 DEF UeSessions!ThePath
      <4>q. QED
        BY <1>1, <3>2, <4>1, UpTaken
    <3>4. UeSessions(B)!Active(p) /\ v1.refs[p] \in DOMAIN v2' \ v11' => v2'[v1.refs[p]].dl = UeSessions(B)!Tunnel(p)
      BY <1>7, <2>2, <3>1, <3>3 DEF UeSessions!Active, UeSessions!Tunnel, UeSessions!ThePath
    <3>5. /\ (UeSessions(B)!Cleared(p)' <=> UeSessions(B)!Cleared(p)) /\ UeSessions(B)!Tunnel(p)' = UeSessions(B)!Tunnel(p)
          /\ (UeSessions(B)!Asking(p)' <=> UeSessions(B)!Asking(p)) /\ (UeSessions(B)!Answering(p)' <=> UeSessions(B)!Answering(p))
      BY <1>1, <3>3 DEF UeSessions!Cleared, UeSessions!Tunnel, UeSessions!Asking, UeSessions!Answering
    <3>q. QED
      BY <1>1, <1>2, <1>8, <3>1, <3>3, <3>4, <3>5 DEF UeSessions!ThePath
  <2>q. QED
    BY <2>1, <2>3, <2>4 DEF UeSessions!Together
<1>10. UeSessions(B)!Cut => UeSessions(B)!Cut'
  BY <1>1, AmfTakes DEF UeSessions!Cut
<1>11. UeSessions(B)!Released => UeSessions(B)!Released'
  <2>1. UeSessions(B)!Released => UNCHANGED <<v2, v11>>
    BY <1>6 DEF UeSessions!Released, UeSessions!Known
  <2>q. QED
    BY <1>1, <2>1, AmfTakes
<1>q. QED
  BY <1>1, <1>4, <1>9, <1>10, <1>11, AmfTakes DEF UeSessions!PathIInv

LEMMA ContextResponseKeeps ==
    ASSUME NEW CONSTANT B, UeSessions(B)!SessionTypes, UeSessions(B)!PathIInv, UeSessions(B)!on_initial_context_setup_response
    PROVE  UeSessions(B)!PathIInv'
<1> USE SessionRecords
<1>0. PICK m : m = Head(v5)
  OBVIOUS
<1>1. /\ v5 # <<>> /\ v5' = Tail(v5) /\ m \in UeSessions(B)!Uplink /\ m.k = "contextResponse" /\ Head(v5) = m /\ m = v5[1]
      /\ UNCHANGED <<v3, v4, v6, v7, v8, v9, v10, v12>>
  BY <1>0, Takes DEF UeSessions!on_initial_context_setup_response
<1>k. PICK known : known = IF UeSessions(B)!Known(m.id) THEN DOMAIN v1.refs ELSE {}
  OBVIOUS
<1>d. PICK gone, dl :
        /\ gone = {v1.refs[p] : p \in m.refused \cap known}
        /\ dl = [r \in {v1.refs[p] : p \in DOMAIN m.ses \cap known} |-> m.ses[CHOOSE p \in known : v1.refs[p] = r]]
  OBVIOUS
<1>2. /\ v2' = [r \in DOMAIN v2 \ gone |-> IF r \in DOMAIN dl THEN [v2[r] EXCEPT !.dl = dl[r]] ELSE v2[r]]
      /\ v11' = v11 \ DOMAIN dl
      /\ v1' = [v1 EXCEPT !.refs = UeSessions(B)!Drop(v1.refs, m.refused \cap known)]
  BY <1>0, <1>k, <1>d DEF UeSessions!on_initial_context_setup_response
<1>3. /\ v1'.cm = v1.cm /\ v1'.id = v1.id /\ v1'.releasing = v1.releasing
      /\ DOMAIN v1'.refs = DOMAIN v1.refs \ (m.refused \cap known)
      /\ \A q \in DOMAIN v1'.refs : v1'.refs[q] = v1.refs[q]
  <2>1. /\ v1'.cm = v1.cm /\ v1'.id = v1.id /\ v1'.releasing = v1.releasing
        /\ v1'.refs = UeSessions(B)!Drop(v1.refs, m.refused \cap known)
    BY <1>2
  <2>q. QED
    BY <2>1 DEF UeSessions!Drop
<1>4. 1 \in DOMAIN v5
  BY <1>1, SeqTail
<1>5. DOMAIN dl = {v1.refs[p] : p \in DOMAIN m.ses \cap known} /\ known \subseteq DOMAIN v1.refs
  BY <1>k, <1>d
<1>6. \A p \in DOMAIN v1.refs : v1.refs[p] \in DOMAIN dl <=> p \in DOMAIN m.ses \cap known
  <2>1. \A p, q \in DOMAIN v1.refs : v1.refs[p] = v1.refs[q] => p = q
    BY DEF UeSessions!SessionTypes, UeSessions!ContextTypes
  <2>q. QED
    BY <1>5, <2>1
<1>7. ASSUME NEW p \in DOMAIN m.ses \cap known PROVE dl[v1.refs[p]] = m.ses[p]
  <2>1. \A q \in known : v1.refs[q] = v1.refs[p] => q = p
    BY <1>5 DEF UeSessions!SessionTypes, UeSessions!ContextTypes
  <2>2. (CHOOSE q \in known : v1.refs[q] = v1.refs[p]) = p
    BY <2>1
  <2>q. QED
    BY <1>d, <2>2
<1>8. \A r \in DOMAIN v2' : r \in DOMAIN v2 /\ v2'[r].dl = IF r \in DOMAIN dl THEN dl[r] ELSE v2[r].dl
  <2>1. \A r \in DOMAIN v2 : v2[r] \in [psi : B.psis, dl : Nat]
    OBVIOUS
  <2>q. QED
    BY <1>2, <2>1
<1>9. \A q \in B.psis : (UeSessions(B)!Held(q)' => UeSessions(B)!Held(q)) /\ (UeSessions(B)!Due(q)' <=> UeSessions(B)!Due(q)) /\ (UeSessions(B)!Active(q)' => UeSessions(B)!Active(q))
  BY <1>1, <1>3 DEF UeSessions!Held, UeSessions!Due, UeSessions!Active, UeSessions!Guarded
<1>10. UeSessions(B)!Connections'
  BY <1>1, <1>3, GuardingStays, ConnectionStays
<1>11. ASSUME UeSessions(B)!Together PROVE UeSessions(B)!Together'
  <2>1. UeSessions(B)!Linked'
    BY <1>1, <1>3, <1>11, LinkStays DEF UeSessions!Together
  <2>2. known = DOMAIN v1.refs /\ UeSessions(B)!Carries(v5, "contextResponse")
    BY <1>1, <1>k, <1>4, <1>11 DEF UeSessions!Together, UeSessions!Linked, UeSessions!UpOfLink, UeSessions!Known, UeSessions!Carries
  <2>3. ASSUME NEW p \in B.psis PROVE UeSessions(B)!ThePath(p)'
    <3>1. UeSessions(B)!ThePath(p)
      BY <1>11 DEF UeSessions!Together
    <3>2. /\ UeSessions(B)!Reports(m, p) <=> p \in DOMAIN m.ses
          /\ UeSessions(B)!TunnelIn(m, p) = m.ses[p] /\ ~UeSessions(B)!Of(m, "establish", p) /\ ~UeSessions(B)!Of(m, "complete", p)
      BY <1>1 DEF UeSessions!Reports, UeSessions!TunnelIn, UeSessions!Of
    <3>3. /\ \A k \in {"establish", "complete"} : UeSessions(B)!Has(v5', k, p) <=> UeSessions(B)!Has(v5, k, p)
          /\ UeSessions(B)!Refused(v5, p) <=> p \in m.refused \/ UeSessions(B)!Refused(v5', p)
          /\ UeSessions(B)!Reported(v5, p) <=> p \in DOMAIN m.ses \/ UeSessions(B)!Reported(v5', p)
          /\ UeSessions(B)!Carries(v5', "contextResponse") => UeSessions(B)!Carries(v5, "contextResponse")
          /\ UeSessions(B)!AsksLast(v5', p)
          /\ UeSessions(B)!Tells(v5, p, v3.ses) =>
                UeSessions(B)!Tells(v5', p, v3.ses) /\ (p \in DOMAIN m.ses => p \in DOMAIN v3.ses /\ m.ses[p] = v3.ses[p])
      <4>1. UeSessions(B)!AsksLast(v5, p) /\ v5 \in Seq(UeSessions(B)!Uplink)
        BY <3>1 DEF UeSessions!ThePath
      <4>2. /\ (UeSessions(B)!Has(v5, "establish", p) <=> UeSessions(B)!Of(m, "establish", p) \/ UeSessions(B)!Has(v5', "establish", p))
            /\ (UeSessions(B)!Has(v5, "complete", p) <=> UeSessions(B)!Of(m, "complete", p) \/ UeSessions(B)!Has(v5', "complete", p))
            /\ (UeSessions(B)!Reported(v5, p) <=> UeSessions(B)!Reports(m, p) \/ UeSessions(B)!Reported(v5', p))
            /\ (UeSessions(B)!Refused(v5, p) <=> (m.k = "contextResponse" /\ p \in m.refused) \/ UeSessions(B)!Refused(v5', p))
            /\ UeSessions(B)!Carries(v5', "contextResponse") => UeSessions(B)!Carries(v5, "contextResponse")
            /\ UeSessions(B)!AsksLast(v5', p)
            /\ UeSessions(B)!Tells(v5, p, v3.ses) =>
                 /\ UeSessions(B)!Tells(v5', p, v3.ses)
                 /\ UeSessions(B)!Reports(m, p) => p \in DOMAIN v3.ses /\ UeSessions(B)!TunnelIn(m, p) = v3.ses[p]
        BY <1>1, <4>1, UpTaken
      <4>q. QED
        BY <1>1, <3>2, <4>2
    <3>4. ~UeSessions(B)!Answering(p)
      BY <2>2, <3>1 DEF UeSessions!ThePath
    <3>5. p \notin DOMAIN v1'.refs \/ UeSessions(B)!Due(p) \/ UeSessions(B)!Has(v5, "complete", p) => UeSessions(B)!Cleared(p)
      <4>1. CASE p \in DOMAIN v1.refs /\ p \notin DOMAIN v1'.refs
        <5>1. p \notin DOMAIN v3.ses
          BY <1>3, <3>1, <3>3, <4>1 DEF UeSessions!ThePath
        <5>q. QED
          BY <3>4, <5>1 DEF UeSessions!Cleared, UeSessions!Answering, UeSessions!Followed, UeSessions!Has
      <4>2. CASE ~(p \in DOMAIN v1.refs /\ p \notin DOMAIN v1'.refs)
        BY <3>1, <4>2 DEF UeSessions!ThePath
      <4>q. QED
        BY <4>1, <4>2
    <3>6. ASSUME UeSessions(B)!Active(p)', ~UeSessions(B)!Reported(v5', p), v1'.refs[p] \in DOMAIN v2' \ v11'
          PROVE  v2'[v1'.refs[p]].dl = UeSessions(B)!Tunnel(p)
      <4>0. UeSessions(B)!Active(p) /\ p \in DOMAIN v1'.refs /\ v1'.refs[p] = v1.refs[p] /\ p \in DOMAIN v1.refs
        BY <1>3, <1>9, <3>6 DEF UeSessions!Active
      <4>1. CASE p \in DOMAIN m.ses
        <5>1. p \in DOMAIN v3.ses /\ m.ses[p] = v3.ses[p]
          BY <3>1, <3>3, <4>0, <4>1 DEF UeSessions!ThePath
        <5>2. dl[v1.refs[p]] = m.ses[p] /\ v1.refs[p] \in DOMAIN dl
          BY <1>6, <1>7, <2>2, <4>0, <4>1
        <5>q. QED
          BY <1>8, <3>6, <4>0, <5>1, <5>2 DEF UeSessions!Tunnel
      <4>2. CASE p \notin DOMAIN m.ses
        <5>1. v1.refs[p] \notin DOMAIN dl
          BY <1>6, <4>0, <4>2
        <5>2. v1.refs[p] \in DOMAIN v2 \ v11 /\ v2'[v1.refs[p]].dl = v2[v1.refs[p]].dl
          BY <1>2, <1>8, <3>6, <4>0, <5>1
        <5>3. ~UeSessions(B)!Reported(v5, p)
          BY <3>3, <3>6, <4>2
        <5>q. QED
          BY <3>1, <4>0, <5>2, <5>3 DEF UeSessions!ThePath
      <4>q. QED
        BY <4>1, <4>2
    <3>7. /\ (UeSessions(B)!Cleared(p)' <=> UeSessions(B)!Cleared(p)) /\ UeSessions(B)!Tunnel(p)' = UeSessions(B)!Tunnel(p)
          /\ (UeSessions(B)!Asking(p)' <=> UeSessions(B)!Asking(p)) /\ (UeSessions(B)!Answering(p)' <=> UeSessions(B)!Answering(p))
      BY <1>1, <3>3 DEF UeSessions!Cleared, UeSessions!Tunnel, UeSessions!Asking, UeSessions!Answering
    <3>8. UeSessions(B)!Active(p)' => UeSessions(B)!Active(p) /\ p \in DOMAIN v1'.refs
      BY <1>9 DEF UeSessions!Active
    <3>q. QED
      BY <1>1, <1>3, <1>9, <3>1, <3>3, <3>4, <3>5, <3>6, <3>7, <3>8 DEF UeSessions!ThePath
  <2>q. QED
    BY <2>1, <2>3 DEF UeSessions!Together
<1>12. UeSessions(B)!Cut => UeSessions(B)!Cut'
  BY <1>1, <1>3, AmfTakes DEF UeSessions!Cut
<1>13. UeSessions(B)!Released => UeSessions(B)!Released'
  <2>1. UeSessions(B)!Released => known = {} /\ DOMAIN dl = {}
    BY <1>k, <1>5 DEF UeSessions!Released, UeSessions!Known
  <2>2. UeSessions(B)!Released => UeSessions(B)!Deactivated'
    <3>1. v11' = v11 \ DOMAIN dl
      BY <1>2
    <3>2. ASSUME UeSessions(B)!Released PROVE \A q \in DOMAIN v1'.refs : v1'.refs[q] \in DOMAIN v2' \ v11' => v2'[v1'.refs[q]].dl = 0
      BY <1>3, <1>8, <2>1, <3>1, <3>2 DEF UeSessions!Released, UeSessions!Deactivated
    <3>q. QED
      BY <3>2 DEF UeSessions!Deactivated
  <2>q. QED
    BY <1>1, <1>3, <2>2 DEF UeSessions!Released, UeSessions!LetsGo
<1>q. QED
  BY <1>1, <1>10, <1>11, <1>12, <1>13, AmfTakes DEF UeSessions!PathIInv

\* What AN release leaves.
LEMMA AnReleased ==
    ASSUME NEW CONSTANT B, UeSessions(B)!SessionTypes, NEW bad \in SUBSET UeSessions(B)!Refs, UeSessions(B)!release_ue_context(bad)
    PROVE  /\ v1'.cm = "idle" /\ v1'.id = v1.id /\ v1'.refs = v1.refs /\ v1'.releasing = v1.releasing
           /\ v12'.connections = v12.connections /\ UeSessions(B)!Deactivated'
<1> USE SessionRecords
<1>1. PICK dl : dl = [r \in UeSessions(B)!Refs |-> 0]
  OBVIOUS
<1>2. DOMAIN dl = UeSessions(B)!Refs /\ \A r \in DOMAIN dl : dl[r] = 0
  BY <1>1
<1>3. UeSessions(B)!update_sm_context(dl, bad) /\ v1' = [v1 EXCEPT !.cm = "idle"] /\ UeSessions(B)!Failing(UeSessions(B)!Cardinality(bad))
  BY <1>1 DEF UeSessions!release_ue_context
<1>4. v1'.cm = "idle" /\ v1'.id = v1.id /\ v1'.refs = v1.refs /\ v1'.releasing = v1.releasing
  BY <1>3
<1>5. v12'.connections = v12.connections
  <2>1. UeSessions(B)!Refs \subseteq 1 .. v12.refs /\ v12.refs \in Nat
    BY DEF UeSessions!Refs, UeSessions!SessionTypes, UeSessions!BoundTypes
  <2>2. UeSessions(B)!Cardinality(bad) \in Nat
    BY <2>1, IntervalCounts
  <2>q. QED
    BY <1>3, <2>2, Spends DEF UeSessions!SessionTypes
<1>6. /\ DOMAIN v2' = DOMAIN v2 /\ v11' = (v11 \ DOMAIN dl) \cup (bad \cap DOMAIN v2)
      /\ \A r \in DOMAIN v2 : v2'[r].dl = IF r \in DOMAIN dl \ bad THEN dl[r] ELSE v2[r].dl
  <2>1. \A r \in DOMAIN dl : dl[r] \in Nat
    BY <1>2
  <2>2. /\ DOMAIN v2' = DOMAIN v2
        /\ \A r \in DOMAIN v2 : v2'[r].dl = IF r \in DOMAIN dl \ bad THEN dl[r] ELSE v2[r].dl
    BY <1>3, <2>1, SmfUpdates
  <2>q. QED
    BY <1>3, <2>2 DEF UeSessions!update_sm_context
<1>7. \A p \in DOMAIN v1.refs : v1.refs[p] \in DOMAIN dl
  BY <1>2 DEF UeSessions!Refs
<1>8. UeSessions(B)!Deactivated'
  BY <1>2, <1>4, <1>6, <1>7 DEF UeSessions!Deactivated
<1>q. QED
  BY <1>4, <1>5, <1>8

LEMMA ReleaseRequestKeeps ==
    ASSUME NEW CONSTANT B, UeSessions(B)!SessionTypes, UeSessions(B)!PathIInv, NEW bad \in SUBSET UeSessions(B)!Refs, UeSessions(B)!OnReleaseRequest(bad)
    PROVE  UeSessions(B)!PathIInv'
<1> USE SessionRecords
<1>0. PICK m, n : m = Head(v5) /\ n = [k |-> "contextRelease", id |-> v1.id]
  OBVIOUS
<1>1. /\ v5 # <<>> /\ v5' = Tail(v5) /\ m \in UeSessions(B)!Uplink /\ m.k = "releaseRequest" /\ Head(v5) = m /\ m = v5[1]
      /\ UNCHANGED <<v3, v4, v7, v8, v9, v10>>
  BY <1>0, Takes DEF UeSessions!OnReleaseRequest
<1>2. n \in UeSessions(B)!Downlink /\ n.k = "contextRelease" /\ n.id = v1.id /\ 1 \in DOMAIN v5
  <2>1. v1.id \in UeSessions(B)!Positive
    BY DEF UeSessions!SessionTypes, UeSessions!ContextTypes
  <2>2. n \in UeSessions(B)!Downlink
    BY ONLY <1>0, <2>1 DEF UeSessions!Downlink
  <2>3. 1 \in DOMAIN v5
    BY <1>1, SeqTail
  <2>q. QED
    BY ONLY <1>0, <2>2, <2>3
<1>3. CASE UeSessions(B)!Known(m.id)
  <2>1. UeSessions(B)!release_ue_context(bad) /\ v6' = Append(v6, n)
    BY <1>0, <1>3 DEF UeSessions!OnReleaseRequest
  <2>2. /\ v1'.cm = "idle" /\ v1'.id = v1.id /\ v1'.refs = v1.refs /\ v1'.releasing = v1.releasing
        /\ v12'.connections = v12.connections /\ UeSessions(B)!Deactivated'
    BY <2>1, AnReleased
  <2>3. UeSessions(B)!Connections'
    BY <1>1, <2>2, GuardingStays, ConnectionStays
  <2>4. ~UeSessions(B)!Carries(v6, "context") /\ (v3.id = 0 \/ v3.id = v1.id)
    <3>1. ~UeSessions(B)!Released /\ ~UeSessions(B)!Resuming
      BY <1>1, <1>3, AmfTakes DEF UeSessions!Released, UeSessions!Known
    <3>q. QED
      BY <3>1 DEF UeSessions!PathIInv, UeSessions!Together, UeSessions!Linked, UeSessions!DownOfLink, UeSessions!Carries, UeSessions!Cut
  <2>5. ~UeSessions(B)!Carries(v6', "context") /\ UeSessions(B)!LetsGo'
    <3>1. \A i \in DOMAIN v6 : i \in DOMAIN v6' /\ v6'[i] = v6[i]
      BY <1>2, <2>1, SeqAppend
    <3>2. Len(v6) + 1 \in DOMAIN v6' /\ v6'[Len(v6) + 1] = n
      BY <1>2, <2>1, SeqAppend
    <3>3. \A i \in DOMAIN v6' : i \in DOMAIN v6 \/ v6'[i] = n
      BY <1>2, <2>1, SeqAppend
    <3>q. QED
      BY <1>2, <2>2, <2>4, <3>1, <3>2, <3>3 DEF UeSessions!Carries, UeSessions!LetsGo
  <2>6. UeSessions(B)!Released'
    BY <1>1, <2>2, <2>4, <2>5 DEF UeSessions!Released
  <2>q. QED
    BY <2>3, <2>6 DEF UeSessions!PathIInv
<1>4. CASE ~UeSessions(B)!Known(m.id)
  <2>1. UNCHANGED <<v1, v2, v11, v6, v12>>
    BY <1>0, <1>4 DEF UeSessions!OnReleaseRequest
  <2>2. UeSessions(B)!Connections'
    BY <1>1, <2>1, GuardingStays, ConnectionStays
  <2>3. ~UeSessions(B)!Together
    BY <1>1, <1>2, <1>4 DEF UeSessions!Together, UeSessions!Linked, UeSessions!UpOfLink, UeSessions!Known
  <2>4. (UeSessions(B)!Cut => UeSessions(B)!Cut') /\ (UeSessions(B)!Released => UeSessions(B)!Released') /\ ~UeSessions(B)!Resuming
    BY <1>1, <2>1, AmfTakes DEF UeSessions!Cut
  <2>q. QED
    BY <2>2, <2>3, <2>4 DEF UeSessions!PathIInv
<1>q. QED
  BY <1>3, <1>4

LEMMA ResetKeeps ==
    ASSUME NEW CONSTANT B, UeSessions(B)!SessionTypes, UeSessions(B)!PathIInv, NEW bad \in SUBSET UeSessions(B)!Refs, UeSessions(B)!on_ng_reset(bad)
    PROVE  UeSessions(B)!PathIInv'
<1> USE SessionRecords
<1>0. PICK m : m = Head(v5)
  OBVIOUS
<1>1. /\ v5 # <<>> /\ v5' = Tail(v5) /\ m \in UeSessions(B)!Uplink /\ m.k = "reset" /\ Head(v5) = m /\ m = v5[1]
      /\ UNCHANGED <<v3, v4, v6, v7, v8, v9, v10>>
  BY <1>0, Takes DEF UeSessions!on_ng_reset
<1>2. 1 \in DOMAIN v5 /\ m.id = 0
  BY <1>1, SeqTail, UplinkIs
<1>3. ~UeSessions(B)!Together /\ ~UeSessions(B)!Resuming
  BY <1>1, <1>2, AmfTakes DEF UeSessions!Together, UeSessions!Linked, UeSessions!UpOfLink
<1>4. CASE v1.cm = "connected"
  <2>1. UeSessions(B)!release_ue_context(bad)
    BY <1>4 DEF UeSessions!on_ng_reset
  <2>2. /\ v1'.cm = "idle" /\ v1'.id = v1.id /\ v1'.refs = v1.refs /\ v1'.releasing = v1.releasing
        /\ v12'.connections = v12.connections /\ UeSessions(B)!Deactivated'
    BY <2>1, AnReleased
  <2>3. UeSessions(B)!Connections'
    BY <1>1, <2>2, GuardingStays, ConnectionStays
  <2>4. UeSessions(B)!Cut
    BY <1>3, <1>4 DEF UeSessions!PathIInv, UeSessions!Released
  <2>5. UeSessions(B)!Released'
    BY <1>1, <2>2, <2>4 DEF UeSessions!Cut, UeSessions!Released
  <2>q. QED
    BY <2>3, <2>5 DEF UeSessions!PathIInv
<1>5. CASE v1.cm # "connected"
  <2>1. UNCHANGED <<v1, v2, v11, v12>>
    BY <1>5 DEF UeSessions!on_ng_reset
  <2>2. UeSessions(B)!Connections'
    BY <1>1, <2>1, GuardingStays, ConnectionStays
  <2>3. UeSessions(B)!Released
    BY <1>3, <1>5 DEF UeSessions!PathIInv, UeSessions!Cut
  <2>4. UeSessions(B)!Released'
    BY <1>1, <2>1, <2>3, AmfTakes
  <2>q. QED
    BY <2>2, <2>4 DEF UeSessions!PathIInv
<1>q. QED
  BY <1>4, <1>5

LEMMA ServiceRequestKeeps ==
    ASSUME NEW CONSTANT B, UeSessions(B)!SessionTypes, UeSessions(B)!PathIInv, UeSessions(B)!on_service_request
    PROVE  UeSessions(B)!PathIInv'
<1> USE SessionRecords
<1>0. PICK m : m = Head(v5)
  OBVIOUS
<1>1. /\ v5 # <<>> /\ v5' = Tail(v5) /\ m \in UeSessions(B)!Uplink /\ m.k = "return" /\ Head(v5) = m /\ m = v5[1]
      /\ UNCHANGED <<v3, v4, v7, v8, v9, v11, v12>>
  BY <1>0, Takes DEF UeSessions!on_service_request
<1>2. PICK left, wanted : /\ left = DOMAIN v1.refs \ UeSessions(B)!Dropped(m)
                          /\ wanted = IF m.kind = "service" THEN left ELSE left \cap m.data
  OBVIOUS
<1>3. PICK psis, n : /\ psis = {p \in wanted : v1.refs[p] \in DOMAIN v2}
                     /\ n = [k |-> "context", id |-> v12.connections, active |-> left, psis |-> psis]
  OBVIOUS
<1>4. /\ v1.cm = "idle"
      /\ v1' = [v1 EXCEPT !.cm = "connected", !.id = v12.connections, !.refs = UeSessions(B)!Keep(v1.refs, left)]
      /\ \E refs, bad : UeSessions(B)!release_sm_context(refs, bad)
  BY <1>0, <1>2 DEF UeSessions!on_service_request
<1>5. /\ v1'.cm = "connected" /\ v1'.id = v12.connections /\ v1'.refs = UeSessions(B)!Keep(v1.refs, left)
      /\ v1'.releasing = v1.releasing
  BY <1>4
<1>6. v6' = Append(v6, n)
  BY <1>0, <1>2, <1>3, <1>5 DEF UeSessions!on_service_request
<1>7. left = DOMAIN v1.refs \cap m.status /\ psis \subseteq left
  BY <1>2, <1>3 DEF UeSessions!Dropped
<1>8. n \in UeSessions(B)!Downlink /\ n.k = "context" /\ n.id = v1'.id /\ n.active = left /\ n.psis = psis
  <2>1. v12.connections \in UeSessions(B)!Positive
    BY DEF UeSessions!SessionTypes, UeSessions!BoundTypes
  <2>2. left \in SUBSET B.psis /\ psis \in SUBSET B.psis
    BY <1>7
  <2>q. QED
    BY <1>3, <1>5, <2>1, <2>2 DEF UeSessions!Downlink
<1>9. DOMAIN v1'.refs = left /\ \A p \in left : p \in DOMAIN v1.refs /\ v1'.refs[p] = v1.refs[p]
  <2>1. /\ DOMAIN UeSessions(B)!Keep(v1.refs, left) = DOMAIN v1.refs \cap left
        /\ \A p \in DOMAIN v1.refs \cap left : UeSessions(B)!Keep(v1.refs, left)[p] = v1.refs[p]
    BY DEF UeSessions!Keep, UeSessions!Drop
  <2>q. QED
    BY <1>5, <1>7, <2>1
<1>10. DOMAIN v2' \subseteq DOMAIN v2 /\ \A r \in DOMAIN v2' : v2'[r] = v2[r]
  <2>1. PICK refs, bad : UeSessions(B)!release_sm_context(refs, bad)
    BY <1>4
  <2>2. DOMAIN v2' = DOMAIN v2 \ (refs \ bad)
    BY <2>1 DEF UeSessions!release_sm_context, UeSessions!Drop
  <2>3. \A r \in DOMAIN v2' : v2'[r] = v2[r]
    BY <2>1, SmfReleased
  <2>q. QED
    BY <2>2, <2>3
<1>11. UeSessions(B)!Released
  BY <1>4 DEF UeSessions!PathIInv, UeSessions!Together, UeSessions!Linked, UeSessions!Cut, UeSessions!Resuming
<1>12. /\ v5' = <<>> /\ v1.id < v1'.id /\ v3.id = 0 /\ v4.cm = "returning" /\ m.status = v4.ses
       /\ v1.id \in Nat /\ v1'.id \in Nat
  <2>1. 1 \in DOMAIN v5 /\ Len(v5) \in Nat
    BY <1>1, SeqTail
  <2>2. /\ 1 = Len(v5) /\ v1.id < v12.connections /\ v3.id = 0 /\ v4.cm = "returning" /\ m.status = v4.ses
    BY <1>1, <2>1 DEF UeSessions!PathIInv, UeSessions!Connections, UeSessions!ReturnsLast
  <2>3. v5' \in Seq(UeSessions(B)!Uplink) /\ Len(v5') = 0
    BY <1>1, <2>2, SeqTail
  <2>4. v5' = <<>>
    BY <2>3
  <2>5. v12.connections \in Nat
    BY DEF UeSessions!SessionTypes, UeSessions!BoundTypes, UeSessions!Positive
  <2>q. QED
    BY <1>5, <2>2, <2>4, <2>5
<1>13. /\ \A g \in v8 : g.id \in Nat /\ g.id <= v1.id
       /\ \A i \in DOMAIN v7 : v7[i].id \in Nat /\ (v7[i].k = "guard" => v7[i].id <= v1.id)
  <2>1. \A g \in v8 : g.id \in Nat
    BY DEF UeSessions!SessionTypes, UeSessions!LinkTypes, UeSessions!Guards, UeSessions!Positive
  <2>2. \A i \in DOMAIN v7 : v7[i].id \in Nat
    <3>1. v7 \in Seq(UeSessions(B)!Commands)
      OBVIOUS
    <3>2. \A i \in DOMAIN v7 : v7[i] \in UeSessions(B)!Commands
      BY ONLY <3>1
    <3>q. QED
      BY <3>2, CommandIs
  <2>q. QED
    BY <2>1, <2>2 DEF UeSessions!PathIInv, UeSessions!Connections, UeSessions!Guarding
<1>14. UeSessions(B)!Guarding' /\ \A p : ~UeSessions(B)!Guarded(p)'
  BY <1>1, <1>12, <1>13 DEF UeSessions!Guarding, UeSessions!Guarded, UeSessions!Of
<1>15. UeSessions(B)!Connections'
  <2>1. UeSessions(B)!ReturnsLast'
    BY <1>12 DEF UeSessions!ReturnsLast
  <2>q. QED
    BY <1>1, <1>5, <1>12, <1>14, <2>1 DEF UeSessions!PathIInv, UeSessions!Connections, UeSessions!Apart
<1>16. UeSessions(B)!Deactivated'
  BY <1>1, <1>9, <1>10, <1>11 DEF UeSessions!Released, UeSessions!Deactivated
<1>17. PICK c : c = Len(v6) + 1
  OBVIOUS
<1>18. /\ c \in DOMAIN v6' /\ v6'[c] = n
       /\ \A i \in DOMAIN v6' : ~(c < i)
       /\ \A i \in DOMAIN v6' : i < c => i \in DOMAIN v6 /\ v6'[i] = v6[i]
  <2>1. v6 \in Seq(UeSessions(B)!Downlink)
    OBVIOUS
  <2>q. QED
    BY <1>6, <1>8, <1>17, <2>1, SeqAppend
<1>19. \A p : UeSessions(B)!Held(p)' => p \in left
  BY <1>9, <1>14 DEF UeSessions!Held, UeSessions!Due
<1>20. UeSessions(B)!ResumesAt(c)'
  <2>1. \A i \in DOMAIN v6' : i < c => v6'[i].k # "context"
    BY <1>11, <1>18 DEF UeSessions!Released, UeSessions!Carries
  <2>2. \A p : ~UeSessions(B)!Due(p)'
    BY <1>14 DEF UeSessions!Due
  <2>q. QED
    BY <1>1, <1>7, <1>8, <1>9, <1>12, <1>18, <1>19, <2>1, <2>2 DEF UeSessions!ResumesAt
<1>21. UeSessions(B)!Resuming'
  BY <1>1, <1>5, <1>12, <1>16, <1>18, <1>20 DEF UeSessions!Resuming
<1>q. QED
  BY <1>15, <1>21 DEF UeSessions!PathIInv

LEMMA PathInit == ASSUME NEW CONSTANT B PROVE UeSessions(B)!Init => UeSessions(B)!PathIInv
<1> SUFFICES ASSUME UeSessions(B)!Init PROVE UeSessions(B)!PathIInv
  OBVIOUS
<1>1. /\ v1.cm = "connected" /\ v1.id = 1 /\ DOMAIN v1.refs = {} /\ v1.releasing = {}
      /\ v3.id = 1 /\ DOMAIN v3.ses = {} /\ v4.cm = "connected" /\ v4.ses = {} /\ v4.asked = {}
      /\ v5 = <<>> /\ v6 = <<>> /\ v7 = <<>> /\ v8 = {} /\ v12.connections = 1
  BY NothingIs DEF UeSessions!Init
<1>2. DOMAIN v5 = {} /\ DOMAIN v6 = {} /\ DOMAIN v7 = {}
  BY <1>1
<1>3. UeSessions(B)!Connections
  BY <1>1, <1>2 DEF UeSessions!Connections, UeSessions!Guarding, UeSessions!Apart, UeSessions!ReturnsLast
<1>4. UeSessions(B)!Linked
  BY <1>1, <1>2 DEF UeSessions!Linked, UeSessions!UpOfLink, UeSessions!DownOfLink
<1>5. ASSUME NEW p \in B.psis PROVE UeSessions(B)!ThePath(p)
  <2>1. /\ ~UeSessions(B)!Asking(p) /\ ~UeSessions(B)!Answering(p) /\ ~UeSessions(B)!Held(p) /\ ~UeSessions(B)!Due(p) /\ ~UeSessions(B)!Active(p) /\ UeSessions(B)!Cleared(p)
        /\ ~UeSessions(B)!Has(v5, "complete", p) /\ ~UeSessions(B)!Has(v6, "reject", p) /\ ~UeSessions(B)!Refused(v5, p)
    BY <1>1, <1>2 DEF UeSessions!Asking, UeSessions!Answering, UeSessions!Held, UeSessions!Due, UeSessions!Active, UeSessions!Cleared, UeSessions!Has, UeSessions!Refused, UeSessions!Followed
  <2>2. UeSessions(B)!AsksLast(v5, p) /\ UeSessions(B)!AnsweredOnce(v6, p)
    BY <1>2 DEF UeSessions!AsksLast, UeSessions!AnsweredOnce
  <2>q. QED
    BY <1>1, <2>1, <2>2 DEF UeSessions!ThePath
<1>q. QED
  BY <1>3, <1>4, <1>5 DEF UeSessions!PathIInv, UeSessions!Together

LEMMA PathStep ==
    ASSUME NEW CONSTANT B, UeSessions(B)!SessionTypes, UeSessions(B)!PathIInv, UeSessions(B)!Next
    PROVE  UeSessions(B)!PathIInv'
<1>1. CASE UeSessions(B)!N2Step
  BY <1>1, EstablishedKeeps, CompleteKeeps, SetupResponseKeeps, ReleaseResponseKeeps, ContextResponseKeeps,
     ServiceRequestKeeps, ReleaseRequestKeeps, ResetKeeps DEF UeSessions!N2Step
<1>2. CASE UeSessions(B)!CommandStep
  BY <1>2, ModificationKeeps, NetworkReleaseKeeps, ExpiryKeeps DEF UeSessions!CommandStep
<1>3. CASE UeSessions(B)!GnbStep
  BY <1>3, GnbSetsUpKeeps, GnbReleasesKeeps, GnbRejectsKeeps, GnbModifiesKeeps, GnbLetsGoKeeps, GnbResumesKeeps DEF UeSessions!GnbStep
<1>4. CASE UeSessions(B)!SbiStep
  BY <1>4, SbiKeeps
<1>5. CASE \E p \in B.psis : UeSessions(B)!UeEstablish(p)
  BY <1>5, EstablishKeeps
<1>6. CASE (\E p \in B.psis : UeSessions(B)!UeForgets(p)) \/ \E kind \in B.returns, data \in SUBSET B.psis : UeSessions(B)!UeReturns(kind, data)
  BY <1>6, UeIdleKeeps
<1>7. CASE (\E p \in B.psis : UeSessions(B)!modify_policy(p) \/ UeSessions(B)!release_session(p)) \/ \E g \in v8 : UeSessions(B)!GuardFires(g)
  BY <1>7, QuietSteps
<1>8. CASE UeSessions(B)!GnbAsksRelease \/ UeSessions(B)!GnbResets
  BY <1>8, GnbEndsKeeps
<1>q. QED
  BY <1>1, <1>2, <1>3, <1>4, <1>5, <1>6, <1>7, <1>8 DEF UeSessions!Next

LEMMA PathStutters == ASSUME NEW CONSTANT B, UeSessions(B)!PathIInv, UNCHANGED UeSessions(B)!vars PROVE UeSessions(B)!PathIInv'
<1> USE DEF UeSessions!vars
<1>1. UeSessions(B)!Connections'
  BY DEF UeSessions!PathIInv, UeSessions!Connections, UeSessions!Guarding, UeSessions!Apart, UeSessions!ReturnsLast
<1>2. \A p : (UeSessions(B)!Held(p)' <=> UeSessions(B)!Held(p)) /\ (UeSessions(B)!Due(p)' <=> UeSessions(B)!Due(p))
  BY DEF UeSessions!Held, UeSessions!Due, UeSessions!Guarded
<1>3. \A p : UeSessions(B)!ThePath(p) => UeSessions(B)!ThePath(p)'
  <2>1. \A p : /\ (UeSessions(B)!Active(p)' <=> UeSessions(B)!Active(p)) /\ (UeSessions(B)!Cleared(p)' <=> UeSessions(B)!Cleared(p)) /\ UeSessions(B)!Tunnel(p)' = UeSessions(B)!Tunnel(p)
               /\ (UeSessions(B)!Asking(p)' <=> UeSessions(B)!Asking(p)) /\ (UeSessions(B)!Answering(p)' <=> UeSessions(B)!Answering(p))
    BY DEF UeSessions!Active, UeSessions!Cleared, UeSessions!Tunnel, UeSessions!Asking, UeSessions!Answering
  <2>q. QED
    BY <1>2, <2>1 DEF UeSessions!ThePath
<1>4. UeSessions(B)!Together => UeSessions(B)!Together'
  BY <1>3 DEF UeSessions!Together, UeSessions!Linked, UeSessions!UpOfLink, UeSessions!DownOfLink
<1>5. UeSessions(B)!Deactivated => UeSessions(B)!Deactivated'
  BY DEF UeSessions!Deactivated
<1>6. (UeSessions(B)!Cut => UeSessions(B)!Cut') /\ (UeSessions(B)!Released => UeSessions(B)!Released')
  BY <1>5 DEF UeSessions!Cut, UeSessions!Released, UeSessions!LetsGo
<1>7. \A c : UeSessions(B)!ResumesAt(c) => UeSessions(B)!ResumesAt(c)'
  BY <1>2 DEF UeSessions!ResumesAt
<1>8. UeSessions(B)!Resuming => UeSessions(B)!Resuming'
  BY <1>5, <1>7 DEF UeSessions!Resuming
<1>q. QED
  BY <1>1, <1>4, <1>6, <1>8 DEF UeSessions!PathIInv

\* With nothing on its way the tunnels agree.
LEMMA PathFollows == ASSUME NEW CONSTANT B, UeSessions(B)!SessionTypes, UeSessions(B)!PathIInv PROVE UeSessions(B)!DownlinkFollowsRan
<1> USE SessionRecords
<1> SUFFICES ASSUME v5 = <<>>, v6 = <<>> PROVE
        /\ DOMAIN v3.ses \subseteq DOMAIN v1.refs
        /\ \A p \in DOMAIN v1.refs \ v1.releasing :
            v1.refs[p] \in DOMAIN v2 \ v11 =>
                v2[v1.refs[p]].dl = IF p \in DOMAIN v3.ses THEN v3.ses[p] ELSE 0
  BY DEF UeSessions!DownlinkFollowsRan
<1>1. DOMAIN v5 = {} /\ DOMAIN v6 = {}
  OBVIOUS
<1>2. ~UeSessions(B)!Cut /\ ~UeSessions(B)!Resuming
  BY <1>1 DEF UeSessions!Cut, UeSessions!Resuming, UeSessions!Carries
<1>3. CASE UeSessions(B)!Together
  <2>1. ASSUME NEW p \in DOMAIN v3.ses PROVE p \in DOMAIN v1.refs
    <3>1. p \in B.psis
      <4>1. DOMAIN v3.ses \subseteq B.psis
        BY MapOf
      <4>q. QED
        BY <4>1
    <3>2. ~UeSessions(B)!Has(v6, "release", p)
      BY <1>1 DEF UeSessions!Has
    <3>q. QED
      BY <1>3, <2>1, <3>1, <3>2 DEF UeSessions!Together, UeSessions!ThePath, UeSessions!Cleared
  <2>2. ASSUME NEW p \in DOMAIN v1.refs \ v1.releasing, v1.refs[p] \in DOMAIN v2 \ v11
        PROVE  v2[v1.refs[p]].dl = UeSessions(B)!Tunnel(p)
    <3>1. p \in B.psis /\ UeSessions(B)!Active(p) /\ ~UeSessions(B)!Reported(v5, p)
      BY <1>1, <2>2 DEF UeSessions!Active, UeSessions!Reported
    <3>q. QED
      BY <1>3, <2>2, <3>1 DEF UeSessions!Together, UeSessions!ThePath
  <2>q. QED
    BY <2>1, <2>2 DEF UeSessions!Tunnel
<1>4. CASE UeSessions(B)!Released
  <2>1. v3.id = 0
    BY <1>1, <1>4 DEF UeSessions!Released, UeSessions!LetsGo
  <2>2. DOMAIN v3.ses = {}
    BY <2>1, NothingIs DEF UeSessions!PathIInv, UeSessions!Connections, UeSessions!Apart
  <2>q. QED
    BY <1>4, <2>2 DEF UeSessions!Released, UeSessions!Deactivated
<1>q. QED
  BY <1>2, <1>3, <1>4 DEF UeSessions!PathIInv

\* The UE that returns is told of the sessions the AMF tracks.
LEMMA PathReconciles == ASSUME NEW CONSTANT B, UeSessions(B)!SessionTypes, UeSessions(B)!PathIInv PROVE UeSessions(B)!Reconciled
<1> USE SessionRecords
<1> SUFFICES ASSUME UeSessions(B)!GnbStep, v4.cm = "returning", v4'.cm = "connected", Len(v6) = 1 PROVE v4'.ses = DOMAIN v1.refs
  BY DEF UeSessions!Reconciled
<1>0. PICK m : m = Head(v6)
  OBVIOUS
<1>1. PICK refused \in SUBSET B.psis : UeSessions(B)!GnbResumes(refused)
  <2>1. \A lost \in BOOLEAN : ~UeSessions(B)!GnbSetsUp(lost) /\ ~UeSessions(B)!GnbReleases(lost)
    <3>1. \A lost \in BOOLEAN : UeSessions(B)!GnbSetsUp(lost) => v4'.cm = v4.cm
      BY DEF UeSessions!GnbSetsUp
    <3>2. \A lost \in BOOLEAN : UeSessions(B)!GnbReleases(lost) => v4'.cm = v4.cm
      BY DEF UeSessions!GnbReleases
    <3>q. QED
      BY <3>1, <3>2
  <2>2. ~UeSessions(B)!GnbRejects /\ ~UeSessions(B)!GnbModifies
    BY DEF UeSessions!GnbRejects, UeSessions!GnbModifies
  <2>3. ~UeSessions(B)!GnbLetsGo
    BY DEF UeSessions!GnbLetsGo, UeSessions!GnbIdle
  <2>q. QED
    BY <2>1, <2>2, <2>3 DEF UeSessions!GnbStep
<1>2. /\ v6 # <<>> /\ m \in UeSessions(B)!Downlink /\ m.k = "context" /\ m = v6[1] /\ v4'.ses = v4.ses \cap m.active
  BY <1>0, <1>1, Takes DEF UeSessions!GnbResumes
<1>3. DOMAIN v6 = {1}
  BY DEF UeSessions!SessionTypes, UeSessions!LinkTypes
<1>4. UeSessions(B)!Resuming
  BY <1>2, <1>3 DEF UeSessions!PathIInv, UeSessions!Together, UeSessions!Linked, UeSessions!DownOfLink, UeSessions!Cut, UeSessions!Released, UeSessions!Carries
<1>5. UeSessions(B)!ResumesAt(1)
  BY <1>3, <1>4 DEF UeSessions!Resuming
<1>6. m.active \subseteq v4.ses /\ m.active \subseteq B.psis
  BY <1>2, <1>5, DownlinkIs DEF UeSessions!ResumesAt
<1>7. \A p \in B.psis : p \in DOMAIN v1.refs <=> p \in m.active
  BY <1>2, <1>3, <1>5, <1>6 DEF UeSessions!ResumesAt, UeSessions!Held
<1>q. QED
  BY <1>2, <1>6, <1>7

-----------------------------------------------------------------------------
(* The parts and their bounds. *)

\* The TA lists a gNB may broadcast.
TaLists == [g \in {"g1", "g2"} |-> IF g = "g1" THEN {<<1, 2>>, <<2>>} ELSE {<<2, 3>>, <<3>>}]

\* The two UEs of the gNB and the two slices are interchangeable.
Interchangeable == Permutations({a, b})

\* A UE that registers twice, the second time before the first has ended.
SomeRegistrations ==
    [supis |-> {"supi"}, assocs |-> {"assoc"}, ids |-> 2, registrations |-> 2, sends |-> 2,
     anReleases |-> 0, withdrawals |-> 0, updates |-> 0, losses |-> 0,
     refusals |-> {"auth", "nssai", "error"}]

\* One registration with every kind of refusal, then an update and a withdrawal.
SomeResync ==
    [SomeRegistrations EXCEPT !.ids = 1, !.registrations = 1, !.withdrawals = 1, !.updates = 1,
                              !.refusals = {"auth", "synch", "nssai", "error"}]

\* Two registrations, an AN release in between: a UE returns, or registers while the context it
\* left behind is evicted.
SomeReturns ==
    [SomeRegistrations EXCEPT !.ids = 3, !.sends = 1, !.anReleases = 1, !.refusals = {"error"}]

\* One PDU session, made again after a release; one call to the SMF fails.
SomeSession ==
    [psis |-> {1}, returns |-> {"service", "update"}, establish |-> 2, network |-> 1,
     connections |-> 2, lost |-> 1, failed |-> 1, forgets |-> 1]

\* Two PDU sessions of one UE.
SomeTwoSessions == [SomeSession EXCEPT !.psis = {1, 2}, !.failed = 0]

\* Two gNBs that share a TAC and may change their plans.
SomePaging ==
    [gnbs |-> {"g1", "g2"}, tacs |-> {1, 2, 3}, default |-> 1, plans |-> TaLists, cap |-> 3,
     sends |-> 3, calls |-> 1, updates |-> 1, faults |-> 2]

\* A change of the subscription and one of the policy, in either order.
SomeSlices ==
    [slices |-> {a, b}, tacs |-> {1}, rates |-> {10, 20}, provisions |-> 1, policies |-> 1,
     tables |-> 0, idle |-> 1, sessions |-> 1, unreachable |-> 0]

\* Two tracking areas with slices of their own.
SomeAreas ==
    [slices |-> {a, b}, tacs |-> {1, 2}, rates |-> {10, 20}, provisions |-> 1, policies |-> 0,
     tables |-> 1, idle |-> 0, sessions |-> 0, unreachable |-> 1]

\* The registration life cycle, with the bounds of either part.
Registrations == INSTANCE AmfRegistrationProofs WITH
    Supis <- TheRegistrations.supis, Assocs <- TheRegistrations.assocs, MaxIds <- TheRegistrations.ids,
    MaxRegistrations <- TheRegistrations.registrations, MaxSends <- TheRegistrations.sends,
    MaxAnReleases <- TheRegistrations.anReleases, MaxWithdrawals <- TheRegistrations.withdrawals,
    MaxUpdates <- TheRegistrations.updates, MaxLosses <- TheRegistrations.losses,
    Refusals <- TheRegistrations.refusals,
    ues <- v1, directory <- v2, guti <- v3, retained <- v4, evicted <- v5, nextId <- v6,
    timers <- v7, inbox <- v8, uecmTasks <- v9, pcf <- v10, smf <- v11, uecm <- v12, who <- v13,
    at <- v14, up <- v15, current <- v16, known <- v17, replies <- v18, spent <- v19

Resync == INSTANCE AmfRegistrationProofs WITH
    Supis <- TheResync.supis, Assocs <- TheResync.assocs, MaxIds <- TheResync.ids,
    MaxRegistrations <- TheResync.registrations, MaxSends <- TheResync.sends,
    MaxAnReleases <- TheResync.anReleases, MaxWithdrawals <- TheResync.withdrawals,
    MaxUpdates <- TheResync.updates, MaxLosses <- TheResync.losses,
    Refusals <- TheResync.refusals,
    ues <- v1, directory <- v2, guti <- v3, retained <- v4, evicted <- v5, nextId <- v6,
    timers <- v7, inbox <- v8, uecmTasks <- v9, pcf <- v10, smf <- v11, uecm <- v12, who <- v13,
    at <- v14, up <- v15, current <- v16, known <- v17, replies <- v18, spent <- v19

Returns == INSTANCE AmfRegistrationProofs WITH
    Supis <- TheReturns.supis, Assocs <- TheReturns.assocs, MaxIds <- TheReturns.ids,
    MaxRegistrations <- TheReturns.registrations, MaxSends <- TheReturns.sends,
    MaxAnReleases <- TheReturns.anReleases, MaxWithdrawals <- TheReturns.withdrawals,
    MaxUpdates <- TheReturns.updates, MaxLosses <- TheReturns.losses,
    Refusals <- TheReturns.refusals,
    ues <- v1, directory <- v2, guti <- v3, retained <- v4, evicted <- v5, nextId <- v6,
    timers <- v7, inbox <- v8, uecmTasks <- v9, pcf <- v10, smf <- v11, uecm <- v12, who <- v13,
    at <- v14, up <- v15, current <- v16, known <- v17, replies <- v18, spent <- v19

\* Two UEs over F1, PDU sessions set up with the context.
F1 == INSTANCE GnbSplit WITH
    UEs <- {a, b}, Split <- TRUE, CuIds <- 1000, Resume <- TRUE, MaxConnects <- 2, MaxNas <- 2,
    MaxUplinks <- 1, MaxSessions <- 0, MaxPackets <- 1, MaxPages <- 0, MaxLosses <- 0,
    MaxAssociations <- 1, MaxQueue <- 2, ue <- v1, up <- v2, down <- v3, f1 <- v4, du <- v5,
    gnb <- v6, n2 <- v7, amf <- v8, n3 <- v9, spent <- v10

\* Two UEs over the plain Uu, with paging and losses.
Uu == INSTANCE GnbSplit WITH
    UEs <- {a, b}, Split <- FALSE, CuIds <- 1000, Resume <- TRUE, MaxConnects <- 2, MaxNas <- 2,
    MaxUplinks <- 1, MaxSessions <- 1, MaxPackets <- 1, MaxPages <- 1, MaxLosses <- 1,
    MaxAssociations <- 1, MaxQueue <- 2, ue <- v1, up <- v2, down <- v3, f1 <- v4, du <- v5,
    gnb <- v6, n2 <- v7, amf <- v8, n3 <- v9, spent <- v10

ASSUME MobilityAssumption ==
    /\ Registrations!RegistrationAssumption /\ Resync!RegistrationAssumption
    /\ Returns!RegistrationAssumption
    /\ UeSessions(TheSession)!SessionBounds /\ UeSessions(TheTwoSessions)!SessionBounds
    /\ Paging(ThePaging)!PagingAssumption
    /\ Selection(TheSlices)!SelectionBounds /\ Selection(TheAreas)!SelectionBounds
    /\ F1!BoundsAssumption /\ Uu!BoundsAssumption

-----------------------------------------------------------------------------
(* The variables a part leaves unused. *)

Past8 == <<v9, v10, v11, v12, v13, v14, v15, v16, v17, v18, v19>>
Past10 == <<v11, v12, v13, v14, v15, v16, v17, v18, v19>>
Past12 == <<v13, v14, v15, v16, v17, v18, v19>>
Blank12 == v13 = None /\ v14 = None /\ v15 = None /\ v16 = None /\ v17 = None /\ v18 = None /\ v19 = None
Blank10 == v11 = None /\ v12 = None /\ Blank12
Blank8 == v9 = None /\ v10 = None /\ Blank10

MobilityInit ==
    /\ part \in Parts
    /\ \/ part = "registrations" /\ Registrations!Init
       \/ part = "resync" /\ Resync!Init
       \/ part = "returns" /\ Returns!Init
       \/ part = "session" /\ UeSessions(TheSession)!Init /\ Blank12
       \/ part = "sessions" /\ UeSessions(TheTwoSessions)!Init /\ Blank12
       \/ part = "paging" /\ Paging(ThePaging)!Init /\ Blank8
       \/ part = "slices" /\ Selection(TheSlices)!Init /\ Blank10
       \/ part = "areas" /\ Selection(TheAreas)!Init /\ Blank10
       \/ part = "f1" /\ F1!Init /\ Blank10
       \/ part = "uu" /\ Uu!Init /\ Blank10

MobilityNext ==
    \/ part = "registrations" /\ Registrations!Next /\ UNCHANGED part
    \/ part = "resync" /\ Resync!Next /\ UNCHANGED part
    \/ part = "returns" /\ Returns!Next /\ UNCHANGED part
    \/ part = "session" /\ UeSessions(TheSession)!Next /\ UNCHANGED <<part, Past12>>
    \/ part = "sessions" /\ UeSessions(TheTwoSessions)!Next /\ UNCHANGED <<part, Past12>>
    \/ part = "paging" /\ Paging(ThePaging)!Next /\ UNCHANGED <<part, Past8>>
    \/ part = "slices" /\ Selection(TheSlices)!Next /\ UNCHANGED <<part, Past10>>
    \/ part = "areas" /\ Selection(TheAreas)!Next /\ UNCHANGED <<part, Past10>>
    \/ part = "f1" /\ F1!Next /\ UNCHANGED <<part, Past10>>
    \/ part = "uu" /\ Uu!Next /\ UNCHANGED <<part, Past10>>

MobilitySpec == MobilityInit /\ [][MobilityNext]_mobilityVars

-----------------------------------------------------------------------------
(* Properties *)

\* One pending_retx slot is enough for a registration: the message in it is the one the
\* registration waits for, in whatever order expiries, answers, refusals and the UE's next
\* attempt come, and no unfinished registration is without a guard (AMF, main.rs).
SlotFollowsRegistration ==
    /\ part = "registrations" => Registrations!SlotFollowsRegistration
    /\ part = "resync" => Resync!SlotFollowsRegistration

\* Through AN release, return, reconciliation, guard expiry and refusal no SM context stays
\* at the SMF without a UE context that will release it, but the ones the code is known to
\* let go of: a failed call, an overwritten entry, a release racing the UE's return. And
\* where a UE registers anew while the sweep evicts the context it left, no two contexts
\* share an SM context, a policy association or a 5G-TMSI, and none is referred to that
\* its AMF has released (evict_stale_retained, off the lock).
SmContextsAreOwned ==
    /\ part = "session" => UeSessions(TheSession)!SmContextsAreOwned
    /\ part = "sessions" => UeSessions(TheTwoSessions)!SmContextsAreOwned
    /\ part = "returns" => Returns!RefsAreLive /\ Returns!TmsisUnambiguous

\* At rest the SMF sends a session's downlink into the tunnel that the gNB holds for it,
\* nowhere while the UE is idle, and the RAN has no session the AMF has forgotten.
DownlinkFollowsRan ==
    /\ part = "session" => UeSessions(TheSession)!DownlinkFollowsRan
    /\ part = "sessions" => UeSessions(TheTwoSessions)!DownlinkFollowsRan

\* The UE and the AMF agree when the UE enters: coming back from CM-IDLE they end the PDU
\* Session Status exchange with the same sessions, and a registration grants slices that
\* are subscribed and deployed where the UE is.
EntryAgrees ==
    [][/\ part = "session" => UeSessions(TheSession)!Reconciled
       /\ part = "sessions" => UeSessions(TheTwoSessions)!Reconciled
       /\ part = "areas" => Selection(TheAreas)!GrantsDeployed]_mobilityVars

\* However Service Requests and updates over several gNBs changed the registration area,
\* every TAC in which the UE may be silently is paged.
UeAreaIsPaged == part = "paging" => Paging(ThePaging)!UeAreaIsPaged

\* When nothing is on its way the RAN enforces the rate and the RFSP in force, where one is
\* (a value withdrawn is not lifted there: SliceSelection!WithdrawnIsLifted), no session
\* runs in a slice that is not allowed, and the UE knows the allowed slices, whichever of
\* subscription and policy changed last, connected or idle.
SlicesAreEnforced ==
    part = "slices" => Selection(TheSlices)!RanEnforcesEffective /\ Selection(TheSlices)!SlicesAreAllowed

\* The gNB keeps two UEs apart, over F1 and over the Uu, through re-camping and release:
\* each gets its own NAS and its own packets, the AMF hears each on its own context, and
\* the NAS of a context setup goes on the air only ciphered, once AS security is confirmed.
UesAreKeptApart ==
    /\ part = "f1" => F1!PeersAreContexts /\ F1!NasIsItsOwn /\ F1!DataIsItsOwn /\ F1!AcceptIsCiphered
    /\ part = "uu" => Uu!PeersAreContexts /\ Uu!NasIsItsOwn /\ Uu!DataIsItsOwn /\ Uu!AcceptIsCiphered

-----------------------------------------------------------------------------
(* The parts of a behaviour: a step of the composition is a step of the    *)
(* part the behaviour explores.                                            *)

LEMMA PartStays == [MobilityNext]_mobilityVars => part' = part
BY DEF MobilityNext, mobilityVars

LEMMA PartMoves ==
    ASSUME [MobilityNext]_mobilityVars
    PROVE  /\ part = "paging" => [Paging(ThePaging)!Next]_(Paging(ThePaging)!vars)
           /\ part = "slices" => [Selection(TheSlices)!Next]_(Selection(TheSlices)!vars)
           /\ part = "areas" => [Selection(TheAreas)!Next]_(Selection(TheAreas)!vars)
           /\ part = "session" => [UeSessions(TheSession)!Next]_(UeSessions(TheSession)!vars)
           /\ part = "sessions" => [UeSessions(TheTwoSessions)!Next]_(UeSessions(TheTwoSessions)!vars)
<1>1. CASE MobilityNext
  BY <1>1 DEF MobilityNext
<1>2. CASE UNCHANGED mobilityVars
  BY <1>2 DEF mobilityVars, Paging!vars, Selection!vars, UeSessions!vars
<1>q. QED
  BY <1>1, <1>2

\* What a behaviour that explores paging maintains.
PagingPart == part = "paging" => Paging(ThePaging)!PagingIInv

\* For any gNBs, TACs, TA lists and cap: however Service Requests, registration updates and
\* RAN configuration updates changed the registration area (on_service_request,
\* registration_area_for), every TAC in which the UE may be silently is one that page_ue
\* pages: no TAC the UE was told is cut off the list again.
THEOREM SilentUesArePaged == MobilitySpec => []UeAreaIsPaged
<1>1. MobilityInit => PagingPart
  <2> SUFFICES ASSUME MobilityInit, part = "paging" PROVE Paging(ThePaging)!PagingIInv
    BY DEF PagingPart
  <2>1. Paging(ThePaging)!Init
    BY DEF MobilityInit
  <2>q. QED
    BY <2>1, MobilityAssumption, PagingInit
<1>2. PagingPart /\ [MobilityNext]_mobilityVars => PagingPart'
  <2> SUFFICES ASSUME PagingPart, [MobilityNext]_mobilityVars, (part = "paging")'
               PROVE  Paging(ThePaging)!PagingIInv'
    BY DEF PagingPart
  <2>1. Paging(ThePaging)!PagingIInv /\ [Paging(ThePaging)!Next]_(Paging(ThePaging)!vars)
    BY PartStays, PartMoves DEF PagingPart
  <2>q. QED
    BY <2>1, MobilityAssumption, PagingStep
<1>3. PagingPart => UeAreaIsPaged
  BY DEF PagingPart, UeAreaIsPaged, Paging!PagingIInv
<1>q. QED
  BY <1>1, <1>2, <1>3, PTL DEF MobilitySpec

\* What a behaviour that explores subscription and policy maintains.
SlicesPart == part = "slices" => Selection(TheSlices)!SelectionIInv

\* For any slices, rates and numbers of changes: whichever of subscription and policy changed
\* last (apply_subscribed_change, the AM policy notification), once nothing is on its way the
\* RAN enforces the rate the AMF has in force and the RFSP it has in force, where it has one,
\* no session is left in a slice withdrawn, and the UE knows the allowed slices.
THEOREM RanIsToldInForce == MobilitySpec => []SlicesAreEnforced
<1>1. MobilityInit => SlicesPart
  <2> SUFFICES ASSUME MobilityInit, part = "slices" PROVE Selection(TheSlices)!SelectionIInv
    BY DEF SlicesPart
  <2>1. Selection(TheSlices)!Init
    BY DEF MobilityInit
  <2>q. QED
    BY <2>1, MobilityAssumption, SelectionInit
<1>2. SlicesPart /\ [MobilityNext]_mobilityVars => SlicesPart'
  <2> SUFFICES ASSUME SlicesPart, [MobilityNext]_mobilityVars, (part = "slices")'
               PROVE  Selection(TheSlices)!SelectionIInv'
    BY DEF SlicesPart
  <2>1. Selection(TheSlices)!SelectionIInv /\ [Selection(TheSlices)!Next]_(Selection(TheSlices)!vars)
    BY PartStays, PartMoves DEF SlicesPart
  <2>q. QED
    BY <2>1, MobilityAssumption, SelectionStep
<1>3. SlicesPart => SlicesAreEnforced
  BY SelectionSafe DEF SlicesPart, SlicesAreEnforced
<1>q. QED
  BY <1>1, <1>2, <1>3, PTL DEF MobilitySpec

\* What a behaviour that explores the PDU session leg maintains.
SessionsPart ==
    /\ part = "session" => /\ UeSessions(TheSession)!SessionTypes /\ UeSessions(TheSession)!SmContextsAreOwned
                           /\ UeSessions(TheSession)!PathIInv
    /\ part = "sessions" => /\ UeSessions(TheTwoSessions)!SessionTypes /\ UeSessions(TheTwoSessions)!SmContextsAreOwned
                            /\ UeSessions(TheTwoSessions)!PathIInv

\* Both session parts keep their types, the ownership of SM contexts and the paths.
LEMMA SessionsHold == MobilitySpec => []SessionsPart
<1>1. MobilityInit => SessionsPart
  <2> SUFFICES ASSUME MobilityInit PROVE SessionsPart
    OBVIOUS
  <2>1. ASSUME part = "session" PROVE UeSessions(TheSession)!Init
    BY <2>1 DEF MobilityInit
  <2>2. ASSUME part = "sessions" PROVE UeSessions(TheTwoSessions)!Init
    BY <2>2 DEF MobilityInit
  <2>3. part = "session" => UeSessions(TheSession)!SessionTypes /\ UeSessions(TheSession)!SmContextsAreOwned
    BY <2>1, MobilityAssumption, SessionInit
  <2>4. part = "sessions" => UeSessions(TheTwoSessions)!SessionTypes /\ UeSessions(TheTwoSessions)!SmContextsAreOwned
    BY <2>2, MobilityAssumption, SessionInit
  <2>5. /\ part = "session" => UeSessions(TheSession)!PathIInv
        /\ part = "sessions" => UeSessions(TheTwoSessions)!PathIInv
    BY <2>1, <2>2, PathInit
  <2>q. QED
    BY <2>3, <2>4, <2>5 DEF SessionsPart
<1>2. SessionsPart /\ [MobilityNext]_mobilityVars => SessionsPart'
  <2> SUFFICES ASSUME SessionsPart, [MobilityNext]_mobilityVars PROVE SessionsPart'
    OBVIOUS
  <2>0. part' = part
    BY PartStays
  <2>1. ASSUME part = "session"
        PROVE  (UeSessions(TheSession)!SessionTypes /\ UeSessions(TheSession)!SmContextsAreOwned /\ UeSessions(TheSession)!PathIInv)'
    <3>1. /\ UeSessions(TheSession)!SessionTypes /\ UeSessions(TheSession)!SmContextsAreOwned /\ UeSessions(TheSession)!PathIInv
          /\ [UeSessions(TheSession)!Next]_(UeSessions(TheSession)!vars)
      BY <2>1, PartMoves DEF SessionsPart
    <3>2. UeSessions(TheSession)!SessionTypes' /\ UeSessions(TheSession)!SmContextsAreOwned'
      BY <3>1, MobilityAssumption, SessionStep
    <3>3. UeSessions(TheSession)!PathIInv'
      BY <3>1, PathStep, PathStutters
    <3>q. QED
      BY <3>2, <3>3
  <2>2. ASSUME part = "sessions"
        PROVE  (UeSessions(TheTwoSessions)!SessionTypes /\ UeSessions(TheTwoSessions)!SmContextsAreOwned /\ UeSessions(TheTwoSessions)!PathIInv)'
    <3>1. /\ UeSessions(TheTwoSessions)!SessionTypes /\ UeSessions(TheTwoSessions)!SmContextsAreOwned /\ UeSessions(TheTwoSessions)!PathIInv
          /\ [UeSessions(TheTwoSessions)!Next]_(UeSessions(TheTwoSessions)!vars)
      BY <2>2, PartMoves DEF SessionsPart
    <3>2. UeSessions(TheTwoSessions)!SessionTypes' /\ UeSessions(TheTwoSessions)!SmContextsAreOwned'
      BY <3>1, MobilityAssumption, SessionStep
    <3>3. UeSessions(TheTwoSessions)!PathIInv'
      BY <3>1, PathStep, PathStutters
    <3>q. QED
      BY <3>2, <3>3
  <2>q. QED
    BY <2>0, <2>1, <2>2 DEF SessionsPart
<1>q. QED
  BY <1>1, <1>2, PTL DEF MobilitySpec

\* For any sessions of the UE, any number of establishments, network releases, connections,
\* lost messages and failed calls: an SM context at the SMF is in the UE context that will
\* release it, or is one of those the code is known to let go of (AmfSessions, astray). For
\* any registrations, AN releases and sweeps no reference of a UE context is shared, and
\* none is kept past the release of what it names (evict_stale_retained).
THEOREM SmContextsStayOwned == MobilitySpec => []SmContextsAreOwned
<1>1. SessionsPart /\ (part = "returns" => Returns!RefsAreLive /\ Returns!TmsisUnambiguous) => SmContextsAreOwned
  BY DEF SessionsPart, SmContextsAreOwned
<1>2. MobilitySpec => [](part = "returns" => Returns!RefsAreLive /\ Returns!TmsisUnambiguous)
  <2>1. part = "returns" /\ MobilityInit => Returns!Init
    BY DEF MobilityInit
  <2>2. part = "returns" /\ [MobilityNext]_mobilityVars => (part = "returns")' /\ [Returns!Next]_(Returns!vars)
    BY DEF MobilityNext, mobilityVars, Returns!vars, Returns!amfVars, Returns!nfVars, Returns!envVars
  <2>3. ~(part = "returns") /\ [MobilityNext]_mobilityVars => ~(part = "returns")'
    BY DEF MobilityNext, mobilityVars
  <2>4. Returns!Init /\ [][Returns!Next]_(Returns!vars) => []Returns!RefsAreLive
    BY Returns!ReferencesAreLive, MobilityAssumption DEF MobilityAssumption
  <2>5. Returns!Init /\ [][Returns!Next]_(Returns!vars) => []Returns!TmsisUnambiguous
    BY Returns!NamesAreUnambiguous, MobilityAssumption DEF MobilityAssumption
  <2>q. QED
    BY <2>1, <2>2, <2>3, <2>4, <2>5, PTL DEF MobilitySpec
<1>q. QED
  BY <1>1, <1>2, SessionsHold, PTL

\* With the same freedom, for a UE that repeats no request it waits for: once N2 is silent the
\* gNB has no session the AMF has forgotten, and the SMF sends a session's downlink into the
\* tunnel the gNB holds for it, nowhere while the UE is idle, unless it missed an update
\* (on_pdu_session_setup_response, on_initial_context_setup_response, release_ue_context).
THEOREM DownlinkIsRight == MobilitySpec => []DownlinkFollowsRan
<1>1. SessionsPart => DownlinkFollowsRan
  BY PathFollows DEF SessionsPart, DownlinkFollowsRan
<1>q. QED
  BY <1>1, SessionsHold, PTL

\* For any bounds: a UE back from CM-IDLE and the AMF end the PDU Session Status exchange with
\* the same sessions (on_service_request), whatever was released, forgotten or refused
\* meanwhile, and a registration the NSSF answers for grants subscribed and deployed slices
\* only (select_slices).
THEOREM EntryIsAgreed == MobilitySpec => EntryAgrees
<1>1. SessionsPart /\ [MobilityNext]_mobilityVars =>
        [/\ part = "session" => UeSessions(TheSession)!Reconciled
         /\ part = "sessions" => UeSessions(TheTwoSessions)!Reconciled
         /\ part = "areas" => Selection(TheAreas)!GrantsDeployed]_mobilityVars
  <2> SUFFICES ASSUME SessionsPart, [MobilityNext]_mobilityVars
               PROVE  /\ part = "session" => UeSessions(TheSession)!Reconciled
                      /\ part = "sessions" => UeSessions(TheTwoSessions)!Reconciled
                      /\ part = "areas" => Selection(TheAreas)!GrantsDeployed
    OBVIOUS
  <2>1. /\ part = "session" => UeSessions(TheSession)!Reconciled
        /\ part = "sessions" => UeSessions(TheTwoSessions)!Reconciled
    BY PathReconciles DEF SessionsPart
  <2>2. part = "areas" => Selection(TheAreas)!GrantsDeployed
    BY PartMoves, RegistrationGrants
  <2>q. QED
    BY <2>1, <2>2
<1>q. QED
  BY <1>1, SessionsHold, PTL DEF MobilitySpec, EntryAgrees

\* For any subscribers, associations and bounds, as long as no gNB asks for an AN release:
\* whatever order answers, losses, expiries, commands and failures come in, the message in
\* the one pending_retx slot is the one the registration waits for, one timer runs for it,
\* and an unfinished registration has its guard (on_nas_retx_expiry, on_authentication_failure,
\* on_registration_guard_expiry).
THEOREM SlotIsAlwaysRight ==
    ASSUME TheRegistrations.anReleases = 0, TheResync.anReleases = 0
    PROVE  MobilitySpec => []SlotFollowsRegistration
<1>1. MobilitySpec => [](part = "registrations" => Registrations!SlotFollowsRegistration)
  <2>1. part = "registrations" /\ MobilityInit => Registrations!Init
    BY DEF MobilityInit
  <2>2. part = "registrations" /\ [MobilityNext]_mobilityVars =>
          (part = "registrations")' /\ [Registrations!Next]_(Registrations!vars)
    BY DEF MobilityNext, mobilityVars, Registrations!vars, Registrations!amfVars, Registrations!nfVars,
           Registrations!envVars
  <2>3. ~(part = "registrations") /\ [MobilityNext]_mobilityVars => ~(part = "registrations")'
    BY DEF MobilityNext, mobilityVars
  <2>4. Registrations!Init /\ [][Registrations!Next]_(Registrations!vars) => []Registrations!SlotFollowsRegistration
    BY Registrations!OneSlotIsEnough, MobilityAssumption DEF MobilityAssumption
  <2>q. QED
    BY <2>1, <2>2, <2>3, <2>4, PTL DEF MobilitySpec
<1>2. MobilitySpec => [](part = "resync" => Resync!SlotFollowsRegistration)
  <2>1. part = "resync" /\ MobilityInit => Resync!Init
    BY DEF MobilityInit
  <2>2. part = "resync" /\ [MobilityNext]_mobilityVars => (part = "resync")' /\ [Resync!Next]_(Resync!vars)
    BY DEF MobilityNext, mobilityVars, Resync!vars, Resync!amfVars, Resync!nfVars, Resync!envVars
  <2>3. ~(part = "resync") /\ [MobilityNext]_mobilityVars => ~(part = "resync")'
    BY DEF MobilityNext, mobilityVars
  <2>4. Resync!Init /\ [][Resync!Next]_(Resync!vars) => []Resync!SlotFollowsRegistration
    BY Resync!OneSlotIsEnough, MobilityAssumption DEF MobilityAssumption
  <2>q. QED
    BY <2>1, <2>2, <2>3, <2>4, PTL DEF MobilitySpec
<1>q. QED
  BY <1>1, <1>2, PTL DEF SlotFollowsRegistration
=============================================================================
