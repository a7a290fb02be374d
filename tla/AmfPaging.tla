------------------------------ MODULE AmfPaging ------------------------------
(***************************************************************************)
(* Paging of an idle UE (nf/nf-amf/src/main.rs): the links to the gNBs and *)
(* the tracking areas they serve (GNB_LINKS, NG Setup, RAN Configuration   *)
(* Update), the registration area of a UE (registration_area_for and its   *)
(* refresh in on_service_request), and the loops that page it under T3513  *)
(* (page_ue, page_with_retx, page_gnbs).                                   *)
(*                                                                         *)
(* One registered UE and the gNBs it may camp on.  The UE keeps the area   *)
(* of its last Registration Accept and may move within it unannounced.     *)
(* The gNBs and the UE are external: a gNB pages in its cells that are in  *)
(* the page's TAI list, and an idle UE that hears its 5G-TMSI answers.     *)
(***************************************************************************)
EXTENDS Integers, Sequences, FiniteSets, Functions

CONSTANTS
    Gnbs, Tacs,
    DefaultTac,   \* AMF_TAC
    Plans,        \* gNB |-> the Supported TA Lists it may announce
    AreaCap,      \* TAIs in a registration area (16)
    MaxSends,     \* T3513_MAX_SENDS
    MaxCalls,     \* bound: paging requests
    MaxUpdates,   \* bound: registration updates
    MaxFaults,    \* bound: moves, reconfigurations, lost associations and lost pages
    None

PagingAssumption ==
    /\ {AreaCap, MaxSends} \subseteq Nat \ {0} /\ {MaxCalls, MaxUpdates, MaxFaults} \subseteq Nat
    /\ \A g \in Gnbs : Plans[g] \subseteq Seq(Tacs) \ {<<>>}
    /\ None \notin Gnbs

VARIABLES
    links,    \* GNB_LINKS: the TA list on record, <<>> before NG Setup, None without a link
    served,   \* the TA list each gNB broadcasts
    ue,       \* [st, gnb, tac, area, tmsi]; area is what the UE was told
    ctx,      \* UeContext: [retained, tac, area, tmsi]
    loops,    \* page_with_retx tasks: [pc, tmsi, attempt, answered]
    air,      \* Page commands on their way to a gNB and its cells
    updates, faults

vars == <<links, served, ue, ctx, loops, air, updates, faults>>

Calls == 1 .. MaxCalls
NoLoop == [pc |-> "none", tmsi |-> 0, attempt |-> 0, answered |-> FALSE]

Capped(area) == SubSeq(area, 1, IF Len(area) < AreaCap THEN Len(area) ELSE AreaCap)

registration_area_for(tac, g) ==
    Capped(IF tac \in Range(links[g]) THEN links[g] ELSE Append(links[g], tac))

\* The links that serve a TAC of the area, or have no TA list yet; every link for no area.
page_gnbs(tmsi, area) ==
    {[gnb |-> g, tmsi |-> tmsi, tacs |-> IF area = <<>> THEN {DefaultTac} ELSE Range(area)] :
        g \in {g \in Gnbs : /\ links[g] # None
                            /\ area = <<>> \/ links[g] = <<>> \/ Range(links[g]) \cap Range(area) # {}}}

Init ==
    /\ served \in {s \in [Gnbs -> UNION {Plans[g] : g \in Gnbs}] : \A g \in Gnbs : s[g] \in Plans[g]}
    /\ links = served
    /\ \E g \in Gnbs : \E t \in Range(served[g]) :
        LET area == registration_area_for(t, g) IN
        /\ ue = [st |-> "idle", gnb |-> g, tac |-> t, area |-> Range(area), tmsi |-> 0]
        /\ ctx = [retained |-> TRUE, tac |-> t, area |-> area, tmsi |-> 0]
    /\ loops = [n \in Calls |-> NoLoop] /\ air = {} /\ updates = 0 /\ faults = 0

Fault == faults < MaxFaults /\ faults' = faults + 1

----------------------------------------------------------------------------
(* The RAN *)

\* The idle UE selects another cell, or another gNB's.
UeMoves(g, t) ==
    /\ ue.st = "idle" /\ links[g] \notin {None, <<>>} /\ t \in Range(served[g]) /\ <<g, t>> # <<ue.gnb, ue.tac>>
    /\ IF links[ue.gnb] = None THEN UNCHANGED faults ELSE Fault
    /\ ue' = [ue EXCEPT !.gnb = g, !.tac = t]
    /\ UNCHANGED <<links, served, ctx, loops, air, updates>>

\* A gNB broadcasts other TACs; its RAN Configuration Update is on the way.
GnbReconfigures(g, plan) ==
    /\ Fault /\ links[g] = served[g] /\ plan # served[g] /\ served' = [served EXCEPT ![g] = plan]
    /\ (ue.gnb = g => ue.st = "idle")
    /\ ue' = IF ue.gnb = g THEN [ue EXCEPT !.tac = plan[1]] ELSE ue
    /\ UNCHANGED <<links, ctx, loops, air, updates>>

\* The end of serve_gnb: the link goes, and so do the commands in its channel.  A connected
\* UE's context would go too, which AmfRegistration is about.
GnbLost(g) ==
    /\ Fault /\ links[g] # None /\ (ue.gnb = g => ue.st = "idle") /\ \E h \in Gnbs \ {g} : links[h] \notin {None, <<>>}
    /\ links' = [links EXCEPT ![g] = None] /\ air' = {p \in air : p.gnb # g}
    /\ UNCHANGED <<served, ue, ctx, loops, updates>>

\* The start of serve_gnb.
GnbConnects(g) ==
    /\ links[g] = None /\ links' = [links EXCEPT ![g] = <<>>]
    /\ UNCHANGED <<served, ue, ctx, loops, air, updates, faults>>

\* NG Setup and RAN Configuration Update: the TA list on record is the one announced.
NgSetup(g) ==
    /\ links[g] \notin {None, served[g]} /\ links' = [links EXCEPT ![g] = served[g]]
    /\ UNCHANGED <<served, ue, ctx, loops, air, updates, faults>>

\* A page leaves a gNB unheard, or is lost.
PageUnheard(p) ==
    /\ p \in air /\ air' = air \ {p}
    /\ LET heard == p.gnb = ue.gnb /\ ue.tac \in p.tacs /\ p.tmsi = ue.tmsi /\ ue.st = "idle" IN
       IF heard THEN Fault ELSE UNCHANGED faults
    /\ UNCHANGED <<links, served, ue, ctx, loops, updates>>

----------------------------------------------------------------------------
(* The UE returns: on_service_request.  What the retained context's loops see is that it is *)
(* gone.                                                                                    *)

Served == ue.st = "idle" /\ links[ue.gnb] = served[ue.gnb] /\ ctx.retained
Answer == loops' = [n \in Calls |-> [loops[n] EXCEPT !.answered = TRUE]]

\* A Service Request extends the area by the UE's TAC, without telling the UE.
ServiceRequestReassigns ==
    /\ Served
    /\ ctx' = [ctx EXCEPT !.retained = FALSE, !.tac = ue.tac,
                          !.area = IF ue.tac \in Range(@) THEN @ ELSE registration_area_for(ue.tac, ue.gnb)]
    /\ ue' = [ue EXCEPT !.st = "connected"] /\ Answer
    /\ air' = {p \in air : ~(p.gnb = ue.gnb /\ p.tmsi = ue.tmsi)}
    /\ UNCHANGED <<links, served, updates, faults>>
ServiceRequest ==
    /\ Served
    /\ ctx' = [ctx EXCEPT !.retained = FALSE, !.tac = ue.tac,
                          !.area = IF @ = <<>> \/ ue.tac \in Range(@) THEN @ ELSE Capped(Append(@, ue.tac))]
    /\ ue' = [ue EXCEPT !.st = "connected"] /\ Answer
    /\ air' = {p \in air : ~(p.gnb = ue.gnb /\ p.tmsi = ue.tmsi)}
    /\ UNCHANGED <<links, served, updates, faults>>

\* A registration update: a mobility update re-assigns the area, both tell it and a new GUTI.
RegistrationUpdate(mobility) ==
    /\ Served /\ updates < MaxUpdates /\ updates' = updates + 1
    /\ mobility <=> ue.tac \notin ue.area
    /\ LET area == IF mobility THEN registration_area_for(ue.tac, ue.gnb) ELSE ctx.area IN
       /\ ctx' = [retained |-> FALSE, tac |-> ue.tac, area |-> area, tmsi |-> updates']
       /\ ue' = [ue EXCEPT !.st = "connected", !.area = Range(area), !.tmsi = updates']
    /\ Answer /\ UNCHANGED <<links, served, air, faults>>

\* AN release: the context is retained under the current 5G-TMSI.
Release ==
    /\ ue.st = "connected" /\ ue' = [ue EXCEPT !.st = "idle"] /\ ctx' = [ctx EXCEPT !.retained = TRUE]
    /\ UNCHANGED <<links, served, loops, air, updates, faults>>

----------------------------------------------------------------------------
(* Paging *)

\* page_ue, am_policy_notify: 404 unless the UE is retained, else a loop of its own.
page_ue(n) ==
    /\ loops[n].pc = "none" /\ ctx.retained /\ \A i \in 1 .. n - 1 : loops[i].pc # "none"
    /\ loops' = [loops EXCEPT ![n] = [pc |-> "send", tmsi |-> ctx.tmsi, attempt |-> 0, answered |-> FALSE]]
    /\ UNCHANGED <<links, served, ue, ctx, air, updates, faults>>

Retained(tmsi) == ctx.retained /\ ctx.tmsi = tmsi
PageArea == IF ctx.area = <<>> THEN <<ctx.tac>> ELSE ctx.area

\* One round of page_with_retx, up to its sleep.
SendRound(n) ==
    /\ loops[n].pc = "send"
    /\ IF Retained(loops[n].tmsi)
       THEN /\ air' = air \cup page_gnbs(loops[n].tmsi, PageArea)
            /\ loops' = [loops EXCEPT ![n].pc = "sleep", ![n].attempt = @ + 1]
       ELSE loops' = [loops EXCEPT ![n].pc = "done"] /\ UNCHANGED air
    /\ UNCHANGED <<links, served, ue, ctx, updates, faults>>

\* T3513 is 6 s: what a page, a gNB or the UE was doing when it was sent is over by then.
Settled(n) ==
    /\ \A p \in air : p.tmsi # loops[n].tmsi
    /\ \A g \in Gnbs : links[g] = served[g]
    /\ ue.st = "idle" => ue.tac \in Range(ctx.area) \/ updates = MaxUpdates

Wake(n) ==
    /\ loops[n].pc = "sleep" /\ Settled(n)
    /\ loops' = [loops EXCEPT ![n].pc =
            IF ~Retained(loops[n].tmsi) \/ loops[n].attempt = MaxSends THEN "done" ELSE "send"]
    /\ UNCHANGED <<links, served, ue, ctx, air, updates, faults>>

\* The UE hears a page and answers.
PageAnswered(p) ==
    /\ p \in air /\ p.gnb = ue.gnb /\ ue.tac \in p.tacs /\ p.tmsi = ue.tmsi /\ ServiceRequest

Next ==
    \/ ServiceRequest \/ Release \/ \E mobility \in BOOLEAN : RegistrationUpdate(mobility)
    \/ \E p \in air : PageUnheard(p)
    \/ \E n \in Calls : page_ue(n) \/ SendRound(n) \/ Wake(n)
    \/ \E g \in Gnbs : \/ GnbLost(g) \/ GnbConnects(g) \/ NgSetup(g)
                       \/ \E t \in Tacs : UeMoves(g, t)
                       \/ \E plan \in Plans[g] : GnbReconfigures(g, plan)

Spec == Init /\ [][Next]_vars

\* Loops run, gNBs reconnect and announce themselves, a UE whose gNB is gone finds another, one
\* outside its area updates, and a page that is heard is answered or counts as lost.
Fairness ==
    /\ \A n \in Calls : WF_vars(SendRound(n)) /\ WF_vars(Wake(n))
    /\ \A g \in Gnbs : WF_vars(GnbConnects(g)) /\ WF_vars(NgSetup(g))
    /\ WF_vars(\E g \in Gnbs, t \in Tacs : links[ue.gnb] = None /\ UeMoves(g, t))
    /\ WF_vars(RegistrationUpdate(TRUE))
    /\ WF_vars(\E p \in air : PageUnheard(p) \/ PageAnswered(p))

FairSpec == Spec /\ Fairness

----------------------------------------------------------------------------
(* Properties *)

\* Every TAC in which the UE may be without saying so is in the area that is paged, however
\* Service Requests and updates from several gNBs changed that area (on_service_request).
UeAreaIsPaged == ue.area \subseteq Range(ctx.area)

\* A UE that stays in its area is reached by a paging request although fewer rounds than
\* T3513_MAX_SENDS fail, by a move, a lost page, a gNB that is away or one whose TA list on
\* record is stale (page_with_retx).
Paged(n) == loops[n].pc = "send" /\ loops[n].attempt = 0
Reached(n) == loops[n].answered \/ (updates = MaxUpdates /\ ue.tac \notin Range(ctx.area))
PagedIsReached == \A n \in Calls : Paged(n) ~> Reached(n)

\* The inductive invariant: what is announced are TA lists, and the area on record, of at
\* most AreaCap TAIs, is never cut when it grows by a TAC.
PagingIInv ==
    /\ served \in [Gnbs -> Seq(Tacs) \ {<<>>}]
    /\ ue \in [st : {"idle", "connected"}, gnb : Gnbs, tac : Tacs, area : SUBSET Tacs, tmsi : Nat]
    /\ ctx \in [retained : BOOLEAN, tac : Tacs, area : Seq(Tacs), tmsi : Nat]
    /\ updates \in Nat /\ Len(ctx.area) <= AreaCap
    /\ UeAreaIsPaged

(* Refuted *)

\* "Service Request from outside the area: extend it (the UE should have sent a mobility
\* update; tolerate and stay reachable)" (on_service_request).
StaysReachable == ctx.area # <<>> => ctx.tac \in Range(ctx.area)

\* "Retransmit until the UE resumes (its retained context is consumed by the Service
\* Request)" (page_with_retx).
PagingStopsOnResume ==
    [][\A n \in Calls : loops[n].answered /\ loops[n].pc # "none" => loops'[n].attempt = loops[n].attempt]_vars
=============================================================================
