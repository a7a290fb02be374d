------------------------------ MODULE AmfProofs ------------------------------
(***************************************************************************)
(* Two invariants of the AMF's N2 associations. One association serves a   *)
(* UE, and UE_DIRECTORY names it, for any number of associations and UEs,  *)
(* through handovers, path switches and their timers. And the admission    *)
(* gate the associations share counts its slots, for any number of them.   *)
(***************************************************************************)
EXTENDS AmfHandover, CblGate, FiniteSetTheorems, TLAPS

-----------------------------------------------------------------------------
(* Handover *)

\* None is no value of the model: the model value None of the configurations.
HoNone ==
    /\ None \notin {"asked", "none", "context"} /\ None # Slow
    /\ \A u, p : /\ Forwarding(u, p) # None /\ Notify(u, p) # None /\ PathSwitch(u) # None

\* UeCmd and N2 messages.
HoCmds == [cmd : {"Forward"}, pdu : {"Request", "PreparationFailure", "Command", "Release"}, u : UEs, x : Gnbs \cup {None}]
          \cup [cmd : {"TakeUe"}, u : UEs, by : Gnbs, live : BOOLEAN]
HoUplinks == [type : {"HandoverRequestAck", "HandoverFailure", "HandoverCancel", "HandoverNotify", "PathSwitchRequest"}, u : UEs]
             \cup [type : {"HandoverRequired"}, u : UEs, target : Gnbs, direct : BOOLEAN]

\* Where contexts are and what HANDOVERS, the answers and the timers name.
HoPlaces ==
    /\ ues \in [Gnbs -> SUBSET UEs] /\ directory \in [UEs -> Gnbs]
    /\ answer \in [Gnbs -> [Gnbs -> {None, "asked", "none", "context"}]]
    /\ DOMAIN handovers = UEs
    /\ \A u \in UEs : handovers[u] # None =>
         /\ DOMAIN handovers[u] = {"no", "source", "target", "ranOf", "ncc", "direct", "indirect"}
         /\ handovers[u].source \in Gnbs /\ handovers[u].ranOf \in Gnbs \cup {None}
    /\ \A t \in timers : t.u \in UEs

\* The UeCmd channels and the N2 messages on their way.
HoQueues ==
    /\ inbox \in [Gnbs -> Seq(HoCmds)] /\ uplink \in [Gnbs -> Seq(HoUplinks)]

\* A forwarded PDU goes to the back of one association's UeCmd channel, and no ask moves.
LEMMA HoSends ==
    ASSUME NEW q \in [Gnbs -> Seq(HoCmds)], NEW g, NEW c \in HoCmds, c.cmd = "Forward"
    PROVE  /\ Send(q, g, c) \in [Gnbs -> Seq(HoCmds)]
           /\ \A o \in Gnbs : \A i \in 1..Len(Send(q, g, c)[o]) :
                Send(q, g, c)[o][i].cmd = "TakeUe" =>
                   i \in 1..Len(q[o]) /\ Send(q, g, c)[o][i] = q[o][i]
<1> DEFINE r == Send(q, g, c)
<1>1. ASSUME NEW o \in Gnbs PROVE r[o] = IF o = g THEN Append(q[o], c) ELSE q[o]
  BY DEF Send
<1>2. DOMAIN r = Gnbs /\ r = [o \in Gnbs |-> r[o]]
  BY DEF Send
<1> HIDE DEF r
<1>3. ASSUME NEW o \in Gnbs
      PROVE  /\ r[o] \in Seq(HoCmds)
             /\ \A i \in 1..Len(r[o]) : r[o][i].cmd = "TakeUe" =>
                  i \in 1..Len(q[o]) /\ r[o][i] = q[o][i]
  <2>1. CASE o = g
    <3>1. r[o] = Append(q[o], c) /\ q[o] \in Seq(HoCmds)
      BY <1>1, <2>1
    <3>2. /\ Append(q[o], c) \in Seq(HoCmds) /\ Len(Append(q[o], c)) = Len(q[o]) + 1
          /\ Append(q[o], c)[Len(q[o]) + 1] = c
          /\ \A i \in 1..Len(q[o]) : Append(q[o], c)[i] = q[o][i]
      BY <3>1
    <3>3. Len(q[o]) \in Nat
      BY <3>1
    <3>4. QED
      BY <3>1, <3>2, <3>3
  <2>2. CASE o # g
    BY <1>1, <2>2
  <2>3. QED
    BY <2>1, <2>2
<1>4. QED
  BY <1>2, <1>3 DEF r

\* The association takes the command at the head of its channel.
LEMMA HoPops ==
    ASSUME NEW q \in [Gnbs -> Seq(HoCmds)], NEW g \in Gnbs, q[g] # <<>>
    PROVE  /\ Popped(q, g) \in [Gnbs -> Seq(HoCmds)] /\ Head(q[g]) \in HoCmds
           /\ \A o \in Gnbs \ {g} : Popped(q, g)[o] = q[o]
           /\ Len(q[g]) > 0 /\ q[g][1] = Head(q[g])
           /\ \A i \in 1..Len(Popped(q, g)[g]) : i + 1 \in 1..Len(q[g]) /\ Popped(q, g)[g][i] = q[g][i+1]
BY DEF Popped

\* An ask goes to the back of the channels of the associations asked.
LEMMA HoAsks ==
    ASSUME NEW q \in [Gnbs -> Seq(HoCmds)], NEW r, NEW g \in Gnbs, NEW S, NEW u \in UEs,
           r = [o \in Gnbs |-> IF o \in S THEN Append(q[o], TakeUe(u, g)) ELSE q[o]]
    PROVE  /\ r \in [Gnbs -> Seq(HoCmds)]
           /\ \A o \in Gnbs : Len(q[o]) \in Nat /\ \A i \in 1..Len(r[o]) :
                \/ i \in 1..Len(q[o]) /\ r[o][i] = q[o][i]
                \/ o \in S /\ i = Len(q[o]) + 1 /\ r[o][i] = TakeUe(u, g)
<1>0. TakeUe(u, g) \in HoCmds
  BY DEF TakeUe, HoCmds
<1> DEFINE c == TakeUe(u, g)
<1> HIDE DEF c
<1>1. ASSUME NEW o \in Gnbs
      PROVE  /\ r[o] \in Seq(HoCmds) /\ Len(q[o]) \in Nat
             /\ \A i \in 1..Len(r[o]) :
                  \/ i \in 1..Len(q[o]) /\ r[o][i] = q[o][i]
                  \/ o \in S /\ i = Len(q[o]) + 1 /\ r[o][i] = c
  <2>0. q[o] \in Seq(HoCmds) /\ Len(q[o]) \in Nat
    OBVIOUS
  <2>1. CASE o \in S
    <3>1. r[o] = Append(q[o], c)
      BY <2>1 DEF c
    <3>2. /\ Append(q[o], c) \in Seq(HoCmds) /\ Len(Append(q[o], c)) = Len(q[o]) + 1
          /\ Append(q[o], c)[Len(q[o]) + 1] = c
          /\ \A i \in 1..Len(q[o]) : Append(q[o], c)[i] = q[o][i]
      BY <1>0, <2>0 DEF c
    <3>3. QED
      BY <2>0, <2>1, <3>1, <3>2
  <2>2. CASE o \notin S
    BY <2>0, <2>2
  <2>3. QED
    BY <2>1, <2>2
<1>2. QED
  BY <1>1 DEF c

\* After a handler gives up (tokio::time::timeout drops its receivers) no ask of its own is live.
LEMMA HoAbandons ==
    ASSUME NEW q \in [Gnbs -> Seq(HoCmds)], NEW g
    PROVE  /\ Abandon(q, g) \in [Gnbs -> Seq(HoCmds)]
           /\ \A o \in Gnbs : \A i \in 1..Len(Abandon(q, g)[o]) :
                LET c == Abandon(q, g)[o][i] IN c.cmd = "TakeUe" /\ c.live =>
                   i \in 1..Len(q[o]) /\ c = q[o][i] /\ c.by # g
<1> DEFINE r == Abandon(q, g)
<1>1. ASSUME NEW c \in HoCmds, c.cmd = "TakeUe"
      PROVE  [c EXCEPT !.live = FALSE] \in HoCmds /\ ~[c EXCEPT !.live = FALSE].live
  BY <1>1 DEF HoCmds
<1>2. ASSUME NEW o \in Gnbs
      PROVE  /\ r[o] \in Seq(HoCmds)
             /\ \A i \in 1..Len(r[o]) : r[o][i].cmd = "TakeUe" /\ r[o][i].live =>
                   i \in 1..Len(q[o]) /\ r[o][i] = q[o][i] /\ r[o][i].by # g
  <2>0. q[o] \in Seq(HoCmds) /\ Len(q[o]) \in Nat /\ DOMAIN q[o] = 1..Len(q[o])
    OBVIOUS
  <2> DEFINE f(i) == IF q[o][i].cmd = "TakeUe" /\ q[o][i].by = g
                     THEN [q[o][i] EXCEPT !.live = FALSE] ELSE q[o][i]
  <2>1. r[o] = [i \in 1..Len(q[o]) |-> f(i)]
    BY <2>0 DEF Abandon
  <2>2. ASSUME NEW i \in 1..Len(q[o])
        PROVE  /\ f(i) \in HoCmds
               /\ f(i).cmd = "TakeUe" /\ f(i).live => f(i) = q[o][i] /\ f(i).by # g
    <3>1. q[o][i] \in HoCmds
      BY <2>0
    <3>2. QED
      BY <1>1, <3>1
  <2> HIDE DEF f, r
  <2>3. QED
    BY <2>0, <2>1, <2>2
<1>3. r = [o \in Gnbs |-> r[o]]
  BY DEF Abandon
<1> HIDE DEF r
<1>4. QED
  BY <1>2, <1>3 DEF r

\* Association g's handler awaits a context; it has been given u's by association o.  A live ask.
HoWaits(g) == busy[g] # None /\ busy[g].on \in {"notify", "pathSwitch"}
HoCarries(g, o, u) == HoWaits(g) /\ busy[g].u = u /\ answer[g][o] = "context"
HoLive(o, i) == inbox[o][i].cmd = "TakeUe" /\ inbox[o][i].live

\* A handler waits for the context of a UE; only a handler that waits has answers, and one of
\* on_handover_notify asked the source alone, for a context it does not have.
HoHandlers ==
    /\ busy = [g \in Gnbs |-> busy[g]]
    /\ \A g \in Gnbs : busy[g] # None /\ busy[g] # Slow =>
         /\ busy[g].on \in {"forwarding", "notify", "pathSwitch"} /\ busy[g].u \in UEs
         /\ busy[g].on # "pathSwitch" => busy[g].p.source \in Gnbs
    /\ \A g, o \in Gnbs : answer[g][o] # None =>
         /\ HoWaits(g)
         /\ busy[g].on = "notify" => o = busy[g].p.source /\ busy[g].u \notin ues[g]

\* A live ask stands for a handler that still waits for its answer, and it asked once.
HoAsked ==
    \A g, o \in Gnbs : \A i \in 1..Len(inbox[o]) : HoLive(o, i) /\ inbox[o][i].by = g =>
      /\ HoWaits(g) /\ busy[g].u = inbox[o][i].u /\ answer[g][o] = "asked"
      /\ \A j \in 1..Len(inbox[o]) : HoLive(o, j) /\ inbox[o][j].by = g => j = i

\* A context is in one association's map or in one answer, never in two places.
HoOne ==
    \A u \in UEs : \A g, h, o, q \in Gnbs :
      /\ u \in ues[g] /\ u \in ues[h] => g = h
      /\ u \in ues[g] => ~HoCarries(h, o, u)
      /\ HoCarries(g, o, u) /\ HoCarries(h, q, u) => g = h /\ o = q

\* The inductive invariant.
HoIInv == HoPlaces /\ HoQueues /\ HoHandlers /\ HoAsked /\ HoOne /\ DirectoryFollowsOwner

\* At start-up every UE is at the association it registered on, and nothing is in flight.
LEMMA HoInitIInv == ASSUME HoNone PROVE Init => HoIInv
<1> SUFFICES ASSUME Init PROVE HoIInv
  OBVIOUS
<1> USE DEF Init, HoNone
<1>1. HoPlaces
  BY DEF HoPlaces
<1>2. HoQueues
  BY DEF HoQueues
<1>3. HoHandlers /\ HoAsked
  BY DEF HoHandlers, HoAsked, HoWaits, Slow
<1>4. HoOne
  BY DEF HoOne, HoCarries, HoWaits
<1>5. DirectoryFollowsOwner
  BY DEF DirectoryFollowsOwner
<1>6. QED
  BY <1>1, <1>2, <1>3, <1>4, <1>5 DEF HoIInv

\* No ask enters a channel, and the channels only lose their head.
HoShrinks ==
    \A o \in Gnbs : \E d \in {0, 1} : \A i \in 1..Len(inbox'[o]) : inbox'[o][i].cmd = "TakeUe" =>
        i + d \in 1..Len(inbox[o]) /\ inbox'[o][i] = inbox[o][i + d]

\* No handler starts or ends a wait for a context.
HoBusy ==
    /\ busy' = [g \in Gnbs |-> busy'[g]]
    /\ \A g \in Gnbs : busy'[g] = busy[g]
         \/ (~HoWaits(g) /\ ~HoWaits(g)' /\ (busy'[g] # None /\ busy'[g] # Slow =>
               busy'[g].on = "forwarding" /\ busy'[g].u \in UEs /\ busy'[g].p.source \in Gnbs))

\* Steps that answer no TakeUe and start or end no wait.
LEMMA HoKeeps ==
    ASSUME HoNone, HoIInv, UNCHANGED <<ues, directory, answer>>, HoPlaces', HoQueues',
           HoBusy, HoShrinks
    PROVE  HoIInv'
<1> USE DEF HoIInv
<1>1. ASSUME NEW g \in Gnbs PROVE HoWaits(g)' = HoWaits(g) /\ (HoWaits(g) => busy'[g] = busy[g])
  BY DEF HoWaits, HoBusy
<1>2. HoHandlers'
  BY <1>1 DEF HoHandlers, HoBusy
<1>3. HoAsked'
  <2> SUFFICES ASSUME NEW g \in Gnbs, NEW o \in Gnbs, NEW i \in 1..Len(inbox'[o]), HoLive(o, i)',
                      inbox'[o][i].by = g
               PROVE  /\ HoWaits(g)' /\ busy'[g].u = inbox'[o][i].u /\ answer'[g][o] = "asked"
                      /\ \A j \in 1..Len(inbox'[o]) : HoLive(o, j)' /\ inbox'[o][j].by = g => j = i
    BY DEF HoAsked, HoLive
  <2>1. PICK d \in {0, 1} : \A j \in 1..Len(inbox'[o]) : inbox'[o][j].cmd = "TakeUe" =>
              j + d \in 1..Len(inbox[o]) /\ inbox'[o][j] = inbox[o][j + d]
    BY DEF HoShrinks
  <2>2. /\ i + d \in 1..Len(inbox[o]) /\ inbox'[o][i] = inbox[o][i + d] /\ HoLive(o, i + d)
    BY <2>1 DEF HoLive
  <2>4. ASSUME NEW j \in 1..Len(inbox'[o]), HoLive(o, j)', inbox'[o][j].by = g
        PROVE  j = i
    <3>1. j + d \in 1..Len(inbox[o]) /\ HoLive(o, j + d) /\ inbox[o][j + d].by = g
      BY <2>1, <2>2, <2>4 DEF HoLive
    <3>2. j + d = i + d
      BY <2>2, <3>1 DEF HoAsked
    <3>3. Len(inbox'[o]) \in Nat
      BY DEF HoQueues
    <3>4. QED
      BY <3>2, <3>3
  <2>5. QED
    BY <1>1, <2>2, <2>4 DEF HoAsked
<1>4. HoOne'
  BY <1>1 DEF HoOne, HoCarries
<1>5. DirectoryFollowsOwner'
  BY DEF DirectoryFollowsOwner
<1>6. QED
  BY <1>2, <1>3, <1>4, <1>5

\* No handler starts or ends.
LEMMA HoBusySame == ASSUME HoHandlers, UNCHANGED busy PROVE HoBusy
<1>1. busy = [h \in Gnbs |-> busy[h]]
  BY DEF HoHandlers
<1>2. busy' = [h \in Gnbs |-> busy'[h]]
  BY <1>1
<1>3. \A h \in Gnbs : busy'[h] = busy[h]
  OBVIOUS
<1>4. QED
  BY ONLY <1>2, <1>3 DEF HoBusy

\* Handler g, which waits for no context, starts or ends another wait.
LEMMA HoBusySet ==
    ASSUME HoHandlers, NEW g \in Gnbs, NEW v, busy' = [busy EXCEPT ![g] = v], ~HoWaits(g),
           v # None => v.on \notin {"notify", "pathSwitch"},
           v # None /\ v # Slow => v.on = "forwarding" /\ v.u \in UEs /\ v.p.source \in Gnbs
    PROVE  HoBusy
<1>1. busy = [h \in Gnbs |-> busy[h]]
  BY DEF HoHandlers
<1>2. busy' = [h \in Gnbs |-> IF h = g THEN v ELSE busy[h]]
  BY <1>1
<1>3. busy' = [h \in Gnbs |-> busy'[h]] /\ busy'[g] = v /\ \A h \in Gnbs \ {g} : busy'[h] = busy[h]
  BY <1>2
<1>4. ~HoWaits(g)'
  BY <1>3 DEF HoWaits
<1>5. ASSUME NEW h \in Gnbs
      PROVE  busy'[h] = busy[h]
         \/ (~HoWaits(h) /\ ~HoWaits(h)' /\ (busy'[h] # None /\ busy'[h] # Slow =>
               busy'[h].on = "forwarding" /\ busy'[h].u \in UEs /\ busy'[h].p.source \in Gnbs))
  <2>1. CASE h = g
    BY <1>3, <1>4, <2>1
  <2>2. CASE h # g
    BY <1>3, <2>2
  <2>3. QED
    BY <2>1, <2>2
<1>6. QED
  BY ONLY <1>3, <1>5 DEF HoBusy

\* The N2 message an association takes is one its gNB sent.
LEMMA HoTakes ==
    ASSUME HoQueues, NEW g \in Gnbs, NEW t, Takes(g, t)
    PROVE  /\ Head(uplink[g]) \in HoUplinks /\ Head(uplink[g]).type = t /\ Head(uplink[g]).u \in UEs
           /\ busy[g] = None /\ Popped(uplink, g) \in [Gnbs -> Seq(HoUplinks)]
<1>1. uplink[g] \in Seq(HoUplinks) /\ uplink[g] # <<>> /\ busy[g] = None /\ Head(uplink[g]).type = t
  BY DEF HoQueues, Takes
<1>2. Head(uplink[g]) \in HoUplinks
  BY <1>1
<1>3. QED
  BY <1>1, <1>2 DEF HoUplinks, Popped, HoQueues

\* A gNB sends an N2 message.
LEMMA HoUps ==
    ASSUME HoQueues, NEW g, NEW m \in HoUplinks
    PROVE  Send(uplink, g, m) \in [Gnbs -> Seq(HoUplinks)]
<1> DEFINE r == Send(uplink, g, m)
<1>1. r = [o \in Gnbs |-> IF o = g THEN Append(uplink[o], m) ELSE uplink[o]]
  BY DEF HoQueues, Send
<1>2. ASSUME NEW o \in Gnbs PROVE (IF o = g THEN Append(uplink[o], m) ELSE uplink[o]) \in Seq(HoUplinks)
  BY DEF HoQueues
<1> HIDE DEF r
<1>3. QED
  BY <1>1, <1>2 DEF r

\* UeCmd::Forward to another association.
LEMMA HoForwards ==
    ASSUME HoQueues, NEW p \in {"Request", "PreparationFailure", "Command", "Release"}, NEW u \in UEs,
           NEW x \in Gnbs \cup {None}, NEW g, inbox' = Send(inbox, g, Forward(p, u, x))
    PROVE  HoShrinks /\ inbox' \in [Gnbs -> Seq(HoCmds)]
<1>1. PICK c \in HoCmds : c = Forward(p, u, x) /\ c.cmd = "Forward"
  BY DEF Forward, HoCmds
<1>2. /\ inbox' \in [Gnbs -> Seq(HoCmds)]
      /\ \A o \in Gnbs : \A i \in 1..Len(inbox'[o]) : inbox'[o][i].cmd = "TakeUe" =>
            i \in 1..Len(inbox[o]) /\ inbox'[o][i] = inbox[o][i]
  <2>1. inbox \in [Gnbs -> Seq(HoCmds)] /\ inbox' = Send(inbox, g, c)
    BY <1>1 DEF HoQueues
  <2>2. QED
    BY <1>1, <2>1, HoSends
<1>3. ASSUME NEW o \in Gnbs
      PROVE  \E d \in {0, 1} : \A i \in 1..Len(inbox'[o]) : inbox'[o][i].cmd = "TakeUe" =>
                i + d \in 1..Len(inbox[o]) /\ inbox'[o][i] = inbox[o][i + d]
  <2> WITNESS 0 \in {0, 1}
  <2> QED
    BY <1>2
<1>4. QED
  BY <1>2, <1>3 DEF HoShrinks

\* No channel changes.
LEMMA HoStays ==
    ASSUME HoQueues, UNCHANGED inbox
    PROVE  HoShrinks
<1>1. ASSUME NEW o \in Gnbs
      PROVE  \E d \in {0, 1} : \A i \in 1..Len(inbox'[o]) : inbox'[o][i].cmd = "TakeUe" =>
                i + d \in 1..Len(inbox[o]) /\ inbox'[o][i] = inbox[o][i + d]
  <2> WITNESS 0 \in {0, 1}
  <2> QED
    BY DEF HoQueues
<1>2. QED
  BY <1>1 DEF HoShrinks

\* The handlers of serve_gnb that neither ask for a context nor give one up.
LEMMA HoQuietStep ==
    ASSUME HandoverAssumption, HoNone, HoIInv, NEW g \in Gnbs,
           StartSlowCall(g) \/ EndSlowCall(g) \/ OnHandoverRequired(g)
             \/ RefuseHandoverRequired(g) \/ OnHandoverRequestAck(g)
             \/ (\E setUp \in BOOLEAN : SendHandoverCommand(g, setUp))
             \/ OnHandoverFailure(g) \/ OnHandoverCancel(g)
    PROVE  HoIInv'
<1> USE DEF HoIInv
<1>1. CASE StartSlowCall(g)
  <2>1. UNCHANGED <<ues, directory, handovers, timers, inbox, answer, uplink>>
    BY <1>1 DEF StartSlowCall, envVars
  <2>2. HoBusy
    <3>1. ~HoWaits(g) /\ Slow.on = "sbi" /\ busy' = [busy EXCEPT ![g] = Slow]
      BY <1>1 DEF StartSlowCall, HoWaits, Slow
    <3>2. QED
      BY <3>1, HoBusySet
  <2>3. HoPlaces' /\ HoQueues'
    BY <2>1 DEF HoPlaces, HoQueues
  <2>4. QED
    BY <2>1, <2>2, <2>3, HoStays, HoKeeps
<1>2. CASE EndSlowCall(g)
  <2>1. UNCHANGED <<ues, directory, handovers, timers, inbox, answer, uplink>>
    BY <1>2 DEF EndSlowCall, envVars
  <2>2. HoBusy
    <3>1. ~HoWaits(g) /\ busy' = [busy EXCEPT ![g] = None]
      BY <1>2 DEF EndSlowCall, HoWaits, Slow
    <3>2. QED
      BY <3>1, HoBusySet
  <2>3. HoPlaces' /\ HoQueues'
    BY <2>1 DEF HoPlaces, HoQueues
  <2>4. QED
    BY <2>1, <2>2, <2>3, HoStays, HoKeeps
<1>3. CASE OnHandoverRequired(g)
  <2>1. PICK m \in HoUplinks :
          /\ m = Head(uplink[g]) /\ m.u \in UEs /\ m.target \in Gnbs
          /\ handovers' = [handovers EXCEPT ![m.u] =
                [no |-> Len(given[m.u]) + 1, source |-> g, target |-> m.target, ranOf |-> None,
                 ncc |-> NextNcc(chain[m.u]), direct |-> m.direct, indirect |-> FALSE]]
          /\ \E n : timers' = timers \cup {[kind |-> "prep", u |-> m.u, no |-> n]}
          /\ inbox' = Send(inbox, m.target, Forward("Request", m.u, m.target))
          /\ uplink' = Popped(uplink, g)
          /\ UNCHANGED <<ues, directory, busy, answer>>
    BY <1>3, HoTakes DEF OnHandoverRequired, HoUplinks
  <2>2. HoShrinks /\ HoQueues'
    BY <1>3, <2>1, HoForwards, HoTakes DEF HoQueues, OnHandoverRequired
  <2>3. HoPlaces'
    BY <2>1 DEF HoPlaces
  <2>4. QED
    BY <2>1, <2>2, <2>3, HoBusySame, HoKeeps
<1>4. CASE RefuseHandoverRequired(g)
  <2>1. uplink' = Popped(uplink, g) /\ UNCHANGED <<ues, directory, handovers, timers, inbox, answer, busy>>
    BY <1>4 DEF RefuseHandoverRequired, amfVars
  <2>2. HoPlaces' /\ HoQueues'
    BY <1>4, <2>1, HoTakes DEF HoPlaces, HoQueues, RefuseHandoverRequired
  <2>3. QED
    BY <2>1, <2>2, HoStays, HoBusySame, HoKeeps
<1>5. CASE OnHandoverRequestAck(g)
  <2>1. PICK u \in UEs : /\ u = Head(uplink[g]).u /\ busy[g] = None /\ uplink' = Popped(uplink, g)
                         /\ uplink' \in [Gnbs -> Seq(HoUplinks)]
                         /\ UNCHANGED <<ues, directory, inbox, answer>>
    BY <1>5, HoTakes DEF OnHandoverRequestAck
  <2>2. CASE handovers[u] = None
    <3>1. UNCHANGED <<handovers, timers, busy>>
      BY <1>5, <2>1, <2>2 DEF OnHandoverRequestAck
    <3>2. HoPlaces' /\ HoQueues'
      BY <2>1, <3>1 DEF HoPlaces, HoQueues
    <3>3. QED
      BY <2>1, <3>1, <3>2, HoStays, HoBusySame, HoKeeps
  <2>3. CASE handovers[u] # None
    <3>1. /\ handovers' = [handovers EXCEPT ![u].ranOf = g]
          /\ \E n : timers' = timers \cup {[kind |-> "overall", u |-> u, no |-> n]}
          /\ busy' = [busy EXCEPT ![g] = Forwarding(u, handovers[u])]
      BY <1>5, <2>1, <2>3 DEF OnHandoverRequestAck
    <3>2. HoPlaces' /\ HoQueues'
      <4>1. /\ DOMAIN handovers'[u] = DOMAIN handovers[u] /\ handovers'[u].ranOf = g
            /\ handovers'[u].source = handovers[u].source
            /\ \A x \in UEs \ {u} : handovers'[x] = handovers[x]
            /\ DOMAIN handovers' = UEs
        BY <2>1, <2>3, <3>1 DEF HoPlaces
      <4>2. \A t \in timers' : t.u \in UEs
        BY <3>1 DEF HoPlaces
      <4>3. QED
        BY <2>1, <2>3, <3>1, <4>1, <4>2 DEF HoPlaces, HoQueues
    <3>3. HoBusy
      <4>1. PICK v : /\ v = Forwarding(u, handovers[u]) /\ v.on = "forwarding" /\ v.u \in UEs
                     /\ v.p.source \in Gnbs /\ busy' = [busy EXCEPT ![g] = v]
        BY <2>3, <3>1 DEF Forwarding, HoPlaces
      <4>2. ~HoWaits(g)
        BY <2>1 DEF HoWaits
      <4>3. QED
        BY <4>1, <4>2, HoBusySet
    <3>4. QED
      BY <2>1, <3>1, <3>2, <3>3, HoStays, HoKeeps
  <2>4. QED
    BY <2>2, <2>3
<1>6. ASSUME NEW setUp \in BOOLEAN, SendHandoverCommand(g, setUp) PROVE HoIInv'
  <2>1. PICK u \in UEs, s \in Gnbs :
          /\ u = busy[g].u /\ s = busy[g].p.source /\ busy[g] # None /\ busy[g].on = "forwarding"
          /\ handovers' = IF handovers[u] = None THEN handovers
                          ELSE [handovers EXCEPT ![u].indirect = setUp]
          /\ inbox' = Send(inbox, s, Forward("Command", u, g))
          /\ busy' = [busy EXCEPT ![g] = None] /\ uplink' = uplink
          /\ UNCHANGED <<ues, directory, timers, answer>>
    <3>1. busy[g] # None /\ busy[g].on = "forwarding"
      BY <1>6 DEF SendHandoverCommand
    <3>2. busy[g] # Slow
      BY <3>1 DEF Slow
    <3>3. busy[g].u \in UEs /\ busy[g].p.source \in Gnbs
      BY <3>1, <3>2 DEF HoHandlers
    <3>4. QED
      BY <1>6, <3>1, <3>3 DEF SendHandoverCommand, envVars
  <2>2. HoShrinks /\ HoQueues'
    BY <2>1, HoForwards DEF HoQueues
  <2>3. HoPlaces'
    BY <2>1 DEF HoPlaces
  <2>4. HoBusy
    <3>1. ~HoWaits(g)
      BY <2>1 DEF HoWaits
    <3>2. QED
      BY <2>1, <3>1, HoBusySet
  <2>5. QED
    BY <2>1, <2>2, <2>3, <2>4, HoKeeps
<1>7. CASE OnHandoverFailure(g)
  <2>1. PICK u \in UEs :
          /\ handovers' = [handovers EXCEPT ![u] = None]
          /\ inbox' = IF handovers[u] = None THEN inbox
                      ELSE Send(inbox, handovers[u].source, Forward("PreparationFailure", u, None))
          /\ uplink' = Popped(uplink, g) /\ uplink' \in [Gnbs -> Seq(HoUplinks)]
          /\ UNCHANGED <<ues, directory, timers, busy, answer>>
    BY <1>7, HoTakes DEF OnHandoverFailure
  <2>2. HoShrinks /\ inbox' \in [Gnbs -> Seq(HoCmds)]
    BY <2>1, HoForwards, HoStays DEF HoQueues
  <2>3. HoPlaces' /\ HoQueues'
    BY <2>1, <2>2 DEF HoPlaces, HoQueues
  <2>4. QED
    BY <2>1, <2>2, <2>3, HoBusySame, HoKeeps
<1>8. CASE OnHandoverCancel(g)
  <2>1. PICK u \in UEs :
          /\ handovers' = [handovers EXCEPT ![u] = None]
          /\ \/ inbox' = inbox
             \/ handovers[u] # None /\ inbox' = ReleaseTarget(u, handovers[u])
          /\ uplink' = Popped(uplink, g) /\ uplink' \in [Gnbs -> Seq(HoUplinks)]
          /\ UNCHANGED <<ues, directory, timers, busy, answer>>
    BY <1>8, HoTakes DEF OnHandoverCancel
  <2>2. HoShrinks /\ inbox' \in [Gnbs -> Seq(HoCmds)]
    BY <2>1, HoForwards, HoStays DEF HoQueues, ReleaseTarget, Commanded, HoPlaces
  <2>3. HoPlaces' /\ HoQueues'
    BY <2>1, <2>2 DEF HoPlaces, HoQueues
  <2>4. QED
    BY <2>1, <2>2, <2>3, HoBusySame, HoKeeps
<1>9. QED
  BY <1>1, <1>2, <1>3, <1>4, <1>5, <1>6, <1>7, <1>8

\* A wait ends, with or without the context.
LEMMA HoEnds ==
    ASSUME HoNone, HoIInv, NEW g \in Gnbs, HoWaits(g),
           busy' = [busy EXCEPT ![g] = None], answer' = [answer EXCEPT ![g] = NoAnswers],
           UNCHANGED <<handovers, timers>>, HoQueues',
           \A o \in Gnbs : \A i \in 1..Len(inbox'[o]) : HoLive(o, i)' =>
              i \in 1..Len(inbox[o]) /\ inbox'[o][i] = inbox[o][i] /\ inbox'[o][i].by # g,
           \/ UNCHANGED <<ues, directory>>
           \/ /\ busy[g].u \in ues[g] \/ \E o \in Gnbs : answer[g][o] = "context"
              /\ ues' = [ues EXCEPT ![g] = @ \cup {busy[g].u}]
              /\ directory' = [directory EXCEPT ![busy[g].u] = g]
    PROVE  HoIInv'
<1> USE DEF HoIInv
<1>0. busy[g] # None /\ busy[g] # Slow /\ busy[g].u \in UEs
  BY DEF HoWaits, HoHandlers, Slow
<1>1. PICK u \in UEs : u = busy[g].u
  BY <1>0
<1>2. /\ busy' = [h \in Gnbs |-> busy'[h]] /\ busy'[g] = None /\ \A h \in Gnbs \ {g} : busy'[h] = busy[h]
      /\ \A o \in Gnbs : answer'[g][o] = None
      /\ \A h \in Gnbs \ {g} : \A o \in Gnbs : answer'[h][o] = answer[h][o]
      /\ answer' \in [Gnbs -> [Gnbs -> {None, "asked", "none", "context"}]]
  <2>1. busy = [h \in Gnbs |-> busy[h]]
    BY DEF HoHandlers
  <2>2. busy' = [h \in Gnbs |-> IF h = g THEN None ELSE busy[h]]
    BY <2>1
  <2>3. answer \in [Gnbs -> [Gnbs -> {None, "asked", "none", "context"}]]
        /\ NoAnswers \in [Gnbs -> {None, "asked", "none", "context"}]
        /\ \A o \in Gnbs : NoAnswers[o] = None
    BY DEF HoPlaces, NoAnswers
  <2>4. QED
    BY <2>2, <2>3
<1>3. /\ ues' \in [Gnbs -> SUBSET UEs] /\ directory' \in [UEs -> Gnbs]
      /\ \A h \in Gnbs \ {g} : ues'[h] = ues[h]
      /\ \A x \in UEs \ {u} : directory'[x] = directory[x] /\ (x \in ues'[g] <=> x \in ues[g])
      /\ \/ ues'[g] = ues[g] /\ directory'[u] = directory[u]
         \/ /\ ues'[g] = ues[g] \cup {u} /\ directory'[u] = g
            /\ u \in ues[g] \/ \E o \in Gnbs : answer[g][o] = "context"
  <2>1. ues \in [Gnbs -> SUBSET UEs] /\ directory \in [UEs -> Gnbs]
    BY DEF HoPlaces
  <2>2. CASE UNCHANGED <<ues, directory>>
    BY <2>1, <2>2
  <2>3. CASE /\ u \in ues[g] \/ \E o \in Gnbs : answer[g][o] = "context"
             /\ ues' = [ues EXCEPT ![g] = @ \cup {u}]
             /\ directory' = [directory EXCEPT ![u] = g]
    BY <2>1, <2>3
  <2>4. QED
    BY <1>1, <2>2, <2>3
<1>4. HoWaits(g)' = FALSE /\ \A h \in Gnbs \ {g} : HoWaits(h)' = HoWaits(h)
  BY <1>2 DEF HoWaits
<1>5. HoPlaces'
  BY <1>2, <1>3 DEF HoPlaces
<1>6. HoHandlers'
  <2>1. ASSUME NEW h \in Gnbs, busy'[h] # None, busy'[h] # Slow
        PROVE  /\ busy'[h].on \in {"forwarding", "notify", "pathSwitch"} /\ busy'[h].u \in UEs
               /\ busy'[h].on # "pathSwitch" => busy'[h].p.source \in Gnbs
    BY <2>1, <1>2 DEF HoHandlers
  <2>2. ASSUME NEW h \in Gnbs, NEW o \in Gnbs, answer'[h][o] # None
        PROVE  /\ HoWaits(h)'
               /\ busy'[h].on = "notify" => o = busy'[h].p.source /\ busy'[h].u \notin ues'[h]
    <3>1. h # g /\ answer[h][o] # None /\ busy'[h] = busy[h] /\ ues'[h] = ues[h]
      BY <2>2, <1>2, <1>3
    <3>2. QED
      BY <3>1, <1>4 DEF HoHandlers
  <2>3. QED
    BY <1>2, <2>1, <2>2 DEF HoHandlers
<1>7. HoAsked'
  <2> SUFFICES ASSUME NEW h \in Gnbs, NEW o \in Gnbs, NEW i \in 1..Len(inbox'[o]), HoLive(o, i)',
                      inbox'[o][i].by = h
               PROVE  /\ HoWaits(h)' /\ busy'[h].u = inbox'[o][i].u /\ answer'[h][o] = "asked"
                      /\ \A j \in 1..Len(inbox'[o]) : HoLive(o, j)' /\ inbox'[o][j].by = h => j = i
    BY DEF HoAsked, HoLive
  <2>1. /\ i \in 1..Len(inbox[o]) /\ inbox'[o][i] = inbox[o][i] /\ h # g /\ HoLive(o, i)
    BY DEF HoLive
  <2>2. ASSUME NEW j \in 1..Len(inbox'[o]), HoLive(o, j)', inbox'[o][j].by = h PROVE j = i
    <3>1. j \in 1..Len(inbox[o]) /\ HoLive(o, j) /\ inbox[o][j].by = h
      BY <2>2 DEF HoLive
    <3>2. QED
      BY <2>1, <3>1 DEF HoAsked
  <2>3. HoWaits(h) /\ busy[h].u = inbox[o][i].u /\ answer[h][o] = "asked"
    BY <2>1 DEF HoAsked
  <2>4. QED
    BY <1>2, <1>4, <2>1, <2>2, <2>3
<1>8. HoOne'
  <2>1. ASSUME NEW x \in UEs, NEW h \in Gnbs, NEW o \in Gnbs, HoCarries(h, o, x)'
        PROVE  h # g /\ HoCarries(h, o, x)
    BY <2>1, <1>2, <1>4 DEF HoCarries
  <2>2. ASSUME NEW x \in UEs, NEW h \in Gnbs, x \in ues'[h]
        PROVE  x \in ues[h] \/ (x = u /\ h = g /\ \E o \in Gnbs : HoCarries(g, o, u))
    BY <2>2, <1>1, <1>3 DEF HoCarries
  <2>3. ASSUME NEW x \in UEs, NEW h \in Gnbs, NEW k \in Gnbs, NEW o \in Gnbs, NEW q \in Gnbs
        PROVE  /\ x \in ues'[h] /\ x \in ues'[k] => h = k
               /\ x \in ues'[h] => ~HoCarries(k, o, x)'
               /\ HoCarries(h, o, x)' /\ HoCarries(k, q, x)' => h = k /\ o = q
    BY <2>1, <2>2 DEF HoOne
  <2>4. QED
    BY <2>3 DEF HoOne, HoCarries
<1>9. DirectoryFollowsOwner'
  <2>1. ASSUME NEW x \in UEs, NEW h \in Gnbs, x \in ues'[h] PROVE directory'[x] = h
    <3>1. CASE x # u
      BY <2>1, <3>1, <1>3 DEF DirectoryFollowsOwner
    <3>2. CASE x = u /\ h = g
      BY <2>1, <3>2, <1>3 DEF DirectoryFollowsOwner
    <3>3. CASE x = u /\ h # g
      <4>1. u \in ues[h] /\ u \notin ues[g]
        BY <2>1, <3>3, <1>3 DEF HoOne
      <4>2. \A o \in Gnbs : answer[g][o] # "context"
        BY <4>1, <1>1 DEF HoOne, HoCarries
      <4>3. QED
        BY <4>1, <4>2, <3>3, <1>3 DEF DirectoryFollowsOwner
    <3>4. QED
      BY <3>1, <3>2, <3>3
  <2>2. QED
    BY <2>1 DEF DirectoryFollowsOwner
<1>10. QED
  BY <1>5, <1>6, <1>7, <1>8, <1>9

\* A handler asks for a context, or finds it at hand, and waits.
LEMMA HoBegins ==
    ASSUME HoNone, HoIInv, NEW g \in Gnbs, busy[g] = None, NEW u \in UEs, NEW v,
           busy' = [busy EXCEPT ![g] = v], v # None, v # Slow, v.on \in {"notify", "pathSwitch"}, v.u = u,
           v.on # "pathSwitch" => v.p.source \in Gnbs,
           HoPlaces', HoQueues', UNCHANGED <<ues, directory>>,
           NEW S \in SUBSET Gnbs,
           \/ UNCHANGED <<inbox, answer>>
           \/ u \notin ues[g] /\ Ask(g, S, u) /\ (v.on = "notify" => S = {v.p.source})
    PROVE  HoIInv'
<1> USE DEF HoIInv
<1>1. /\ busy' = [h \in Gnbs |-> busy'[h]] /\ busy'[g] = v /\ \A h \in Gnbs \ {g} : busy'[h] = busy[h]
  <2>1. busy = [h \in Gnbs |-> busy[h]]
    BY DEF HoHandlers
  <2>2. busy' = [h \in Gnbs |-> IF h = g THEN v ELSE busy[h]]
    BY <2>1
  <2>3. QED
    BY <2>2
<1>2. HoWaits(g)' = TRUE /\ ~HoWaits(g) /\ \A h \in Gnbs \ {g} : HoWaits(h)' = HoWaits(h)
  BY <1>1 DEF HoWaits
<1>3. \A o \in Gnbs : answer[g][o] = None
  BY <1>2 DEF HoHandlers
<1>4. \A o \in Gnbs : \A i \in 1..Len(inbox[o]) : HoLive(o, i) => inbox[o][i].by # g
  BY <1>2 DEF HoAsked
<1>5. /\ \A h \in Gnbs \ {g} : \A o \in Gnbs : answer'[h][o] = answer[h][o]
      /\ \A o \in Gnbs : answer'[g][o] # None => /\ o \in S /\ answer'[g][o] = "asked" /\ u \notin ues[g]
                                                 /\ (v.on = "notify" => S = {v.p.source})
  <2>1. CASE UNCHANGED answer
    BY <2>1, <1>3
  <2>2. CASE u \notin ues[g] /\ Ask(g, S, u) /\ (v.on = "notify" => S = {v.p.source})
    <3>1. answer' = [answer EXCEPT ![g] = [o \in Gnbs |-> IF o \in S THEN "asked" ELSE None]]
      BY <2>2 DEF Ask
    <3>2. answer \in [Gnbs -> [Gnbs -> {None, "asked", "none", "context"}]]
      BY DEF HoPlaces
    <3>3. QED
      BY <2>2, <3>1, <3>2
  <2>3. QED
    BY <2>1, <2>2
<1>6. \A o \in Gnbs : /\ Len(inbox[o]) \in Nat
        /\ \A i \in 1..Len(inbox'[o]) :
                \/ i \in 1..Len(inbox[o]) /\ inbox'[o][i] = inbox[o][i]
                \/ /\ o \in S /\ i = Len(inbox[o]) + 1 /\ inbox'[o][i] = TakeUe(u, g)
                   /\ answer'[g][o] = "asked"
  <2>1. CASE UNCHANGED inbox
    BY <2>1 DEF HoQueues
  <2>2. CASE u \notin ues[g] /\ Ask(g, S, u)
    <3>1. /\ inbox' = [o \in Gnbs |-> IF o \in S THEN Append(inbox[o], TakeUe(u, g)) ELSE inbox[o]]
          /\ answer' = [answer EXCEPT ![g] = [o \in Gnbs |-> IF o \in S THEN "asked" ELSE None]]
      BY <2>2 DEF Ask
    <3>2. answer \in [Gnbs -> [Gnbs -> {None, "asked", "none", "context"}]]
          /\ inbox \in [Gnbs -> Seq(HoCmds)]
      BY DEF HoPlaces, HoQueues
    <3>3. \A o \in S : answer'[g][o] = "asked"
      BY <3>1, <3>2
    <3>4. QED
      BY <3>1, <3>2, <3>3, HoAsks
  <2>3. QED
    BY <2>1, <2>2
<1>7. HoHandlers'
  <2>1. ASSUME NEW h \in Gnbs, busy'[h] # None, busy'[h] # Slow
        PROVE  /\ busy'[h].on \in {"forwarding", "notify", "pathSwitch"} /\ busy'[h].u \in UEs
               /\ busy'[h].on # "pathSwitch" => busy'[h].p.source \in Gnbs
    BY <2>1, <1>1 DEF HoHandlers
  <2>2. ASSUME NEW h \in Gnbs, NEW o \in Gnbs, answer'[h][o] # None
        PROVE  /\ HoWaits(h)'
               /\ busy'[h].on = "notify" => o = busy'[h].p.source /\ busy'[h].u \notin ues'[h]
    <3>1. CASE h = g
      BY <2>2, <3>1, <1>1, <1>2, <1>5
    <3>2. CASE h # g
      BY <2>2, <3>2, <1>1, <1>2, <1>5 DEF HoHandlers
    <3>3. QED
      BY <3>1, <3>2
  <2>3. QED
    BY <1>1, <2>1, <2>2 DEF HoHandlers
<1>8. HoAsked'
  <2> SUFFICES ASSUME NEW h \in Gnbs, NEW o \in Gnbs, NEW i \in 1..Len(inbox'[o]), HoLive(o, i)',
                      inbox'[o][i].by = h
               PROVE  /\ HoWaits(h)' /\ busy'[h].u = inbox'[o][i].u /\ answer'[h][o] = "asked"
                      /\ \A j \in 1..Len(inbox'[o]) : HoLive(o, j)' /\ inbox'[o][j].by = h => j = i
    BY DEF HoAsked, HoLive
  <2>0. TakeUe(u, g).by = g /\ TakeUe(u, g).u = u
    BY DEF TakeUe
  <2>1. CASE h = g
    <3>1. ASSUME NEW j \in 1..Len(inbox'[o]), HoLive(o, j)', inbox'[o][j].by = h
          PROVE  j = Len(inbox[o]) + 1 /\ inbox'[o][j] = TakeUe(u, g) /\ answer'[g][o] = "asked"
      BY <2>1, <3>1, <1>4, <1>6 DEF HoLive
    <3>2. QED
      BY <2>0, <2>1, <3>1, <1>1, <1>2
  <2>2. CASE h # g
    <3>1. ASSUME NEW j \in 1..Len(inbox'[o]), HoLive(o, j)', inbox'[o][j].by = h
          PROVE  j \in 1..Len(inbox[o]) /\ HoLive(o, j) /\ inbox[o][j] = inbox'[o][j]
      BY <2>0, <2>2, <3>1, <1>6 DEF HoLive
    <3>2. i \in 1..Len(inbox[o]) /\ HoLive(o, i) /\ inbox[o][i] = inbox'[o][i]
      BY <3>1
    <3>3. /\ HoWaits(h) /\ busy[h].u = inbox[o][i].u /\ answer[h][o] = "asked"
          /\ \A j \in 1..Len(inbox[o]) : HoLive(o, j) /\ inbox[o][j].by = h => j = i
      BY <3>2 DEF HoAsked
    <3>4. QED
      BY <2>2, <3>1, <3>2, <3>3, <1>1, <1>2, <1>5
  <2>3. QED
    BY <2>1, <2>2
<1>9. HoOne'
  <2>1. ASSUME NEW x \in UEs, NEW h \in Gnbs, NEW o \in Gnbs, HoCarries(h, o, x)'
        PROVE  HoCarries(h, o, x)
    <3>1. h # g
      BY <2>1, <1>5 DEF HoCarries, HoNone
    <3>2. QED
      BY <2>1, <3>1, <1>1, <1>2, <1>5 DEF HoCarries
  <2>2. QED
    BY <2>1 DEF HoOne, HoCarries
<1>10. DirectoryFollowsOwner'
  BY DEF DirectoryFollowsOwner
<1>11. QED
  BY <1>7, <1>8, <1>9, <1>10

\* The handlers that ask for a context.
LEMMA HoAskingStep ==
    ASSUME HoNone, HoIInv, NEW g \in Gnbs, OnHandoverNotify(g) \/ OnPathSwitch(g)
    PROVE  HoIInv'
<1> USE DEF HoIInv
<1>1. ASSUME NEW S \in SUBSET Gnbs, NEW u \in UEs, Ask(g, S, u)
      PROVE  /\ inbox' \in [Gnbs -> Seq(HoCmds)]
             /\ answer' \in [Gnbs -> [Gnbs -> {None, "asked", "none", "context"}]]
  <2>1. inbox \in [Gnbs -> Seq(HoCmds)]
    BY DEF HoQueues
  <2>2. inbox' = [o \in Gnbs |-> IF o \in S THEN Append(inbox[o], TakeUe(u, g)) ELSE inbox[o]]
    BY <1>1 DEF Ask
  <2>3. inbox' \in [Gnbs -> Seq(HoCmds)]
    <3>1. TakeUe(u, g) \in HoCmds
      BY DEF TakeUe, HoCmds
    <3>2. ASSUME NEW o \in Gnbs
          PROVE  (IF o \in S THEN Append(inbox[o], TakeUe(u, g)) ELSE inbox[o]) \in Seq(HoCmds)
      BY <2>1, <3>1
    <3>3. QED
      BY <2>2, <3>2
  <2>4. answer' \in [Gnbs -> [Gnbs -> {None, "asked", "none", "context"}]]
    BY <1>1 DEF Ask, HoPlaces
  <2>5. QED
    BY <2>3, <2>4
<1>2. CASE OnHandoverNotify(g)
  <2>1. PICK u \in UEs :
          /\ busy[g] = None /\ handovers' = [handovers EXCEPT ![u] = None]
          /\ uplink' \in [Gnbs -> Seq(HoUplinks)] /\ UNCHANGED <<ues, directory, timers>>
          /\ IF handovers[u] = None
             THEN UNCHANGED <<inbox, answer, busy>>
             ELSE /\ busy' = [busy EXCEPT ![g] = Notify(u, handovers[u])]
                  /\ IF u \in ues[g] THEN UNCHANGED <<inbox, answer>>
                                     ELSE Ask(g, {handovers[u].source}, u)
    BY <1>2, HoTakes DEF OnHandoverNotify
  <2>2. CASE handovers[u] = None
    <3>1. HoPlaces' /\ HoQueues'
      BY <2>1, <2>2 DEF HoPlaces, HoQueues
    <3>2. QED
      BY <2>1, <2>2, <3>1, HoStays, HoBusySame, HoKeeps
  <2>3. CASE handovers[u] # None
    <3>0. PICK s \in Gnbs : s = handovers[u].source
      BY <2>3 DEF HoPlaces
    <3>1. PICK v : /\ v = Notify(u, handovers[u]) /\ v # None /\ v # Slow /\ v.on = "notify"
                   /\ v.u = u /\ v.p.source = s
      <4>1. Notify(u, handovers[u]) # None
        BY DEF HoNone
      <4>2. /\ Notify(u, handovers[u]).on = "notify" /\ Slow.on = "sbi"
            /\ Notify(u, handovers[u]).u = u /\ Notify(u, handovers[u]).p = handovers[u]
        BY DEF Notify, Slow
      <4>4. Notify(u, handovers[u]) # Slow
        BY <4>2
      <4>5. QED
        BY <3>0, <4>1, <4>2, <4>4
    <3>2. /\ busy' = [busy EXCEPT ![g] = v]
          /\ \/ UNCHANGED <<inbox, answer>>
             \/ u \notin ues[g] /\ Ask(g, {s}, u)
      BY <2>1, <2>3, <3>0, <3>1
    <3>3. HoPlaces' /\ HoQueues'
      <4>1. /\ inbox' \in [Gnbs -> Seq(HoCmds)]
            /\ answer' \in [Gnbs -> [Gnbs -> {None, "asked", "none", "context"}]]
        BY <1>1, <3>2 DEF HoQueues, HoPlaces
      <4>2. DOMAIN handovers' = UEs /\ \A x \in UEs : handovers'[x] # None => handovers'[x] = handovers[x]
        BY <2>1 DEF HoPlaces
      <4>3. QED
        BY <2>1, <4>1, <4>2 DEF HoPlaces, HoQueues
    <3>4. \/ UNCHANGED <<inbox, answer>>
          \/ u \notin ues[g] /\ Ask(g, {s}, u) /\ (v.on = "notify" => {s} = {v.p.source})
      BY <3>1, <3>2
    <3>5. v.on # "pathSwitch" => v.p.source \in Gnbs
      BY <3>1
    <3>6. v.on \in {"notify", "pathSwitch"} /\ v.u = u /\ v # None /\ v # Slow /\ {s} \in SUBSET Gnbs
      BY <3>1
    <3>7. QED
      BY <2>1, <3>2, <3>3, <3>4, <3>5, <3>6, HoBegins
  <2>4. QED
    BY <2>2, <2>3
<1>3. CASE OnPathSwitch(g)
  <2>1. PICK u \in UEs :
          /\ busy[g] = None /\ uplink' \in [Gnbs -> Seq(HoUplinks)]
          /\ UNCHANGED <<ues, directory, handovers, timers>>
          /\ busy' = [busy EXCEPT ![g] = PathSwitch(u)]
          /\ \/ UNCHANGED <<inbox, answer>>
             \/ u \notin ues[g] /\ Ask(g, Gnbs \ {g}, u)
    BY <1>3, HoTakes DEF OnPathSwitch
  <2>0. PICK S \in SUBSET Gnbs : S = Gnbs \ {g}
    OBVIOUS
  <2>2. PICK v : v = PathSwitch(u) /\ v # None /\ v # Slow /\ v.on = "pathSwitch" /\ v.u = u
    <3>1. PathSwitch(u) # None
      BY DEF HoNone
    <3>2. PathSwitch(u).on = "pathSwitch" /\ Slow.on = "sbi" /\ PathSwitch(u).u = u
      BY DEF PathSwitch, Slow
    <3>3. QED
      BY <3>1, <3>2
  <2>3. HoPlaces' /\ HoQueues'
    <3>1. /\ inbox' \in [Gnbs -> Seq(HoCmds)]
          /\ answer' \in [Gnbs -> [Gnbs -> {None, "asked", "none", "context"}]]
      BY <1>1, <2>1 DEF HoQueues, HoPlaces
    <3>2. QED
      BY <2>1, <3>1 DEF HoPlaces, HoQueues
  <2>4. \/ UNCHANGED <<inbox, answer>>
        \/ u \notin ues[g] /\ Ask(g, S, u) /\ (v.on = "notify" => S = {v.p.source})
    BY <2>0, <2>1, <2>2
  <2>5. v.on # "pathSwitch" => v.p.source \in Gnbs
    BY <2>2
  <2>6. busy' = [busy EXCEPT ![g] = v] /\ v.on \in {"notify", "pathSwitch"} /\ v.u = u /\ v # None /\ v # Slow
    BY <2>1, <2>2
  <2>7. QED
    BY <2>1, <2>3, <2>4, <2>5, <2>6, HoBegins
<1>4. QED
  BY <1>2, <1>3

\* The steps that end a wait.
LEMMA HoEndingStep ==
    ASSUME HoNone, HoIInv, NEW g \in Gnbs,
           FinishNotify(g) \/ NotifyUnknown(g) \/ NotifyTimeout(g)
             \/ FinishPathSwitch(g) \/ FailPathSwitch(g)
    PROVE  HoIInv'
<1> USE DEF HoIInv
<1>1. HoWaits(g)
  BY DEF HoWaits, FinishNotify, NotifyUnknown, NotifyTimeout, FinishPathSwitch, FailPathSwitch
<1>2. /\ busy' = [busy EXCEPT ![g] = None] /\ answer' = [answer EXCEPT ![g] = NoAnswers]
      /\ UNCHANGED <<handovers, timers, uplink>>
  BY DEF FinishNotify, NotifyUnknown, NotifyTimeout, FinishPathSwitch, FailPathSwitch, envVars
<1>3. busy[g].u \in UEs /\ (busy[g].on = "notify" => busy[g].p.source \in Gnbs)
  BY <1>1 DEF HoWaits, HoHandlers, Slow
<1>4. CASE NotifyTimeout(g) \/ FinishPathSwitch(g) \/ FailPathSwitch(g)
  <2>1. inbox' = Abandon(inbox, g) /\ inbox \in [Gnbs -> Seq(HoCmds)]
    BY <1>4 DEF NotifyTimeout, FinishPathSwitch, FailPathSwitch, HoQueues
  <2>0. /\ Abandon(inbox, g) \in [Gnbs -> Seq(HoCmds)]
        /\ \A o \in Gnbs : \A i \in 1..Len(Abandon(inbox, g)[o]) :
             LET c == Abandon(inbox, g)[o][i] IN c.cmd = "TakeUe" /\ c.live =>
                i \in 1..Len(inbox[o]) /\ c = inbox[o][i] /\ c.by # g
    BY ONLY <2>1, HoAbandons
  <2>2. /\ inbox' \in [Gnbs -> Seq(HoCmds)]
        /\ \A o \in Gnbs : \A i \in 1..Len(inbox'[o]) : HoLive(o, i)' =>
              i \in 1..Len(inbox[o]) /\ inbox'[o][i] = inbox[o][i] /\ inbox'[o][i].by # g
    BY ONLY <2>0, <2>1 DEF HoLive
  <2>3. HoQueues'
    BY <1>2, <2>2 DEF HoQueues
  <2>4. \/ UNCHANGED <<ues, directory>>
        \/ /\ busy[g].u \in ues[g] \/ \E o \in Gnbs : answer[g][o] = "context"
           /\ ues' = [ues EXCEPT ![g] = @ \cup {busy[g].u}]
           /\ directory' = [directory EXCEPT ![busy[g].u] = g]
    BY <1>4 DEF NotifyTimeout, FinishPathSwitch, FailPathSwitch
  <2>5. QED
    BY <1>1, <1>2, <2>2, <2>3, <2>4, HoEnds
<1>5. CASE FinishNotify(g) \/ NotifyUnknown(g)
  <2>0. inbox' = inbox /\ busy[g].on = "notify" /\ busy[g].p.source \in Gnbs
    BY <1>3, <1>5 DEF FinishNotify, NotifyUnknown
  <2>1. busy[g].u \in ues[g] \/ answer[g][busy[g].p.source] # "asked"
    BY <1>5 DEF FinishNotify, NotifyUnknown
  <2>2. \A o \in Gnbs : \A i \in 1..Len(inbox[o]) : HoLive(o, i) => inbox[o][i].by # g
    <3> SUFFICES ASSUME NEW o \in Gnbs, NEW i \in 1..Len(inbox[o]), HoLive(o, i), inbox[o][i].by = g
                 PROVE  FALSE
      OBVIOUS
    <3>1. answer[g][o] = "asked"
      BY DEF HoAsked
    <3>2. o = busy[g].p.source /\ busy[g].u \notin ues[g]
      BY <2>0, <3>1 DEF HoHandlers, HoNone
    <3>3. QED
      BY <2>1, <3>1, <3>2
  <2>3. \A o \in Gnbs : \A i \in 1..Len(inbox'[o]) : HoLive(o, i)' =>
              i \in 1..Len(inbox[o]) /\ inbox'[o][i] = inbox[o][i] /\ inbox'[o][i].by # g
    BY <2>0, <2>2 DEF HoLive
  <2>4. HoQueues'
    BY <1>2, <2>0 DEF HoQueues
  <2>5. \/ UNCHANGED <<ues, directory>>
        \/ /\ busy[g].u \in ues[g] \/ \E o \in Gnbs : answer[g][o] = "context"
           /\ ues' = [ues EXCEPT ![g] = @ \cup {busy[g].u}]
           /\ directory' = [directory EXCEPT ![busy[g].u] = g]
    BY <1>5, <2>0 DEF FinishNotify, NotifyUnknown
  <2>6. QED
    BY <1>1, <1>2, <2>3, <2>4, <2>5, HoEnds
<1>6. QED
  BY <1>4, <1>5

\* on_take_ue: the head of the channel leaves; a live ask is answered with the context or without.
LEMMA HoTakeStep ==
    ASSUME HoNone, HoIInv, NEW g \in Gnbs, OnTakeUe(g)
    PROVE  HoIInv'
<1> USE DEF HoIInv
<1>1. PICK c \in HoCmds : c = Head(inbox[g]) /\ c = inbox[g][1] /\ c.cmd = "TakeUe" /\ inbox[g] # <<>>
  BY HoPops DEF OnTakeUe, HoQueues
<1>2. c.u \in UEs /\ c.by \in Gnbs /\ c.live \in BOOLEAN
  BY <1>1 DEF HoCmds
<1>3. PICK owned \in BOOLEAN : owned <=> c.u \in ues[g]
  <2>1. CASE c.u \in ues[g]
    <3> WITNESS TRUE \in BOOLEAN
    <3> QED
      BY <2>1
  <2>2. CASE c.u \notin ues[g]
    <3> WITNESS FALSE \in BOOLEAN
    <3> QED
      BY <2>2
  <2>3. QED
    BY <2>1, <2>2
<1>4. /\ busy[g] = None /\ inbox' = Popped(inbox, g)
      /\ ues' = [ues EXCEPT ![g] = @ \ {c.u}]
      /\ answer' = IF c.live THEN [answer EXCEPT ![c.by][g] = IF owned THEN "context" ELSE "none"]
                   ELSE answer
      /\ UNCHANGED <<directory, handovers, timers, busy, uplink>>
  BY <1>1, <1>3 DEF OnTakeUe
<1>5. /\ inbox' \in [Gnbs -> Seq(HoCmds)]
      /\ \A o \in Gnbs \ {g} : inbox'[o] = inbox[o]
      /\ 1 \in 1..Len(inbox[g])
      /\ \A i \in 1..Len(inbox'[g]) : i + 1 \in 1..Len(inbox[g]) /\ inbox'[g][i] = inbox[g][i + 1]
  <2>1. inbox \in [Gnbs -> Seq(HoCmds)]
    BY DEF HoQueues
  <2>2. Len(inbox[g]) \in Nat /\ Len(inbox[g]) > 0
    BY <1>1, <2>1
  <2>3. QED
    BY <1>1, <1>4, <2>1, <2>2, HoPops
<1>6. c.live => HoWaits(c.by) /\ busy[c.by].u = c.u /\ answer[c.by][g] = "asked"
  BY <1>1, <1>2, <1>5 DEF HoAsked, HoLive
<1>7. /\ ues' \in [Gnbs -> SUBSET UEs]
      /\ \A h \in Gnbs, x \in UEs : x \in ues'[h] <=> x \in ues[h] /\ ~(h = g /\ x = c.u)
      /\ answer' \in [Gnbs -> [Gnbs -> {None, "asked", "none", "context"}]]
      /\ \A h, o \in Gnbs : ~(c.live /\ h = c.by /\ o = g) => answer'[h][o] = answer[h][o]
      /\ c.live => answer'[c.by][g] = IF owned THEN "context" ELSE "none"
  <2>1. ues \in [Gnbs -> SUBSET UEs] /\ answer \in [Gnbs -> [Gnbs -> {None, "asked", "none", "context"}]]
    BY DEF HoPlaces
  <2>2. /\ ues' \in [Gnbs -> SUBSET UEs]
        /\ \A h \in Gnbs, x \in UEs : x \in ues'[h] <=> x \in ues[h] /\ ~(h = g /\ x = c.u)
    BY <1>4, <2>1
  <2>3. CASE c.live
    BY <1>2, <1>4, <2>1, <2>2, <2>3
  <2>4. CASE ~c.live
    BY <1>4, <2>1, <2>2, <2>4
  <2>5. QED
    BY <2>3, <2>4
<1>8. HoPlaces' /\ HoQueues'
  BY <1>4, <1>5, <1>7 DEF HoPlaces, HoQueues
<1>9. \A h \in Gnbs : HoWaits(h)' = HoWaits(h)
  BY <1>4 DEF HoWaits
<1>10. HoHandlers'
  <2>1. ASSUME NEW h \in Gnbs, NEW o \in Gnbs, answer'[h][o] # None
        PROVE  /\ HoWaits(h)'
               /\ busy'[h].on = "notify" => o = busy'[h].p.source /\ busy'[h].u \notin ues'[h]
    <3>1. answer[h][o] # None
      BY <2>1, <1>6, <1>7 DEF HoNone
    <3>2. /\ HoWaits(h)
          /\ busy[h].on = "notify" => o = busy[h].p.source /\ busy[h].u \notin ues[h]
      BY <3>1 DEF HoHandlers
    <3>3. ues'[h] \subseteq ues[h]
      BY <1>7
    <3>4. QED
      BY <1>4, <1>9, <3>2, <3>3
  <2>2. QED
    BY <1>4, <2>1 DEF HoHandlers
<1>11. HoAsked'
  <2> SUFFICES ASSUME NEW h \in Gnbs, NEW o \in Gnbs, NEW i \in 1..Len(inbox'[o]), HoLive(o, i)',
                      inbox'[o][i].by = h
               PROVE  /\ HoWaits(h)' /\ busy'[h].u = inbox'[o][i].u /\ answer'[h][o] = "asked"
                      /\ \A j \in 1..Len(inbox'[o]) : HoLive(o, j)' /\ inbox'[o][j].by = h => j = i
    BY DEF HoAsked, HoLive
  <2>1. CASE o # g
    <3>1. /\ HoWaits(h) /\ busy[h].u = inbox[o][i].u /\ answer[h][o] = "asked"
          /\ \A j \in 1..Len(inbox[o]) : HoLive(o, j) /\ inbox[o][j].by = h => j = i
      BY <1>5, <2>1 DEF HoAsked, HoLive
    <3>2. HoWaits(h)' /\ busy'[h].u = inbox'[o][i].u /\ answer'[h][o] = "asked"
      BY <1>4, <1>5, <1>7, <1>9, <2>1, <3>1
    <3>3. inbox'[o] = inbox[o] /\ \A j \in 1..Len(inbox[o]) : HoLive(o, j)' => HoLive(o, j)
      BY <1>5, <2>1 DEF HoLive
    <3>4. QED
      BY <3>1, <3>2, <3>3
  <2>2. CASE o = g
    <3>1. i + 1 \in 1..Len(inbox[g]) /\ HoLive(g, i + 1) /\ inbox[g][i + 1] = inbox'[g][i]
      BY <1>5, <2>2 DEF HoLive
    <3>2. /\ HoWaits(h) /\ busy[h].u = inbox[g][i + 1].u /\ answer[h][g] = "asked"
          /\ \A j \in 1..Len(inbox[g]) : HoLive(g, j) /\ inbox[g][j].by = h => j = i + 1
      BY <2>2, <3>1 DEF HoAsked
    <3>3. ~(c.live /\ h = c.by)
      <4> SUFFICES ASSUME c.live, h = c.by PROVE FALSE
        OBVIOUS
      <4>1. HoLive(g, 1) /\ inbox[g][1].by = h
        BY <1>1 DEF HoLive
      <4>2. 1 = i + 1 /\ i \in 1..Len(inbox'[g]) /\ Len(inbox'[g]) \in Nat
        BY <1>5, <2>2, <3>2, <4>1
      <4>3. QED
        BY <4>2
    <3>4. ASSUME NEW j \in 1..Len(inbox'[g]), HoLive(g, j)', inbox'[g][j].by = h PROVE j = i
      <4>1. j + 1 \in 1..Len(inbox[g]) /\ HoLive(g, j + 1) /\ inbox[g][j + 1].by = h
        BY <1>5, <3>4 DEF HoLive
      <4>2. j + 1 = i + 1 /\ Len(inbox'[g]) \in Nat
        BY <1>5, <3>2, <4>1
      <4>3. QED
        BY <2>2, <4>2
    <3>5. QED
      BY <1>4, <1>7, <1>9, <2>2, <3>1, <3>2, <3>3, <3>4
  <2>3. QED
    BY <2>1, <2>2
<1>12. HoOne'
  <2>1. ASSUME NEW x \in UEs, NEW h \in Gnbs, NEW o \in Gnbs, HoCarries(h, o, x)'
        PROVE  HoCarries(h, o, x) \/ (h = c.by /\ o = g /\ x = c.u /\ x \in ues[g])
    <3>1. CASE c.live /\ h = c.by /\ o = g
      <4>1. owned /\ x = c.u
        BY <2>1, <3>1, <1>4, <1>6, <1>7 DEF HoCarries
      <4>2. QED
        BY <3>1, <4>1, <1>3
    <3>2. CASE ~(c.live /\ h = c.by /\ o = g)
      BY <2>1, <3>2, <1>4, <1>7, <1>9 DEF HoCarries
    <3>3. QED
      BY <3>1, <3>2
  <2>2. ASSUME NEW x \in UEs, NEW h \in Gnbs, NEW k \in Gnbs, NEW o \in Gnbs, NEW q \in Gnbs
        PROVE  /\ x \in ues'[h] /\ x \in ues'[k] => h = k
               /\ x \in ues'[h] => ~HoCarries(k, o, x)'
               /\ HoCarries(h, o, x)' /\ HoCarries(k, q, x)' => h = k /\ o = q
    <3>1. /\ x \in ues[h] /\ x \in ues[k] => h = k
          /\ x \in ues[h] => ~HoCarries(k, o, x)
          /\ x \in ues[g] => ~HoCarries(h, o, x) /\ ~HoCarries(k, q, x)
          /\ x \in ues[h] /\ x \in ues[g] => h = g
          /\ HoCarries(h, o, x) /\ HoCarries(k, q, x) => h = k /\ o = q
      BY DEF HoOne
    <3>2. QED
      BY <1>7, <2>1, <3>1
  <2>3. QED
    BY <2>2 DEF HoOne, HoCarries
<1>13. DirectoryFollowsOwner'
  BY <1>4, <1>7 DEF DirectoryFollowsOwner
<1>14. QED
  BY <1>8, <1>10, <1>11, <1>12, <1>13

\* UeCmd::Forward: the head of the channel leaves; a target answers a Handover Request.
LEMMA HoForwardStep ==
    ASSUME HoNone, HoIInv, NEW g \in Gnbs, OnForward(g)
    PROVE  HoIInv'
<1> USE DEF HoIInv
<1>1. PICK c \in HoCmds : c = Head(inbox[g]) /\ c.cmd = "Forward" /\ inbox[g] # <<>> /\ inbox' = Popped(inbox, g)
  BY HoPops DEF OnForward, HoQueues
<1>2. c.u \in UEs
  BY <1>1 DEF HoCmds
<1>3. /\ inbox' \in [Gnbs -> Seq(HoCmds)]
      /\ \A o \in Gnbs \ {g} : inbox'[o] = inbox[o]
      /\ \A i \in 1..Len(inbox'[g]) : i + 1 \in 1..Len(inbox[g]) /\ inbox'[g][i] = inbox[g][i + 1]
  BY <1>1, HoPops DEF HoQueues
<1>4. HoShrinks
  <2>1. ASSUME NEW o \in Gnbs
        PROVE  \E d \in {0, 1} : \A i \in 1..Len(inbox'[o]) : inbox'[o][i].cmd = "TakeUe" =>
                  i + d \in 1..Len(inbox[o]) /\ inbox'[o][i] = inbox[o][i + d]
    <3>1. CASE o = g
      <4> WITNESS 1 \in {0, 1}
      <4> QED
        BY <1>3, <3>1
    <3>2. CASE o # g
      <4> WITNESS 0 \in {0, 1}
      <4> QED
        BY <1>3, <3>2 DEF HoQueues
    <3>3. QED
      BY <3>1, <3>2
  <2>2. QED
    BY <2>1 DEF HoShrinks
<1>5. uplink' \in [Gnbs -> Seq(HoUplinks)]
  <2>1. ASSUME NEW t \in {"HandoverRequestAck", "HandoverFailure"} PROVE Msg(t, c.u) \in HoUplinks
    BY <1>2 DEF Msg, HoUplinks
  <2>2. \/ uplink' = uplink
        \/ \E t \in {"HandoverRequestAck", "HandoverFailure"} : uplink' = Send(uplink, g, Msg(t, c.u))
    BY <1>1 DEF OnForward
  <2>3. QED
    BY <2>1, <2>2, HoUps DEF HoQueues
<1>6. UNCHANGED <<ues, directory, handovers, timers, busy, answer>>
  BY DEF OnForward
<1>7. HoPlaces' /\ HoQueues'
  BY <1>3, <1>5, <1>6 DEF HoPlaces, HoQueues
<1>8. QED
  BY <1>4, <1>6, <1>7, HoBusySame, HoKeeps

\* The timer tasks drop an entry and tell the source or the target.
LEMMA HoTimerStep == ASSUME HoNone, HoIInv, TimerStep PROVE HoIInv'
<1> USE DEF HoIInv
<1>1. PICK t \in timers : ExpirePrep(t) \/ ExpireOverall(t)
  BY DEF TimerStep
<1>2. PICK u \in UEs : u = t.u
  BY <1>1 DEF HoPlaces
<1>3. /\ timers' = timers \ {t} /\ UNCHANGED <<ues, directory, busy, answer, uplink>>
      /\ \/ UNCHANGED <<handovers, inbox>>
         \/ /\ handovers[u] # None /\ handovers' = [handovers EXCEPT ![u] = None]
            /\ \/ inbox' = Send(inbox, handovers[u].source, Forward("PreparationFailure", u, None))
               \/ inbox' = ReleaseTarget(u, handovers[u])
  BY <1>1, <1>2 DEF ExpirePrep, ExpireOverall, envVars
<1>4. HoShrinks /\ inbox' \in [Gnbs -> Seq(HoCmds)]
  BY <1>3, HoForwards, HoStays DEF HoQueues, ReleaseTarget, Commanded, HoPlaces
<1>5. HoPlaces' /\ HoQueues'
  BY <1>3, <1>4 DEF HoPlaces, HoQueues
<1>6. QED
  BY <1>3, <1>4, <1>5, HoBusySame, HoKeeps

\* The gNBs and UEs only send.
LEMMA HoEnvironmentStep ==
    ASSUME HandoverAssumption, HoNone, HoIInv, EnvironmentStep
    PROVE  HoIInv'
<1> USE DEF HoIInv
<1>1. ASSUME NEW g \in Gnbs, StartSlowCall(g) PROVE HoIInv'
  BY <1>1, HoQuietStep
<1>2. ASSUME UNCHANGED <<ues, directory, handovers, timers, inbox, busy, answer>>,
             NEW g, NEW m \in HoUplinks, uplink' = Send(uplink, g, m)
      PROVE  HoIInv'
  <2>1. HoPlaces' /\ HoQueues'
    BY <1>2, HoUps DEF HoPlaces, HoQueues
  <2>2. QED
    BY <1>2, <2>1, HoStays, HoBusySame, HoKeeps
<1>3. ASSUME NEW u \in UEs, NEW t \in {"HandoverCancel", "HandoverNotify", "PathSwitchRequest"}
      PROVE  Msg(t, u) \in HoUplinks
  BY DEF Msg, HoUplinks
<1>4. ASSUME NEW g \in Gnbs, NEW u \in UEs, GnbCancels(g, u) PROVE HoIInv'
  BY <1>2, <1>3, <1>4 DEF GnbCancels, amfVars
<1>5. ASSUME NEW g \in Gnbs, NEW t \in Gnbs, NEW u \in UEs, NEW d \in BOOLEAN, GnbRequires(g, u, t, d)
      PROVE  HoIInv'
  <2>1. Required(u, t, d) \in HoUplinks
    BY DEF Required, HoUplinks
  <2>2. QED
    BY <1>2, <1>5, <2>1 DEF GnbRequires, amfVars
<1>6. ASSUME NEW u \in UEs, UeArrives(u) PROVE HoIInv'
  BY <1>2, <1>3, <1>6 DEF UeArrives, amfVars
<1>7. ASSUME NEW u \in UEs, NEW t \in Gnbs, XnHandover(u, t) PROVE HoIInv'
  BY <1>2, <1>3, <1>7 DEF XnHandover, amfVars
<1>8. QED
  BY <1>1, <1>4, <1>5, <1>6, <1>7 DEF EnvironmentStep

\* The inductive invariant survives every step of associations, timers, gNBs and UEs.
LEMMA HoNextIInv ==
    ASSUME HandoverAssumption, HoNone, HoIInv, [Next]_vars
    PROVE  HoIInv'
<1>1. CASE UNCHANGED vars
  <2>1. UNCHANGED <<ues, directory, handovers, timers, inbox, busy, answer, uplink>>
    BY <1>1 DEF vars, amfVars, envVars
  <2>2. HoPlaces' /\ HoQueues'
    BY <2>1 DEF HoIInv, HoPlaces, HoQueues
  <2>3. QED
    BY <2>1, <2>2, HoStays, HoBusySame, HoKeeps DEF HoIInv
<1>2. ASSUME NEW g \in Gnbs, AssociationStep(g) PROVE HoIInv'
  BY <1>2, HoQuietStep, HoAskingStep, HoEndingStep, HoTakeStep, HoForwardStep DEF AssociationStep
<1>3. QED
  BY <1>1, <1>2, HoTimerStep, HoEnvironmentStep DEF Next

\* With at most one place, the context of a UE has at most one holder.
LEMMA HoSafe == ASSUME HoIInv, HoNone PROVE SingleOwner /\ DirectoryFollowsOwner
<1>1. ASSUME NEW u \in UEs PROVE Cardinality(Holders(u)) <= 1
  <2>1. ASSUME NEW x \in Holders(u), NEW y \in Holders(u) PROVE x = y
    <3>1. \A w \in Holders(u) :
            \/ \E g \in Gnbs : w = <<g, g>> /\ u \in ues[g]
            \/ \E g, o \in Gnbs : w = <<g, o>> /\ HoCarries(g, o, u)
      <4> SUFFICES ASSUME NEW w \in Holders(u)
                   PROVE  \/ \E g \in Gnbs : w = <<g, g>> /\ u \in ues[g]
                          \/ \E g, o \in Gnbs : w = <<g, o>> /\ HoCarries(g, o, u)
        OBVIOUS
      <4>1. CASE \E g \in {h \in Gnbs : u \in ues[h]} : w = <<g, g>>
        BY <4>1
      <4>2. CASE /\ w \in Gnbs \X Gnbs /\ busy[w[1]] # None /\ busy[w[1]] # Slow
                 /\ busy[w[1]].u = u /\ answer[w[1]][w[2]] = "context"
        <5>1. PICK g \in Gnbs, o \in Gnbs : w = <<g, o>>
          BY <4>2
        <5>2. busy[g].u = u /\ answer[g][o] = "context"
          BY <4>2, <5>1
        <5>3. HoWaits(g)
          BY <5>2 DEF HoIInv, HoHandlers, HoNone
        <5>4. QED
          BY <5>1, <5>2, <5>3 DEF HoCarries
      <4>3. QED
        BY <4>1, <4>2 DEF Holders
    <3>2. QED
      BY <3>1 DEF HoIInv, HoOne
  <2>2. CASE Holders(u) = {}
    BY <2>2, FS_EmptySet
  <2>3. CASE Holders(u) # {}
    <3>1. PICK x : Holders(u) = {x}
      BY <2>1, <2>3
    <3>2. Cardinality({x}) = 1
      BY FS_Singleton
    <3>3. QED
      BY <3>1, <3>2
  <2>4. QED
    BY <2>2, <2>3
<1>2. QED
  BY <1>1 DEF SingleOwner, HoIInv

\* Hence the invariant holds always.
LEMMA HoInvariance == ASSUME HandoverAssumption, HoNone PROVE Spec => []HoIInv
<1>1. Init => HoIInv
  BY HoInitIInv
<1>2. HoIInv /\ [Next]_vars => HoIInv'
  BY HoNextIInv
<1>3. QED
  BY <1>1, <1>2, PTL DEF Spec

\* For any gNBs, UEs, handovers and path switches: however N2 handovers, path switches, timeouts
\* and late answers overlap, TakeUe never leaves a context with two associations (on_take_ue,
\* on_handover_notify, on_path_switch).
THEOREM OneAssociationServes ==
    ASSUME HandoverAssumption, HoNone
    PROVE  Spec => []SingleOwner
<1>1. HoIInv => SingleOwner
  BY HoSafe
<1>2. QED
  BY HoInvariance, <1>1, PTL

\* And UE_DIRECTORY names the association that has the context, through the same overlaps
\* (on_take_ue, release_ue_context): what is sent to the UE by its SUPI reaches its task.
THEOREM DirectoryNamesOwner ==
    ASSUME HandoverAssumption, HoNone
    PROVE  Spec => []DirectoryFollowsOwner
<1>1. HoIInv => DirectoryFollowsOwner
  BY HoSafe
<1>2. QED
  BY HoInvariance, <1>1, PTL

-----------------------------------------------------------------------------
(* The admission gate, for any number of handlers, operators and slots and any *)
(* thresholds.                                                                *)

\* A free slot has neither a releaser nor a running lease.
FreeSlotsClean ==
    \A s \in Slots : slot[s] = "free" => releaser[s] = "none" /\ lease[s] = "none"

\* A handler about to compare-exchange saw C below an M that was once in force.
CasBelowSeen ==
    \A h \in Handlers : pc[h] = "cas" => cur[h] < seenM[h] /\ seenM[h] <= highM

\* The inductive invariant.
CblIInv ==
    /\ CblTypeOK
    /\ FreeSlotsClean
    /\ CasBelowSeen
    /\ threshold <= highM
    /\ OngoingCountsSlots
    /\ WithinHighestThreshold

\* A won CAS adds one slot to the counted ones.
LEMMA CountAdds ==
    ASSUME NEW S, IsFiniteSet(S), NEW x, x \notin S
    PROVE  Cardinality(S \cup {x}) = Cardinality(S) + 1
  BY FS_AddElement

\* A paid release takes one slot away from them.
LEMMA CountRemoves ==
    ASSUME NEW S, IsFiniteSet(S), NEW x \in S
    PROVE  Cardinality(S \ {x}) = Cardinality(S) - 1
  BY FS_RemoveElement

\* The counted slots are finite in number.
LEMMA CountedFinite == IsFiniteSet(Counted)
  BY SlotsAssumption, FS_Subset DEF Counted

\* Start-up establishes the invariant.
LEMMA CblInitIInv == CblInit => CblIInv
  <1> SUFFICES ASSUME CblInit PROVE CblIInv
    OBVIOUS
  <1>a. enabled \in BOOLEAN
    BY Zenon DEF CblInit
  <1>b. threshold \in Int
    BY ThresholdsAssumption DEF CblInit
  <1>1. CblTypeOK
    BY <1>a, <1>b DEF CblInit, CblTypeOK
  <1>2. Counted = {}
    BY DEF CblInit, Counted
  <1>3. OngoingCountsSlots
    BY <1>2, FS_EmptySet DEF CblInit, OngoingCountsSlots
  <1>4. FreeSlotsClean /\ CasBelowSeen /\ threshold <= highM
    BY <1>1 DEF CblInit, FreeSlotsClean, CasBelowSeen, CblTypeOK
  <1>5. WithinHighestThreshold
    BY <1>1 DEF CblInit, WithinHighestThreshold, Larger, CblTypeOK
  <1> QED
    BY <1>1, <1>3, <1>4, <1>5 DEF CblIInv

\* Every step keeps the invariant.
LEMMA CblNextIInv == CblIInv /\ [CblNext]_cblVars => CblIInv'
  <1> SUFFICES ASSUME CblIInv, [CblNext]_cblVars PROVE CblIInv'
    OBVIOUS
  <1> USE DEF CblIInv
  <1> DEFINE Frame == /\ Counted' = Counted
                      /\ ongoing' = ongoing
  <1>0. ASSUME Frame, highM' >= highM, highM' \in Int, CblTypeOK
        PROVE  OngoingCountsSlots' /\ WithinHighestThreshold'
    BY <1>0 DEF OngoingCountsSlots, WithinHighestThreshold, Larger, CblTypeOK
  <1>1. ASSUME NEW h \in Handlers,
               AdmitEnter(h) \/ AdmitLoadOngoing(h) \/ AdmitLoadThreshold(h) \/ AdmitRetry(h)
        PROVE  CblIInv'
    <2>1. CblTypeOK'
      BY <1>1 DEF CblTypeOK, AdmitEnter, AdmitLoadOngoing, AdmitLoadThreshold,
                  AdmitRetry, gateVars, oamVars, slotVars
    <2>2. Frame /\ highM' = highM /\ FreeSlotsClean' /\ threshold' = threshold
      BY <1>1 DEF Counted, FreeSlotsClean, AdmitEnter, AdmitLoadOngoing,
                  AdmitLoadThreshold, AdmitRetry, gateVars, slotVars
    <2>3. CasBelowSeen'
      BY <1>1, <2>1 DEF CasBelowSeen, CblTypeOK, AdmitEnter, AdmitLoadOngoing,
                  AdmitLoadThreshold, AdmitRetry, gateVars
    <2> QED
      BY <1>0, <2>1, <2>2, <2>3 DEF CblTypeOK
  <1>2. ASSUME NEW h \in Handlers, NEW s \in Slots, AdmitReserve(h, s)
        PROVE  CblIInv'
    <2>1. CblTypeOK'
      BY <1>2 DEF CblTypeOK, AdmitReserve, oamVars
    <2>2. FreeSlotsClean' /\ threshold' <= highM'
      BY <1>2 DEF FreeSlotsClean, AdmitReserve, CblTypeOK
    <2>3. CasBelowSeen'
      BY <1>2 DEF CasBelowSeen, AdmitReserve, CblTypeOK
    <2>4. Counted' = Counted \cup {s} /\ s \notin Counted
      BY <1>2 DEF Counted, FreeSlotsClean, AdmitReserve, CblTypeOK
    <2>5. OngoingCountsSlots'
      BY <1>2, <2>4, CountedFinite, CountAdds DEF OngoingCountsSlots, AdmitReserve
    <2>6. WithinHighestThreshold'
      BY <1>2 DEF WithinHighestThreshold, Larger, CasBelowSeen, AdmitReserve, CblTypeOK
    <2> QED
      BY <2>1, <2>2, <2>3, <2>5, <2>6
  <1>3. ASSUME NEW h \in Handlers, NEW s \in Slots, AdmitArm(h, s)
        PROVE  CblIInv'
    <2>1. CblTypeOK'
      BY <1>3 DEF CblTypeOK, AdmitArm, oamVars, Larger
    <2>2. Frame /\ highM' = highM /\ FreeSlotsClean' /\ threshold' = threshold
      BY <1>3 DEF Counted, FreeSlotsClean, AdmitArm, CblTypeOK
    <2>3. CasBelowSeen'
      BY <1>3 DEF CasBelowSeen, AdmitArm, CblTypeOK
    <2> QED
      BY <1>0, <2>1, <2>2, <2>3 DEF CblTypeOK
  <1>4. ASSUME NEW o \in Operators, NEW m \in Thresholds, NEW d \in BOOLEAN,
               OamSwap(o, m, d)
        PROVE  CblIInv'
    <2>0. m \in Int
      BY ThresholdsAssumption
    <2>1. CblTypeOK'
      BY <1>4, <2>0 DEF CblTypeOK, OamSwap, handlerVars, slotVars, Larger
    <2>2. Frame /\ highM' >= highM /\ FreeSlotsClean' /\ threshold' <= highM'
      BY <1>4, <2>0 DEF Counted, FreeSlotsClean, OamSwap, slotVars, CblTypeOK, Larger
    <2>3. CasBelowSeen'
      BY <1>4, <2>0, <2>2 DEF CasBelowSeen, OamSwap, handlerVars, CblTypeOK, Larger
    <2> QED
      BY <1>0, <2>1, <2>2, <2>3 DEF CblTypeOK
  <1>5. ASSUME NEW o \in Operators, NEW e \in BOOLEAN, OamRecord(o) \/ OamEnable(o, e)
        PROVE  CblIInv'
    <2>a. enabled' \in BOOLEAN
      BY <1>5, Zenon DEF OamRecord, OamEnable
    <2>1. CblTypeOK'
      BY <1>5, <2>a DEF CblTypeOK, OamRecord, OamEnable, handlerVars, oamVars, slotVars, Larger
    <2>2. /\ Frame /\ highM' = highM /\ threshold' = threshold
          /\ FreeSlotsClean' /\ CasBelowSeen'
      BY <1>5 DEF Counted, FreeSlotsClean, CasBelowSeen, OamRecord, OamEnable,
                  handlerVars, slotVars
    <2> QED
      BY <1>0, <2>1, <2>2 DEF CblTypeOK
  <1>6. ASSUME NEW s \in Slots, DropSlot(s) \/ LeaseExpires(s) \/ FreeSlot(s)
        PROVE  CblIInv'
    <2>1. CblTypeOK'
      BY <1>6 DEF CblTypeOK, DropSlot, LeaseExpires, FreeSlot, WinRelease, gateVars,
                  handlerVars, oamVars
    <2>2. Frame /\ highM' = highM /\ threshold' = threshold
      BY <1>6 DEF Counted, DropSlot, LeaseExpires, FreeSlot, WinRelease,
                  FreeSlotsClean, gateVars, CblTypeOK
    <2>3. FreeSlotsClean' /\ CasBelowSeen'
      BY <1>6 DEF FreeSlotsClean, CasBelowSeen, DropSlot, LeaseExpires, FreeSlot,
                  WinRelease, handlerVars, CblTypeOK
    <2> QED
      BY <1>0, <2>1, <2>2, <2>3 DEF CblTypeOK
  <1>7. ASSUME NEW s \in Slots, PayRelease(s)
        PROVE  CblIInv'
    <2>1. CblTypeOK'
      BY <1>7 DEF CblTypeOK, PayRelease, handlerVars, oamVars
    <2>2. FreeSlotsClean' /\ CasBelowSeen' /\ threshold' <= highM'
      BY <1>7 DEF FreeSlotsClean, CasBelowSeen, PayRelease, handlerVars, CblTypeOK
    <2>3. Counted' = Counted \ {s} /\ s \in Counted
      BY <1>7 DEF Counted, FreeSlotsClean, PayRelease, CblTypeOK
    <2>4. OngoingCountsSlots'
      BY <1>7, <2>3, CountedFinite, CountRemoves DEF OngoingCountsSlots, PayRelease
    <2>5. WithinHighestThreshold'
      BY <1>7 DEF WithinHighestThreshold, Larger, PayRelease, CblTypeOK
    <2> QED
      BY <2>1, <2>2, <2>4, <2>5
  <1>8. CASE UNCHANGED cblVars
    <2>1. CblTypeOK' /\ FreeSlotsClean' /\ CasBelowSeen' /\ threshold' <= highM'
      BY <1>8 DEF CblTypeOK, FreeSlotsClean, CasBelowSeen, cblVars, gateVars,
                  handlerVars, oamVars, slotVars
    <2>2. OngoingCountsSlots' /\ WithinHighestThreshold'
      BY <1>8 DEF OngoingCountsSlots, WithinHighestThreshold, Counted, cblVars,
                  gateVars, slotVars
    <2> QED
      BY <2>1, <2>2
  <1> QED
    BY <1>1, <1>2, <1>3, <1>4, <1>5, <1>6, <1>7, <1>8 DEF CblNext

\* CblState's atomics stay well typed; in particular max_overshoot never goes
\* negative although admit() feeds record_overshoot non-positive differences.
THEOREM TypeCorrect == CblSpec => []CblTypeOK
  <1>1. CblIInv => CblTypeOK
    BY DEF CblIInv
  <1> QED
    BY CblInitIInv, CblNextIInv, <1>1, PTL DEF CblSpec

\* SlotLease::release gives back every slot exactly once, for any number of
\* associations and slots: C(t) is the number of slots reserved and not yet
\* given back.
THEOREM SlotAccounting == CblSpec => []OngoingCountsSlots
  <1>1. CblIInv => OngoingCountsSlots
    BY DEF CblIInv
  <1> QED
    BY CblInitIInv, CblNextIInv, <1>1, PTL DEF CblSpec

\* The CAS loop of admit() never takes C(t) past the highest M(t) ever set.
THEOREM AdmissionBound == CblSpec => []WithinHighestThreshold
  <1>1. CblIInv => WithinHighestThreshold
    BY DEF CblIInv
  <1> QED
    BY CblInitIInv, CblNextIInv, <1>1, PTL DEF CblSpec
=============================================================================
