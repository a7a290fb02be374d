--------------------------- MODULE AmfRegistration ---------------------------
(***************************************************************************)
(* The registration life cycle of a UE at the AMF (nf/nf-amf/src/main.rs). *)
(*                                                                         *)
(* A UE context lives in the map of one association task, under an         *)
(* AMF-UE-NGAP-ID that is never reused, or, while the UE is CM-IDLE, in    *)
(* the AMF-wide RETAINED store under its 5G-TMSI.  Around it are the maps  *)
(* by which the SBI side and returning UEs find it (UE_DIRECTORY,          *)
(* GUTI_DIRECTORY), the timer tasks that carry only the AMF-UE-NGAP-ID,    *)
(* and what it owns elsewhere: an AM policy association at the PCF, SM     *)
(* contexts at the SMF, the serving-AMF record at the UDM.                 *)
(*                                                                         *)
(* A handler runs without another handler of its association in between,   *)
(* and touches the shared maps under their locks, so it is one step.  All  *)
(* intervals are configurable: a timer may fire at any time once armed.    *)
(* The UEs and gNBs are the environment; an uplink answers a downlink, in  *)
(* order, late or never.                                                   *)
(***************************************************************************)
EXTENDS Naturals, Sequences, FiniteSets

CONSTANTS
    Supis,          \* subscribers
    Assocs,         \* gNB associations (a lost one does not come back)
    MaxIds,         \* bound: AMF-UE-NGAP-IDs handed out
    MaxRegistrations, \* bound: of them, to registrations
    MaxSends,       \* NAS_RETX_MAX_SENDS, T3522_MAX_SENDS, T3555_MAX_SENDS
    MaxAnReleases,  \* bound: AN releases asked for by gNBs
    MaxWithdrawals, \* bound: subscription withdrawals
    MaxUpdates,     \* bound: AM policy changes
    MaxLosses,      \* bound: associations lost
    Refusals,       \* the SBI answers that refuse a UE, of Refusal
    None            \* no value

\* How a UE's registration can be refused: by the AUSF, by the UE itself, by an
\* empty allowed NSSAI, or by internal errors on the way.
Refusal == {"auth", "synch", "nssai", "error"}

ASSUME RegistrationAssumption ==
    /\ MaxIds \in Nat \ {0} /\ MaxSends \in Nat \ {0} /\ MaxRegistrations \in Nat
    /\ MaxAnReleases \in Nat /\ MaxWithdrawals \in Nat
    /\ MaxUpdates \in Nat /\ MaxLosses \in Nat
    /\ Refusals \subseteq Refusal
    /\ None \notin Supis /\ None \notin Nat

Ids == 1..MaxIds

VARIABLES
    \* the AMF
    ues,        \* ues[i]: the context under AMF-UE-NGAP-ID i, or None
    directory,  \* UE_DIRECTORY: the AMF-UE-NGAP-ID of a SUPI, or None
    guti,       \* GUTI_DIRECTORY: the SUPI of a 5G-TMSI, or None
    retained,   \* RETAINED: the CM-IDLE context of a 5G-TMSI, or None
    evicted,    \* the contexts the eviction sweep took out of RETAINED and works on
    nextId,     \* NEXT_AMF_UE_ID
    timers,     \* timers[i][k]: sleeping timer tasks of kind k for i
    inbox,      \* inbox[a]: the UeCmds sent by the SBI callbacks
    uecmTasks,  \* uecmTasks[s][op]: spawned UECM calls not yet answered
    \* the other network functions
    pcf,        \* AM policy associations, by the i they were created for
    smf,        \* SM contexts, by the i they were created for
    uecm,       \* uecm[s]: the UDM has this AMF as serving AMF
    \* the environment
    who,        \* who[i]: the subscriber that opened connection i
    at,         \* at[i]: the association of connection i
    up,         \* up[a]: the association is alive
    current,    \* current[s]: the connection the UE is on, or None
    known,      \* known[s]: the 5G-TMSI the UE holds, or None
    replies,    \* replies[i]: the UE's answers on their way
    spent       \* spent[b]: how much of each bound has been used

amfVars == <<ues, directory, guti, retained, evicted, nextId, timers, inbox, uecmTasks>>
nfVars == <<pcf, smf, uecm>>
envVars == <<who, at, up, current, known, replies, spent>>
vars == <<amfVars, nfVars, envVars>>

-----------------------------------------------------------------------------
(* Values *)

\* RetxKind, and the timers: one per kind, T3522, T3555, the registration guard.
RetxKind == {"Identity", "Auth", "Smc", "Accept"}
TimerKind == RetxKind \cup {"T3522", "T3555", "Guard"}

\* PendingNasRetx: which message, how often it went out, and for an Authentication
\* Request which challenge its bytes carry.
Retx(k, c) == [kind |-> k, attempts |-> 1, c |-> c]

\* PendingConfigUpdate; no numbers the AM policy changes (history).
ConfigUpdate(no) == [attempts |-> 1, no |-> no]

\* UeContext::new.  auth is the number of the pending challenge, progress says that
\* reg_progress_at moved since the guard was last armed; policy, sm: whom for.
NewContext(state, s) ==
    [state |-> state, supi |-> s, auth |-> None, sec |-> FALSE, resynced |-> FALSE,
     progress |-> FALSE, retx |-> None, dereg |-> None, cfg |-> None,
     policy |-> None, sm |-> None, tmsi |-> None, held |-> FALSE]

\* What a UE answers: a reply to a message of kind k, carrying the challenge or the
\* number of the command it answers.
Reply(k, c) == [kind |-> k, c |-> c]

Idle == [k \in TimerKind |-> 0]
Owned(x) == IF x = None THEN {} ELSE {x}

Init ==
    /\ ues = [i \in Ids |-> None]
    /\ directory = [s \in Supis |-> None]
    /\ guti = [i \in Ids |-> None]
    /\ retained = [i \in Ids |-> None]
    /\ evicted = [i \in Ids |-> None]
    /\ nextId = 1
    /\ timers = [i \in Ids |-> Idle]
    /\ inbox = [a \in Assocs |-> <<>>]
    /\ uecmTasks = [s \in Supis |-> [op \in {"register", "purge"} |-> 0]]
    /\ pcf = {} /\ smf = {}
    /\ uecm = [s \in Supis |-> FALSE]
    /\ who = [i \in Ids |-> None]
    /\ at = [i \in Ids |-> None]
    /\ up = [a \in Assocs |-> TRUE]
    /\ current = [s \in Supis |-> None]
    /\ known = [s \in Supis |-> None]
    /\ replies = [i \in Ids |-> <<>>]
    /\ spent = [b \in {"reg", "an", "withdraw", "update", "loss"} |-> 0]

-----------------------------------------------------------------------------
(* Parts of steps *)

\* What the UE at the other end of i answers, if it is still there: it discards the
\* copy of a protected message resent verbatim, so such a message has one answer.
Answered(i, r) ==
    IF \/ current[who[i]] # i
       \/ r.kind \in {"Smc", "Accept"} /\ \E n \in DOMAIN replies[i] : replies[i][n] = r
    THEN replies
    ELSE [replies EXCEPT ![i] = Append(@, r)]

Taken(i) == [replies EXCEPT ![i] = Tail(@)]

\* The task handles the UE's next answer on connection i, of kind k.
Gets(i, k) ==
    /\ ues[i] # None
    /\ replies[i] # <<>>
    /\ Head(replies[i]).kind = k

Arms(i, k) == timers' = [timers EXCEPT ![i][k] = @ + 1]
Fires(i, k) == ues[i] # None /\ timers[i][k] > 0
Fired(i, k) == [timers EXCEPT ![i][k] = @ - 1]

\* Context i leaves the association's map.  Its timers' expiries and the uplinks on
\* their way will find no context; the gNB is told to release the UE.
Removed(i) == [ues EXCEPT ![i] = None]
Quiet(i) == timers' = [timers EXCEPT ![i] = Idle] /\ replies' = [replies EXCEPT ![i] = <<>>]
Released(i) == current' = [current EXCEPT ![who[i]] = IF @ = i THEN None ELSE @]

Unlisted(s) == IF s = None THEN directory ELSE [directory EXCEPT ![s] = None]
GutiPurged(s) == [t \in Ids |-> IF guti[t] = s /\ s # None THEN None ELSE guti[t]]
Spawned(s, op) == IF s = None THEN uecmTasks ELSE [uecmTasks EXCEPT ![s][op] = @ + 1]
Spend(b, max) == spent[b] < max /\ spent' = [spent EXCEPT ![b] = @ + 1]

-----------------------------------------------------------------------------
(* A new registration *)

\* start_authentication, with a challenge from the AUSF: it is sent, guarded by T3560.
Challenged(x) ==
    [x EXCEPT !.auth = 1, !.state = "Authenticating", !.progress = TRUE, !.retx = Retx("Auth", 1)]

\* on_initial_ue and start_authentication: subscriber s comes with its SUCI
\* (t = None) or with the 5G-GUTI t, on a connection of association a.  A UE that is
\* known gets a challenge if the AUSF gives one (begun), and no answer otherwise; an
\* unknown 5G-GUTI is answered by an Identity Request.
OnInitialUe(s, a, t, begun) ==
    LET i == nextId
        supi == IF t = None THEN s ELSE guti[t]
        k == IF supi = None THEN "Identity" ELSE "Auth"
        sends == supi = None \/ begun
        ctx == NewContext(IF supi = None THEN "IdentityRequested" ELSE "Identified", supi)
    IN /\ up[a] /\ i \in Ids
       /\ Spend("reg", MaxRegistrations)
       /\ t \in {None, known[s]} \cup {x \in Ids : guti[x] = s}
       /\ t # None => retained[t] = None
       /\ nextId' = i + 1
       /\ ues' = [ues EXCEPT ![i] =
            CASE supi = None -> [ctx EXCEPT !.retx = Retx(k, 1)]
              [] supi # None /\ begun -> Challenged(ctx)
              [] OTHER -> ctx]
       /\ directory' = IF supi = None THEN directory ELSE [directory EXCEPT ![supi] = i]
       /\ timers' = [timers EXCEPT ![i]["Guard"] = 1, ![i][k] = IF sends THEN 1 ELSE 0]
       /\ replies' = [replies EXCEPT ![i] = IF sends THEN <<Reply(k, 1)>> ELSE <<>>]
       /\ who' = [who EXCEPT ![i] = s]
       /\ at' = [at EXCEPT ![i] = a]
       /\ current' = [current EXCEPT ![s] = i]
       /\ UNCHANGED <<guti, retained, evicted, inbox, uecmTasks, nfVars, up, known>>

\* dispatch_uplink_nas, Identity Response: the UE is challenged and listed.  The
\* state stays IdentityRequested when the AUSF gives no challenge.
OnIdentityResponse(i, begun) ==
    /\ Gets(i, "Identity")
    /\ IF ues[i].state = "IdentityRequested" /\ begun
       THEN /\ ues' = [ues EXCEPT ![i] = Challenged([@ EXCEPT !.supi = who[i]])]
            /\ directory' = [directory EXCEPT ![who[i]] = i]
            /\ Arms(i, "Auth")
            /\ replies' = [replies EXCEPT ![i] = Append(Tail(@), Reply("Auth", 1))]
       ELSE /\ replies' = Taken(i)
            /\ UNCHANGED <<ues, directory, timers>>
    /\ UNCHANGED <<guti, retained, evicted, nextId, inbox, uecmTasks, nfVars, who, at, up, current,
                   known, spent>>

\* complete_authentication, RES* accepted: NAS security is set up and the Security
\* Mode Command goes out, unless the AUSF's answer or the algorithms are of no use.
OnAuthenticationResponse(i, usable) ==
    /\ Gets(i, "Auth")
    /\ ~ues[i].sec                 \* otherwise the plain answer does not verify
    /\ IF ues[i].auth # None /\ usable
       THEN /\ ues' = [ues EXCEPT ![i] =
                 [@ EXCEPT !.auth = None, !.sec = TRUE, !.state = "SecurityMode",
                           !.progress = TRUE, !.retx = Retx("Smc", 0)]]
            /\ Arms(i, "Smc")
            /\ replies' = [replies EXCEPT ![i] = Append(Tail(@), Reply("Smc", 0))]
       ELSE /\ ues' = [ues EXCEPT ![i] = [@ EXCEPT !.auth = None, !.retx = None]]
            /\ replies' = Taken(i)
            /\ UNCHANGED timers
    /\ UNCHANGED <<directory, guti, retained, evicted, nextId, inbox, uecmTasks, nfVars, who, at, up,
                   current, known, spent>>

\* complete_authentication, RES* not accepted: Authentication Reject and release.
RejectAuthentication(i) ==
    /\ "auth" \in Refusals
    /\ Gets(i, "Auth")
    /\ ~ues[i].sec /\ ues[i].auth # None
    /\ directory' = Unlisted(ues[i].supi)
    /\ ues' = Removed(i) /\ Quiet(i) /\ Released(i)
    /\ UNCHANGED <<guti, retained, evicted, nextId, inbox, uecmTasks, nfVars, who, at, up, known, spent>>

\* on_authentication_failure, a first synch failure: the AUSF gives a fresh challenge.
\* The slot of T3560 is left as it is.
Resynchronise(i) ==
    /\ "synch" \in Refusals
    /\ Gets(i, "Auth")
    /\ ~ues[i].sec /\ ~ues[i].resynced /\ ues[i].auth # None
    /\ ues' = [ues EXCEPT ![i] = [@ EXCEPT !.auth = 2, !.resynced = TRUE]]
    /\ replies' = [replies EXCEPT ![i] = Append(Tail(@), Reply("Auth", 2))]
    /\ UNCHANGED <<directory, guti, retained, evicted, nextId, timers, inbox, uecmTasks, nfVars, who,
                   at, up, current, known, spent>>

\* on_authentication_failure, every other case (another cause, a second synch failure,
\* nothing pending, the AUSF fails): the registration is aborted.
AbortAuthentication(i) ==
    /\ "synch" \in Refusals
    /\ Gets(i, "Auth")
    /\ ~ues[i].sec
    /\ ues' = Removed(i) /\ Quiet(i) /\ Released(i)
    /\ UNCHANGED <<directory, guti, retained, evicted, nextId, inbox, uecmTasks, nfVars, who, at, up,
                   known, spent>>

\* A plain answer to a challenge that comes after NAS security is set up.
DiscardUnprotected(i) ==
    /\ Gets(i, "Auth")
    /\ ues[i].sec
    /\ replies' = Taken(i)
    /\ UNCHANGED <<amfVars, nfVars, who, at, up, current, known, spent>>

\* The Registration Accept goes out in the Initial Context Setup, guarded by T3550.
Accepted(x, i, policy) == [x EXCEPT !.policy = policy, !.tmsi = i, !.retx = Retx("Accept", i)]

\* on_security_mode_complete, Registration Accept: an AM policy association is created
\* if a PCF is reachable, the AMF-UE-NGAP-ID becomes the 5G-TMSI.
OnSecurityModeComplete(i, pcfUp) ==
    /\ Gets(i, "Smc")
    /\ pcf' = pcf \cup (IF pcfUp THEN {i} ELSE {})
    /\ ues' = [ues EXCEPT ![i] = Accepted(@, i, IF pcfUp THEN i ELSE @.policy)]
    /\ guti' = [GutiPurged(ues[i].supi) EXCEPT ![i] = ues[i].supi]
    /\ Arms(i, "Accept")
    /\ replies' = [replies EXCEPT ![i] = Append(Tail(@), Reply("Accept", i))]
    /\ UNCHANGED <<directory, retained, evicted, nextId, inbox, uecmTasks, smf, uecm, who, at, up,
                   current, known, spent>>

\* on_security_mode_complete, Registration Reject: no requested slice is allowed.
RejectRegistration(i, pcfUp) ==
    /\ "nssai" \in Refusals
    /\ Gets(i, "Smc")
    /\ pcf' = pcf \cup (IF pcfUp THEN {i} ELSE {})
    /\ directory' = Unlisted(ues[i].supi)
    /\ ues' = Removed(i) /\ Quiet(i) /\ Released(i)
    /\ UNCHANGED <<guti, retained, evicted, nextId, inbox, uecmTasks, smf, uecm, who, at, up, known,
                   spent>>

\* Mutant: T3550 is not stopped.
CompletedUnanswered(x) == [x EXCEPT !.state = "Registered"]

Completed(x) == [x EXCEPT !.state = "Registered", !.retx = None]

\* dispatch_uplink_nas, Registration Complete.
OnRegistrationComplete(i) ==
    /\ Gets(i, "Accept")
    /\ ues' = [ues EXCEPT ![i] = Completed(@)]
    /\ uecmTasks' = Spawned(ues[i].supi, "register")
    /\ known' = [known EXCEPT ![who[i]] = Head(replies[i]).c]
    /\ replies' = Taken(i)
    /\ UNCHANGED <<directory, guti, retained, evicted, nextId, timers, inbox, nfVars, who, at, up,
                   current, spent>>

-----------------------------------------------------------------------------
(* Registered *)

\* dispatch_uplink_nas, UL NAS Transport: the SMF creates an SM context.
OnUlNasTransport(i) ==
    /\ ues[i] # None /\ current[who[i]] = i
    /\ ues[i].state = "Registered" /\ ues[i].sm = None
    /\ ues' = [ues EXCEPT ![i].sm = i]
    /\ smf' = smf \cup {i}
    /\ UNCHANGED <<directory, guti, retained, evicted, nextId, timers, inbox, uecmTasks, pcf, uecm,
                   envVars>>

\* am_policy_notify, called by a PCF that has an association for the UE: to the
\* association of a listed UE, else to its retained context.
AmPolicyNotify(s) ==
    /\ Spend("update", MaxUpdates)
    /\ \E i \in pcf : who[i] = s
    /\ LET i == directory[s]
           held == {t \in Ids : retained[t] # None /\ retained[t].supi = s}
       IN IF i # None /\ up[at[i]]
          THEN /\ inbox' = [inbox EXCEPT ![at[i]] =
                    Append(@, [cmd |-> "UpdateAmPolicy", i |-> i, no |-> spent'["update"]])]
               /\ UNCHANGED retained
          ELSE /\ UNCHANGED inbox
               /\ IF held = {} THEN UNCHANGED retained
                  ELSE \E t \in held : retained' = [retained EXCEPT ![t].held = TRUE]
    /\ UNCHANGED <<ues, directory, guti, evicted, nextId, timers, uecmTasks, nfVars, who, at, up,
                   current, known, replies>>

\* dereg_notify, called by the UDR if the UDM has this AMF as serving AMF: a
\* subscription is withdrawn.
DeregNotify(s) ==
    /\ Spend("withdraw", MaxWithdrawals)
    /\ uecm[s]
    /\ directory[s] # None /\ up[at[directory[s]]]
    /\ inbox' = [inbox EXCEPT ![at[directory[s]]] =
         Append(@, [cmd |-> "Start", i |-> directory[s], no |-> 0])]
    /\ UNCHANGED <<ues, directory, guti, retained, evicted, nextId, timers, uecmTasks, nfVars, who, at,
                   up, current, known, replies>>

TakesCmd(a, c) ==
    /\ up[a] /\ inbox[a] # <<>>
    /\ Head(inbox[a]).cmd = c
    /\ inbox' = [inbox EXCEPT ![a] = Tail(@)]

\* push_tracked_config_update on context x (which has NAS security), as i.
Tracked(x, no) == [x EXCEPT !.cfg = ConfigUpdate(no)]

\* on_am_policy_update.
OnAmPolicyUpdate(a) ==
    /\ TakesCmd(a, "UpdateAmPolicy")
    /\ LET c == Head(inbox[a])
       IN IF ues[c.i] # None /\ ues[c.i].sec
          THEN /\ ues' = [ues EXCEPT ![c.i] = Tracked(@, c.no)]
               /\ Arms(c.i, "T3555")
               /\ replies' = Answered(c.i, Reply("Config", c.no))
          ELSE UNCHANGED <<ues, timers, replies>>
    /\ UNCHANGED <<directory, guti, retained, evicted, nextId, uecmTasks, nfVars, who, at, up, current,
                   known, spent>>

\* dispatch_uplink_nas, Configuration Update Complete.
OnConfigurationUpdateComplete(i) ==
    /\ Gets(i, "Config")
    /\ ues' = [ues EXCEPT ![i].cfg = None]
    /\ replies' = Taken(i)
    /\ UNCHANGED <<directory, guti, retained, evicted, nextId, timers, inbox, uecmTasks, nfVars, who,
                   at, up, current, known, spent>>

\* Mutant: the references stay in the context.
SmRefsCloned(x) == x

\* std::mem::take(&mut ctx.sm_refs).
SmRefsTaken(x) == [x EXCEPT !.sm = None]

\* on_network_deregistration: the SM contexts go, the UE is unlisted; without NAS
\* security there is nothing to ask the UE.
OnNetworkDeregistration(a) ==
    /\ TakesCmd(a, "Start")
    /\ LET i == Head(inbox[a]).i
       IN IF ues[i] = None \/ (ues[i] # None /\ ues[i].dereg # None)
          THEN UNCHANGED <<ues, directory, smf, timers, replies, current>>
          ELSE /\ smf' = smf \ Owned(ues[i].sm)
               /\ directory' = Unlisted(ues[i].supi)
               /\ IF ues[i].sec
                  THEN /\ ues' = [ues EXCEPT ![i] = [SmRefsTaken(@) EXCEPT !.dereg = 1]]
                       /\ Arms(i, "T3522")
                       /\ replies' = Answered(i, Reply("Dereg", 0))
                       /\ UNCHANGED current
                  ELSE ues' = Removed(i) /\ Quiet(i) /\ Released(i)
    /\ UNCHANGED <<guti, retained, evicted, nextId, uecmTasks, pcf, uecm, who, at, up, known, spent>>

\* dispatch_uplink_nas, Deregistration Accept.
OnDeregistrationAccept(i) ==
    /\ Gets(i, "Dereg")
    /\ IF ues[i].dereg = None
       THEN /\ replies' = Taken(i)
            /\ UNCHANGED <<ues, directory, guti, uecmTasks, pcf, timers, current>>
       ELSE /\ pcf' = pcf \ Owned(ues[i].policy)
            /\ directory' = Unlisted(ues[i].supi)
            /\ guti' = GutiPurged(ues[i].supi)
            /\ uecmTasks' = Spawned(ues[i].supi, "purge")
            /\ ues' = Removed(i) /\ Quiet(i) /\ Released(i)
    /\ UNCHANGED <<retained, evicted, nextId, inbox, smf, uecm, who, at, up, known, spent>>

\* on_deregistration: the UE leaves; its 5G-GUTI stays assigned.
OnDeregistration(i) ==
    /\ ues[i] # None /\ current[who[i]] = i
    /\ ues[i].state = "Registered"
    /\ smf' = smf \ Owned(ues[i].sm)
    /\ pcf' = pcf \ Owned(ues[i].policy)
    /\ directory' = Unlisted(ues[i].supi)
    /\ uecmTasks' = Spawned(ues[i].supi, "purge")
    /\ ues' = Removed(i) /\ Quiet(i) /\ Released(i)
    /\ UNCHANGED <<guti, retained, evicted, nextId, inbox, uecm, who, at, up, known, spent>>

-----------------------------------------------------------------------------
(* Timers *)

\* implicit_deregister.
ImplicitDeregister(i) ==
    /\ guti' = GutiPurged(ues[i].supi)
    /\ uecmTasks' = Spawned(ues[i].supi, "purge")
    /\ pcf' = pcf \ Owned(ues[i].policy)
    /\ ues' = Removed(i) /\ Quiet(i) /\ Released(i)

\* The timer went off and is armed again.
Rearmed(i, k) == [timers EXCEPT ![i][k] = (@ - 1) + 1]

\* A timer of kind k goes off for context i and its procedure has been transmitted n
\* times: once more if it may, as context x and awaiting r, else the UE is given up.
RetransmitOrGiveUp(i, k, n, x, r) ==
    IF n < MaxSends
    THEN /\ ues' = [ues EXCEPT ![i] = x]
         /\ replies' = Answered(i, r)
         /\ timers' = Rearmed(i, k)
         /\ UNCHANGED <<guti, uecmTasks, pcf, current>>
    ELSE ImplicitDeregister(i)

StaleExpiry(i, k) ==
    /\ timers' = Fired(i, k)
    /\ UNCHANGED <<ues, replies, guti, uecmTasks, pcf, current>>

\* on_nas_retx_expiry.
OnNasRetxExpiry(i, k) ==
    /\ k \in RetxKind
    /\ Fires(i, k)
    /\ LET x == ues[i]
           r == x.retx
       IN IF r # None /\ r.kind = k
          THEN RetransmitOrGiveUp(i, k, r.attempts, [x EXCEPT !.retx.attempts = @ + 1],
                                  Reply(k, r.c))
          ELSE StaleExpiry(i, k)
    /\ UNCHANGED <<directory, retained, evicted, nextId, inbox, smf, uecm, who, at, up, known, spent>>

\* on_t3522_expiry.
OnT3522Expiry(i) ==
    /\ Fires(i, "T3522")
    /\ IF ues[i].dereg # None
       THEN RetransmitOrGiveUp(i, "T3522", ues[i].dereg, [ues[i] EXCEPT !.dereg = @ + 1],
                               Reply("Dereg", 0))
       ELSE StaleExpiry(i, "T3522")
    /\ UNCHANGED <<directory, retained, evicted, nextId, inbox, smf, uecm, who, at, up, known, spent>>

\* on_t3555_expiry.
OnT3555Expiry(i) ==
    /\ Fires(i, "T3555")
    /\ IF ues[i].cfg # None
       THEN RetransmitOrGiveUp(i, "T3555", ues[i].cfg.attempts,
                               [ues[i] EXCEPT !.cfg.attempts = @ + 1],
                               Reply("Config", ues[i].cfg.no))
       ELSE StaleExpiry(i, "T3555")
    /\ UNCHANGED <<directory, retained, evicted, nextId, inbox, smf, uecm, who, at, up, known, spent>>

\* The guard is armed for the rest of the window.
GuardRearmed(i) == Rearmed(i, "Guard")

\* on_registration_guard_expiry: once more for a registration that moved since, else
\* an unfinished registration is evicted and unlisted if it is the one listed.
OnRegistrationGuardExpiry(i) ==
    /\ Fires(i, "Guard")
    /\ LET x == ues[i]
       IN CASE x.state = "Registered" ->
                 /\ timers' = Fired(i, "Guard")
                 /\ UNCHANGED <<ues, directory, pcf, replies, current>>
            [] x.state # "Registered" /\ x.progress ->
                 /\ ues' = [ues EXCEPT ![i].progress = FALSE]
                 /\ timers' = GuardRearmed(i)
                 /\ UNCHANGED <<directory, pcf, replies, current>>
            [] OTHER ->
                 /\ directory' = IF x.supi # None /\ directory[x.supi] = i
                                 THEN Unlisted(x.supi) ELSE directory
                 /\ pcf' = pcf \ Owned(x.policy)
                 /\ ues' = Removed(i) /\ Quiet(i) /\ Released(i)
    /\ UNCHANGED <<guti, retained, evicted, nextId, inbox, uecmTasks, smf, uecm, who, at, up, known,
                   spent>>

-----------------------------------------------------------------------------
(* CM-IDLE *)

\* on_ue_context_release_request and release_ue_context: the context is retained under
\* its 5G-TMSI, or dropped if it has none yet; timers are not carried over.
OnUeContextReleaseRequest(i) ==
    /\ Spend("an", MaxAnReleases)
    /\ ues[i] # None
    /\ LET x == ues[i]
       IN /\ directory' = Unlisted(x.supi)
          /\ retained' = IF x.tmsi = None THEN retained ELSE [retained EXCEPT ![x.tmsi] = x]
    /\ ues' = Removed(i) /\ Quiet(i) /\ Released(i)
    /\ UNCHANGED <<guti, evicted, nextId, inbox, uecmTasks, nfVars, who, at, up, known>>

\* The 5G-TMSIs under which subscriber s may come back: the one it last completed a
\* registration with, or the one a later accept gave it.
Held(s) == {t \in Ids : t = known[s] \/ guti[t] = s}

\* Mutant: the retained context is copied.
PeekRetained(t) == retained

\* The context leaves RETAINED for good.
TakenFromRetained(t) == [retained EXCEPT ![t] = None]

\* The context a CM-IDLE UE comes back to, with its policy change if one was held.
Restored(x, tmsi) ==
    LET y == [x EXCEPT !.tmsi = tmsi, !.held = FALSE]
    IN IF x.held /\ x.sec THEN Tracked(y, spent["update"]) ELSE y

\* on_service_request: a Service Request, or with update a registration update, which
\* gives the UE a new 5G-TMSI.  A policy change held for the UE is applied now.
OnServiceRequest(s, a, t, update) ==
    LET i == nextId
        x == retained[t]
        tmsi == IF update THEN i ELSE t
        apply == x.held /\ x.sec
    IN /\ up[a] /\ i \in Ids
       /\ t \in Held(s) /\ retained[t] # None
       /\ nextId' = i + 1
       /\ retained' = TakenFromRetained(t)
       /\ guti' = IF update THEN [GutiPurged(s) EXCEPT ![i] = s] ELSE guti
       /\ ues' = [ues EXCEPT ![i] = Restored(x, tmsi)]
       /\ timers' = [timers EXCEPT ![i]["T3555"] = IF apply THEN 1 ELSE 0]
       /\ directory' = [directory EXCEPT ![s] = i]
       /\ who' = [who EXCEPT ![i] = s]
       /\ at' = [at EXCEPT ![i] = a]
       /\ current' = [current EXCEPT ![s] = i]
       /\ known' = [known EXCEPT ![s] = tmsi]
       /\ replies' = [replies EXCEPT ![i] =
            IF apply THEN <<Reply("Config", spent["update"])>> ELSE <<>>]
       /\ UNCHANGED <<evicted, inbox, uecmTasks, nfVars, up, spent>>

\* on_service_request, anything else under a retained 5G-S-TMSI (an initial
\* registration, a request that does not verify): Service Reject, context discarded.
RejectService(s, a, t) ==
    /\ "error" \in Refusals
    /\ up[a] /\ nextId \in Ids
    /\ t \in Held(s) /\ retained[t] # None
    /\ nextId' = nextId + 1
    /\ retained' = TakenFromRetained(t)
    /\ current' = [current EXCEPT ![s] = None]
    /\ UNCHANGED <<ues, directory, guti, evicted, timers, inbox, uecmTasks, nfVars, who, at, up, known,
                   replies, spent>>

\* evict_stale_retained: an expired context leaves RETAINED, under its lock.
EvictStaleRetained(t) ==
    /\ retained[t] # None
    /\ evicted' = [evicted EXCEPT ![t] = retained[t]]
    /\ retained' = TakenFromRetained(t)
    /\ UNCHANGED <<ues, directory, guti, nextId, timers, inbox, uecmTasks, nfVars, envVars>>

\* Then, with RETAINED unlocked, the SMF releases its PDU session, which is awaited ...
EvictedIsReleased(t) ==
    /\ evicted[t] # None /\ evicted[t].sm # None
    /\ smf' = smf \ Owned(evicted[t].sm)
    /\ evicted' = [evicted EXCEPT ![t] = SmRefsTaken(@)]
    /\ UNCHANGED <<ues, directory, guti, retained, nextId, timers, inbox, uecmTasks, pcf, uecm, envVars>>

\* ... and the rest goes.  A sweep takes its contexts one after another; here they may
\* overlap.
EvictedIsPurged(t) ==
    /\ evicted[t] # None /\ evicted[t].sm = None
    /\ LET x == evicted[t]
       IN /\ pcf' = pcf \ Owned(x.policy)
          /\ guti' = GutiPurged(x.supi)
          /\ uecmTasks' = Spawned(x.supi, "purge")
    /\ evicted' = [evicted EXCEPT ![t] = None]
    /\ UNCHANGED <<ues, directory, retained, nextId, timers, inbox, smf, uecm, envVars>>

-----------------------------------------------------------------------------
(* Associations and spawned calls *)

\* The end of serve_gnb: the association's contexts drop, its directory entries go.
OnAssociationLost(a) ==
    /\ up[a]
    /\ Spend("loss", MaxLosses)
    /\ LET gone == {i \in Ids : at[i] = a}
       IN /\ ues' = [i \in Ids |-> IF i \in gone THEN None ELSE ues[i]]
          /\ directory' = [s \in Supis |-> IF directory[s] \in gone THEN None ELSE directory[s]]
          /\ timers' = [i \in Ids |-> IF i \in gone THEN Idle ELSE timers[i]]
          /\ replies' = [i \in Ids |-> IF i \in gone THEN <<>> ELSE replies[i]]
          /\ current' = [s \in Supis |-> IF current[s] \in gone THEN None ELSE current[s]]
    /\ up' = [up EXCEPT ![a] = FALSE]
    /\ inbox' = [inbox EXCEPT ![a] = <<>>]
    /\ UNCHANGED <<guti, retained, evicted, nextId, uecmTasks, nfVars, who, at, known>>

\* A task of spawn_uecm_register or spawn_uecm_purge reaches the UDM.
UecmCall(s, op) ==
    /\ uecmTasks[s][op] > 0
    /\ uecmTasks' = [uecmTasks EXCEPT ![s][op] = @ - 1]
    /\ uecm' = [uecm EXCEPT ![s] = (op = "register")]
    /\ UNCHANGED <<ues, directory, guti, retained, evicted, nextId, timers, inbox, pcf, smf, envVars>>

\* The next answer of the UE at i does not reach the AMF.
LoseReply(i) ==
    /\ replies[i] # <<>>
    /\ replies' = Taken(i)
    /\ UNCHANGED <<amfVars, nfVars, who, at, up, current, known, spent>>

-----------------------------------------------------------------------------

Uplink(i) ==
    \/ \E ok \in BOOLEAN :
         /\ ok \/ "error" \in Refusals
         /\ OnIdentityResponse(i, ok) \/ OnAuthenticationResponse(i, ok)
    \/ RejectAuthentication(i) \/ Resynchronise(i) \/ AbortAuthentication(i)
    \/ DiscardUnprotected(i)
    \/ \E pcfUp \in BOOLEAN : OnSecurityModeComplete(i, pcfUp) \/ RejectRegistration(i, pcfUp)
    \/ OnRegistrationComplete(i) \/ OnConfigurationUpdateComplete(i)
    \/ OnUlNasTransport(i) \/ OnDeregistrationAccept(i) \/ OnDeregistration(i)
    \/ OnUeContextReleaseRequest(i) \/ LoseReply(i)

Expiry(i) ==
    \/ \E k \in RetxKind : OnNasRetxExpiry(i, k)
    \/ OnT3522Expiry(i) \/ OnT3555Expiry(i) \/ OnRegistrationGuardExpiry(i)

Arrival(s, a) ==
    \/ \E t \in Held(s) \cup {None}, ok \in BOOLEAN :
         (ok \/ "error" \in Refusals) /\ OnInitialUe(s, a, t, ok)
    \/ \E t \in Held(s), update \in BOOLEAN : OnServiceRequest(s, a, t, update)
    \/ \E t \in Held(s) : RejectService(s, a, t)

Command(a) == OnAmPolicyUpdate(a) \/ OnNetworkDeregistration(a)

Sweep(t) == EvictStaleRetained(t) \/ EvictedIsReleased(t) \/ EvictedIsPurged(t)

Next ==
    \/ \E i \in Ids : Uplink(i) \/ Expiry(i) \/ Sweep(i)
    \/ \E s \in Supis, a \in Assocs : Arrival(s, a)
    \/ \E s \in Supis : AmPolicyNotify(s) \/ DeregNotify(s)
    \/ \E s \in Supis, op \in {"register", "purge"} : UecmCall(s, op)
    \/ \E a \in Assocs : Command(a) \/ OnAssociationLost(a)

\* A sleeping task wakes up and its association, which is alive, handles the expiry
\* (serve_gnb's select takes from both queues); the same goes for the commands.
Fairness ==
    /\ \A i \in Ids : /\ \A k \in RetxKind : WF_vars(OnNasRetxExpiry(i, k))
                      /\ WF_vars(OnT3522Expiry(i))
                      /\ WF_vars(OnT3555Expiry(i))
                      /\ WF_vars(OnRegistrationGuardExpiry(i))
    /\ \A a \in Assocs : WF_vars(Command(a))

Spec == Init /\ [][Next]_vars /\ Fairness

-----------------------------------------------------------------------------
(* Properties *)

OrNone(S) == S \cup {None}

Context ==
    [state : {"IdentityRequested", "Identified", "Authenticating", "SecurityMode",
              "Registered"},
     supi : OrNone(Supis), auth : OrNone({1, 2}), sec : BOOLEAN, resynced : BOOLEAN,
     progress : BOOLEAN,
     retx : OrNone([kind : RetxKind, attempts : 1..MaxSends, c : 0..MaxIds]),
     dereg : OrNone(1..MaxSends),
     cfg : OrNone([attempts : 1..MaxSends, no : 0..MaxUpdates]),
     policy : OrNone(Ids), sm : OrNone(Ids), tmsi : OrNone(Ids), held : BOOLEAN]

TypeOK ==
    /\ \A i \in Ids : {ues[i], retained[i], evicted[i]} \subseteq OrNone(Context)
    /\ directory \in [Supis -> OrNone(Ids)]
    /\ guti \in [Ids -> OrNone(Supis)]
    /\ nextId \in 1..(MaxIds + 1)
    /\ timers \in [Ids -> [TimerKind -> Nat]]
    /\ pcf \subseteq Ids /\ smf \subseteq Ids
    /\ uecm \in [Supis -> BOOLEAN]
    /\ current \in [Supis -> OrNone(Ids)] /\ known \in [Supis -> OrNone(Ids)]

\* All contexts: connected, CM-IDLE, being evicted.
Contexts == {x \in UNION {{ues[i], retained[i], evicted[i]} : i \in Ids} : x # None}

\* Two contexts refer to nothing in common.
Apart(x, y) == Owned(x.policy) \cap Owned(y.policy) = {} /\ Owned(x.sm) \cap Owned(y.sm) = {}

\* A 5G-TMSI names one context, wherever it is: a retained context sits under its own
\* 5G-TMSI, and no other context, connected or retained, answers to it; a SUPI has at
\* most one 5G-GUTI that resolves.  on_service_request takes a context out of RETAINED
\* before it restores it, and re-keys GUTI_DIRECTORY in one critical section.
TmsisUnambiguous ==
    /\ \A t \in Ids : retained[t] # None =>
         /\ retained[t].tmsi = t
         /\ \A i \in Ids : ues[i] # None => ues[i].tmsi # t
    /\ \A i, j \in Ids : i # j /\ ues[i] # None /\ ues[j] # None =>
         ues[i].tmsi = None \/ ues[i].tmsi # ues[j].tmsi
    /\ \A t, u \in Ids : guti[t] # None /\ guti[t] = guti[u] => t = u

\* What a context refers to at the PCF and the SMF exists there and belongs to no
\* other context.  On the paths of a registration (a UE's and a withdrawal's
\* deregistration, the timers' give-up, the eviction, a context's move to RETAINED and
\* back) the AMF does not keep a reference to what it has released, so it releases
\* nothing twice.  The paths of a PDU session are not among them: a release the UE
\* does not answer (AmfSessions!ReleasedIsForgotten), the SMF's own releases on a used-up
\* quota or a restarted UPF.
RefsAreLive ==
    /\ \A x \in Contexts : Owned(x.policy) \subseteq pcf /\ Owned(x.sm) \subseteq smf
    /\ \A i, j \in Ids :
         /\ ues[i] # None /\ ues[j] # None /\ i # j => Apart(ues[i], ues[j])
         /\ \A y \in {retained[j], evicted[j]} : ues[i] # None /\ y # None => Apart(ues[i], y)
         /\ retained[i] # None /\ evicted[j] # None => Apart(retained[i], evicted[j])

\* One pending_retx slot is enough: the message in it is always the one the
\* registration is waiting for, whatever order expiries, answers and failures come in,
\* and an unfinished connected registration is never without a guard.
SlotFollowsRegistration ==
    \A i \in Ids : ues[i] # None =>
      LET x == ues[i]
      IN /\ x.retx # None =>
              CASE x.retx.kind = "Identity" -> x.state = "IdentityRequested" /\ x.supi = None
                [] x.retx.kind = "Auth" -> x.state = "Authenticating" /\ x.auth # None
                [] x.retx.kind = "Smc" -> x.state = "SecurityMode" /\ x.sec /\ x.tmsi = None
                [] OTHER -> x.state = "SecurityMode" /\ x.tmsi = i
         /\ x.retx # None => timers[i][x.retx.kind] = 1
         /\ x.state # "Registered" => timers[i]["Guard"] = 1

\* A registration does not stay unfinished: the UE is registered or its context goes
\* (registration guard, retransmission budgets).
Unfinished(i) == ues[i] # None /\ ues[i].state # "Registered"
RegistrationEnds == \A i \in Ids : Unfinished(i) ~> ~Unfinished(i)

\* A network-initiated deregistration ends with the context gone, by the UE's accept or
\* by T3522's last expiry.
Withdrawn(i) == ues[i] # None /\ ues[i].dereg # None
WithdrawalEnds == \A i \in Ids : Withdrawn(i) ~> ues[i] = None

\* UE_DIRECTORY names contexts that exist (am_policy_notify and dereg_notify answer 204
\* on the strength of an entry).
DirectoryIsLive ==
    \A s \in Supis : directory[s] # None => ues[directory[s]] # None

\* A registered UE that is CM-CONNECTED is listed, so that withdrawals reach it.
ServedIsListed ==
    \A s \in Supis :
      LET i == current[s]
      IN i # None /\ ues[i] # None /\ ues[i].state = "Registered" /\ ues[i].dereg = None
         /\ ues[i].supi = s => directory[s] = i

\* Every AM policy association at the PCF belongs to a context.
PolicyIsOwned == pcf \subseteq UNION {Owned(x.policy) : x \in Contexts}

\* Every SM context at the SMF belongs to a context.
SmContextIsOwned == smf \subseteq UNION {Owned(x.sm) : x \in Contexts}

\* T3560 guards the challenge that is pending.
ResendsPendingChallenge ==
    \A i \in Ids : ues[i] # None /\ ues[i].retx # None /\ ues[i].auth # None =>
      (ues[i].retx.kind = "Auth" => ues[i].retx.c = ues[i].auth)

\* An expiry of T3555 that is still to come belongs to the outstanding command.
NoStaleT3555 ==
    \A i \in Ids : ues[i] # None /\ ues[i].cfg # None => timers[i]["T3555"] <= 1

\* An AM policy change sent to the association (204) is not dropped there while the UE
\* still has a context.
UpdateReachesUe ==
    \A a \in Assocs : \A n \in DOMAIN inbox[a] :
      LET c == inbox[a][n]
      IN c.cmd = "UpdateAmPolicy" /\ ues[c.i] = None =>
           \A t \in Ids : retained[t] # None => retained[t].supi # who[c.i]

\* Once its UECM calls are done, the UDM knows the AMF of a registered UE.
UdmKnowsServingAmf ==
    \A s \in Supis :
      LET i == current[s]
      IN i # None /\ ues[i] # None /\ ues[i].state = "Registered" /\ ues[i].dereg = None
         /\ ues[i].supi = s /\ uecmTasks[s] = [op \in {"register", "purge"} |-> 0]
         => uecm[s]

=============================================================================
