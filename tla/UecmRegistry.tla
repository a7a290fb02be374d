---------------------------- MODULE UecmRegistry ----------------------------
(***************************************************************************)
(* Who serves a subscriber: the serving-AMF registration and the serving-  *)
(* SMF registration of each PDU session, kept by the UDR (nudr.rs,         *)
(* subscriber-db) behind the UDM's Nudm_UECM (nudm.rs).                    *)
(*                                                                         *)
(* AMFs and SMFs register and purge from tasks they spawn and never wait   *)
(* for.  The UDR drops everything when the subscription is withdrawn and   *)
(* tells the AMF it has on record; every 30 s a sweep drops the            *)
(* registrations of functions the NRF no longer lists.                     *)
(*                                                                         *)
(* Every store operation is one transaction, of the in-memory store or of  *)
(* redb; handlers and the sweep run on several threads.                    *)
(***************************************************************************)
EXTENDS Integers, FiniteSets

CONSTANTS
    Amfs, Smfs,         \* instances: an id is drawn at every start of a process
    PduSessions,
    MaxServes,          \* times a function begins to serve the subscriber
    MaxCrashes, MaxNrfStops, MaxWithdrawals, MaxLosses,
    None

Nfs == Amfs \cup Smfs
Access == "amf-3gpp-access"
Keys == {Access} \cup PduSessions
Kinds == {"amf", "smf"}
\* The registrations of a kind, and the functions that write them.
KeysOf(kind) == IF kind = "amf" THEN {Access} ELSE PduSessions
Owners(k) == IF k = Access THEN Amfs ELSE Smfs

UecmAssumption == Access \notin PduSessions /\ Amfs \cap Smfs = {}

VARIABLES
    known,      \* the subscriber's credentials are stored
    reg,        \* AMF_3GPP_REG and SMF_REG: the instance on record, or None
    serving,    \* which functions serve the subscriber, per registration
    tasks,      \* spawned calls that are under way
    up,         \* the functions that run
    nrf,        \* the NRF: it runs, and the functions it lists
    wd,         \* a withdrawal request
    sweep,      \* a pass of sweep_stale_registrations
    count       \* what has happened, for the bounds

vars == <<known, reg, serving, tasks, up, nrf, wd, sweep, count>>

Bounds == [serves |-> MaxServes, crashes |-> MaxCrashes, nrf |-> MaxNrfStops,
           withdrawals |-> MaxWithdrawals, losses |-> MaxLosses]
Counts(what) ==
    /\ count[what] < Bounds[what]
    /\ count' = [count EXCEPT ![what] = @ + 1]

Task(op, k, n) == [op |-> op, key |-> k, nf |-> n]
Resting == [at |-> "idle", live |-> {}, todo |-> {}]

Init ==
    /\ known = TRUE
    /\ reg = [k \in Keys |-> None]
    /\ serving = [k \in Keys |-> {}]
    /\ tasks = {} /\ up = Nfs
    /\ nrf = [up |-> TRUE, listed |-> Nfs]
    /\ wd = [at |-> "idle", callback |-> None]
    /\ sweep = Resting
    /\ count = [what \in DOMAIN Bounds |-> 0]

-----------------------------------------------------------------------------
(* The store, one transaction each *)

PutRegistration(k, n) == reg' = [reg EXCEPT ![k] = n]
RemoveRegistration(k) == reg' = [reg EXCEPT ![k] = None]
\* remove_subscriber: credentials, registrations and documents.
RemoveSubscriber == known' = FALSE /\ reg' = [k \in Keys |-> None]
\* list_amf_registrations, list_smf_registrations
OnRecord(kind) == {k \in KeysOf(kind) : reg[k] # None}

-----------------------------------------------------------------------------
(* AMF and SMF *)

\* Registration Complete, or an established session: spawn_uecm_register.
Serve(k, n) ==
    /\ n \in up /\ n \in Owners(k) \ serving[k]
    /\ Counts("serves")
    /\ serving' = [serving EXCEPT ![k] = @ \cup {n}]
    /\ tasks' = tasks \cup {Task("register", k, n)}
    /\ UNCHANGED <<known, reg, up, nrf, wd, sweep>>

\* Deregistration, or release of the session: spawn_uecm_purge.
Leave(k, n) ==
    /\ n \in up \cap serving[k]
    /\ serving' = [serving EXCEPT ![k] = @ \ {n}]
    /\ tasks' = tasks \cup {Task("purge", k, n)}
    /\ UNCHANGED <<known, reg, up, nrf, wd, sweep, count>>

\* A process dies.  What it has sent is still under way.
Crash(n) ==
    /\ n \in up /\ Counts("crashes")
    /\ up' = up \ {n}
    /\ serving' = [k \in Keys |-> serving[k] \ {n}]
    /\ UNCHANGED <<known, reg, tasks, nrf, wd, sweep>>

-----------------------------------------------------------------------------
(* UDM and UDR *)

\* uecm_register_amf, uecm_register_smf and their PUT: the document replaces
\* what is there, whether or not the subscriber is known.
Register(k, n) ==
    /\ Task("register", k, n) \in tasks
    /\ tasks' = tasks \ {Task("register", k, n)}
    /\ PutRegistration(k, n)
    /\ UNCHANGED <<known, serving, up, nrf, wd, sweep, count>>

\* uecm_deregister_amf, uecm_deregister_smf and their DELETE: by subscriber (and
\* session), whoever is on record.
Purge(k, n) ==
    /\ Task("purge", k, n) \in tasks
    /\ tasks' = tasks \ {Task("purge", k, n)}
    /\ RemoveRegistration(k)
    /\ UNCHANGED <<known, serving, up, nrf, wd, sweep, count>>

\* A call fails: it is logged.
Lose(t) ==
    /\ t \in tasks /\ Counts("losses")
    /\ tasks' = tasks \ {t}
    /\ UNCHANGED <<known, reg, serving, up, nrf, wd, sweep>>

\* delete_subscription: the callback is read ...
WithdrawRead ==
    /\ wd.at = "idle" /\ Counts("withdrawals")
    /\ wd' = [at |-> "read", callback |-> reg[Access]]
    /\ UNCHANGED <<known, reg, serving, tasks, up, nrf, sweep>>

\* ... everything of the subscriber is removed in one transaction, and the AMF
\* is told from a task.  An unknown subscriber: 404, what was there goes too.
WithdrawRemove ==
    /\ wd.at = "read"
    /\ wd' = [at |-> "idle", callback |-> None]
    /\ RemoveSubscriber
    /\ tasks' = IF known /\ wd.callback # None
                THEN tasks \cup {Task("notify", Access, wd.callback)} ELSE tasks
    /\ UNCHANGED <<serving, up, nrf, sweep, count>>

\* notify_amf_deregistration, and the AMF's dereg_notify: it deregisters the UE,
\* or answers 404.
Notify(n) ==
    /\ Task("notify", Access, n) \in tasks
    /\ LET rest == tasks \ {Task("notify", Access, n)}
       IN IF n \in up \cap serving[Access]
          THEN /\ serving' = [serving EXCEPT ![Access] = @ \ {n}]
               /\ tasks' = rest \cup {Task("purge", Access, n)}
          ELSE tasks' = rest /\ UNCHANGED serving
    /\ UNCHANGED <<known, reg, up, nrf, wd, sweep, count>>

-----------------------------------------------------------------------------
(* The NRF (NrfRegistry has its heartbeats) *)

NrfExpires(n) ==
    /\ nrf.up /\ n \in nrf.listed \ up
    /\ nrf' = [nrf EXCEPT !.listed = @ \ {n}]
    /\ UNCHANGED <<known, reg, serving, tasks, up, wd, sweep, count>>

NrfLists(n) ==
    /\ nrf.up /\ n \in up \ nrf.listed
    /\ nrf' = [nrf EXCEPT !.listed = @ \cup {n}]
    /\ UNCHANGED <<known, reg, serving, tasks, up, wd, sweep, count>>

NrfStops ==
    /\ nrf.up /\ Counts("nrf")
    /\ nrf' = [up |-> FALSE, listed |-> {}]
    /\ UNCHANGED <<known, reg, serving, tasks, up, wd, sweep>>

NrfStarts ==
    /\ ~nrf.up
    /\ nrf' = [nrf EXCEPT !.up = TRUE]
    /\ UNCHANGED <<known, reg, serving, tasks, up, wd, sweep, count>>

-----------------------------------------------------------------------------
(* sweep_stale_registrations, every RADIAN_UDR_UECM_SWEEP_SECS *)

\* list_instances: one query.  An NRF that does not answer ends the pass.
SweepQuery ==
    /\ sweep.at = "idle" /\ nrf.up
    /\ sweep' = [at |-> "list amf", live |-> nrf.listed, todo |-> {}]
    /\ UNCHANGED <<known, reg, serving, tasks, up, nrf, wd, count>>

Listing(kind) == IF kind = "amf" THEN "list amf" ELSE "list smf"
Evicting(kind) == IF kind = "amf" THEN "evict amf" ELSE "evict smf"

\* list_amf_registrations or list_smf_registrations, one read.
SweepList(kind) ==
    /\ sweep.at = Listing(kind)
    /\ sweep' = [sweep EXCEPT !.at = Evicting(kind),
         !.todo = {k \in OnRecord(kind) : reg[k] \notin sweep.live}]
    /\ UNCHANGED <<known, reg, serving, tasks, up, nrf, wd, count>>

\* remove_amf_registration or remove_smf_registration, by key.
SweepEvict(kind, k) ==
    /\ sweep.at = Evicting(kind) /\ k \in sweep.todo
    /\ RemoveRegistration(k)
    /\ sweep' = [sweep EXCEPT !.todo = @ \ {k}]
    /\ UNCHANGED <<known, serving, tasks, up, nrf, wd, count>>

SweepDone(kind) ==
    /\ sweep.at = Evicting(kind) /\ sweep.todo = {}
    /\ sweep' = IF kind = "amf" THEN [sweep EXCEPT !.at = Listing("smf")] ELSE Resting
    /\ UNCHANGED <<known, reg, serving, tasks, up, nrf, wd, count>>

Sweep ==
    \/ SweepQuery
    \/ \E kind \in Kinds :
         SweepList(kind) \/ SweepDone(kind) \/ \E k \in Keys : SweepEvict(kind, k)

\* The calls under way, as the UDM and the UDR answer them.
Answer ==
    \/ \E k \in Keys : \E n \in Owners(k) : Register(k, n) \/ Purge(k, n)
    \/ \E n \in Amfs : Notify(n)

Next ==
    \/ \E k \in Keys : \E n \in Owners(k) : Serve(k, n) \/ Leave(k, n)
    \/ \E n \in Nfs : Crash(n) \/ NrfExpires(n) \/ NrfLists(n)
    \/ Answer \/ \E t \in tasks : Lose(t)
    \/ WithdrawRead \/ WithdrawRemove
    \/ NrfStops \/ NrfStarts
    \/ Sweep

\* Spawned tasks and requests run to their end; the sweep's interval ticks for
\* ever; the NRF, when it stops, is started again and sees expired heartbeats.
Fairness ==
    /\ WF_vars(Answer) /\ WF_vars(WithdrawRemove)
    /\ WF_vars(Sweep)
    /\ WF_vars(NrfStarts) /\ \A n \in Nfs : WF_vars(NrfExpires(n))

Spec == Init /\ [][Next]_vars /\ Fairness

-----------------------------------------------------------------------------
(* Properties *)

TypeOK ==
    /\ known \in BOOLEAN
    /\ \A k \in Keys : reg[k] \in Owners(k) \cup {None} /\ serving[k] \subseteq Owners(k)
    /\ up \subseteq Nfs /\ nrf.listed \subseteq Nfs
    /\ wd.at \in {"idle", "read"} /\ wd.callback \in Amfs \cup {None}
    /\ sweep.live \subseteq Nfs
    /\ \A kind \in Kinds : sweep.at = Evicting(kind) => sweep.todo \subseteq KeysOf(kind)

\* "a stale record can't outlive its NF": the registration of a function that has
\* died goes away, whatever is registered, purged or swept meanwhile.
StaleRecord(k, n) == reg[k] = n /\ n \notin up
StaleGoesAway == \A k \in Keys : \A n \in Owners(k) : StaleRecord(k, n) ~> ~StaleRecord(k, n)

\* Withdrawing "network-deregisters the UE": an AMF that was on record when the
\* withdrawal came stops serving, unless a call is lost.
Withdraws(n) == known /\ wd.at = "read" /\ wd.callback = n
Deregistered(n) == n \notin serving[Access] \/ count.losses > 0
WithdrawnIsDeregistered == \A n \in Amfs : Withdraws(n) ~> Deregistered(n)

\* "remove everything stored for the SUPI, then notify the serving AMF": the AMF
\* whose registration a withdrawal removes is told.
WipedIsNotified ==
    [][known /\ ~known' /\ reg[Access] # None
         => Task("notify", Access, reg[Access]) \in tasks']_vars

\* The sweep evicts "UECM registrations whose serving NF is no longer alive", and
\* only those: the registration of a function that runs is left alone.
SweepSparesLive ==
    [][\A kind \in Kinds, k \in Keys : SweepEvict(kind, k) => reg[k] \notin up]_vars

\* A withdrawn subscriber has no serving functions on record once nothing is
\* under way.
NoOrphanRegistration ==
    ~known /\ tasks = {} => \A k \in Keys : reg[k] = None
=============================================================================
