---------------------------- MODULE NrfRegistry ----------------------------
(***************************************************************************)
(* The NRF's registry of NF instances and the task by which an NF keeps    *)
(* its entry alive (crates/sbi-core/src/nnrf.rs).                          *)
(*                                                                         *)
(* Registrations are soft state: an entry not refreshed for twice the      *)
(* heartbeat period is evicted, lazily, by the next request that reads the *)
(* table.  Time is kept as ages and countdowns, so that runs have no last  *)
(* moment.  A request that fails on the way is answered by an error.  An   *)
(* instance id is made anew by every process, so an instance that crashes  *)
(* does not come back, and its certificate is always the one it registered *)
(* with.                                                                   *)
(***************************************************************************)
EXTENDS Naturals, FiniteSets

CONSTANTS
    Nfs,          \* NF instances
    Profiles,     \* Profiles[n]: its type and the (slice, DNN) pairs it serves
    Queries,      \* what consumers look for
    Period,       \* heartbeat_timer
    Latency,      \* ticks a due request may take to be sent and handled
    MaxLost,      \* bound: requests that get no answer
    MaxRestarts,  \* bound: restarts of the NRF
    None          \* an absent filter

NrfAssumption ==
    /\ Period \in Nat \ {0} /\ Latency \in Nat /\ MaxLost \in Nat /\ MaxRestarts \in Nat
    /\ \A n \in Nfs : \A p \in Profiles[n].serves : DOMAIN p = {"snssai", "dnn"}

VARIABLES
    entries,   \* instances in the table
    age,       \* age[n]: ticks since n's entry was refreshed
    nf,        \* nf[n]: "off", "starting", "sleeping", "registering", "unlisted" or "crashed"
    wait,      \* wait[n]: ticks until n's task sends, or 0 when it is due
    overdue,   \* overdue[n]: ticks for which it has been due
    found,     \* the answer to the last discovery, with its query
    gone,      \* history: ticks since n crashed
    missed,    \* history: rounds of n's task without contact since the last refresh
    lost, restarts

nrfVars == <<entries, age>>
nfVars == <<nf, wait, overdue>>
vars == <<nrfVars, nfVars, found, gone, missed, lost, restarts>>

\* ttl()
Ttl == 2 * Period

\* Ages beyond this are alike.
Old == Ttl + 1

Running == {n \in Nfs : nf[n] \in {"sleeping", "registering"}}

Init ==
    /\ entries = {} /\ age = [n \in Nfs |-> 0]
    /\ nf = [n \in Nfs |-> "off"]
    /\ wait = [n \in Nfs |-> 0] /\ overdue = [n \in Nfs |-> 0]
    /\ found = [query |-> None, nfs |-> {}]
    /\ gone = [n \in Nfs |-> 0] /\ missed = [n \in Nfs |-> 0]
    /\ lost = 0 /\ restarts = 0

-----------------------------------------------------------------------------
(* The NRF *)

\* Mutant: an entry lives for one period.
FreshForOnePeriod(n) == age[n] <= Period

Fresh(n) == age[n] <= Ttl

\* purge_stale: what is left of the table after a read.
Purged == {n \in entries : Fresh(n)}

\* register(): the entry is made or replaced; nothing is evicted.
Registered(n) ==
    /\ entries' = entries \cup {n}
    /\ age' = [age EXCEPT ![n] = 0]

\* SmfInfo::serves
Serves(n, snssai, dnn) ==
    \E p \in Profiles[n].serves : p.dnn = dnn /\ (snssai = None \/ p.snssai = snssai)

\* discover(): the type matches, and the DNN within the slice when one is given.
Matches(n, q) ==
    /\ Profiles[n].type = q.type
    /\ q.dnn = None \/ Serves(n, q.snssai, q.dnn)

Discover(q) ==
    /\ entries' = Purged
    /\ found' = [query |-> q, nfs |-> {n \in Purged : Matches(n, q)}]
    /\ UNCHANGED <<age, nfVars, gone, missed, lost, restarts>>

\* deregister(): an NF that leaves in order.
Deregister(n) ==
    /\ n \in Running
    /\ nf' = [nf EXCEPT ![n] = "off"]
    /\ entries' = entries \ {n}
    /\ UNCHANGED <<age, wait, overdue, found, gone, missed, lost, restarts>>

\* The table is kept in memory only.
NrfRestarts ==
    /\ restarts < MaxRestarts
    /\ restarts' = restarts + 1
    /\ entries' = {}
    /\ UNCHANGED <<age, nfVars, found, gone, missed, lost>>

-----------------------------------------------------------------------------
(* register_and_maintain *)

Due(n, state) == nf[n] = state /\ wait[n] = 0

\* The task does something else from now on, in w ticks.
Continues(n, state, w) ==
    /\ nf' = [nf EXCEPT ![n] = state]
    /\ wait' = [wait EXCEPT ![n] = w]
    /\ overdue' = [overdue EXCEPT ![n] = 0]

Loses ==
    /\ lost < MaxLost
    /\ lost' = lost + 1

Start(n) ==
    /\ nf[n] = "off"
    /\ Continues(n, "starting", 0)
    /\ missed' = [missed EXCEPT ![n] = 0]
    /\ UNCHANGED <<nrfVars, found, gone, lost, restarts>>

\* The first registration succeeds and the task begins.
FirstRegister(n) ==
    /\ Due(n, "starting")
    /\ Registered(n)
    /\ Continues(n, "sleeping", Period)
    /\ UNCHANGED <<found, gone, missed, lost, restarts>>

\* It fails: "continuing without discovery".
FirstRegisterLost(n) ==
    /\ Due(n, "starting")
    /\ Loses
    /\ Continues(n, "unlisted", 0)
    /\ UNCHANGED <<nrfVars, found, gone, missed, restarts>>

Heartbeat(n) ==
    /\ Due(n, "sleeping")
    /\ n \in Purged
    /\ entries' = Purged
    /\ age' = [age EXCEPT ![n] = 0]
    /\ Continues(n, "sleeping", Period)
    /\ missed' = [missed EXCEPT ![n] = 0]
    /\ UNCHANGED <<found, gone, lost, restarts>>

\* Mutant: a failed heartbeat is only repeated.
HeartbeatUnknownSleeps(n) ==
    /\ Due(n, "sleeping")
    /\ n \notin Purged
    /\ entries' = Purged
    /\ Continues(n, "sleeping", Period)
    /\ UNCHANGED <<age, found, gone, missed, lost, restarts>>

\* 404: the task registers again.
HeartbeatUnknown(n) ==
    /\ Due(n, "sleeping")
    /\ n \notin Purged
    /\ entries' = Purged
    /\ Continues(n, "registering", 0)
    /\ UNCHANGED <<age, found, gone, missed, lost, restarts>>

\* No answer: the same.
HeartbeatLost(n) ==
    /\ Due(n, "sleeping")
    /\ Loses
    /\ Continues(n, "registering", 0)
    /\ UNCHANGED <<nrfVars, found, gone, missed, restarts>>

Reregister(n) ==
    /\ Due(n, "registering")
    /\ Registered(n)
    /\ Continues(n, "sleeping", Period)
    /\ missed' = [missed EXCEPT ![n] = 0]
    /\ UNCHANGED <<found, gone, lost, restarts>>

ReregisterLost(n) ==
    /\ Due(n, "registering")
    /\ Loses
    /\ Continues(n, "sleeping", Period)
    /\ missed' = [missed EXCEPT ![n] = IF @ < 2 THEN @ + 1 ELSE @]
    /\ UNCHANGED <<nrfVars, found, gone, restarts>>

Crash(n) ==
    /\ n \in Running
    /\ nf' = [nf EXCEPT ![n] = "crashed"]
    /\ gone' = [gone EXCEPT ![n] = 0]
    /\ UNCHANGED <<nrfVars, wait, overdue, found, missed, lost, restarts>>

-----------------------------------------------------------------------------

Older(a) == IF a < Old THEN a + 1 ELSE a

\* A due task is slow by at most Latency.
Tick ==
    /\ \A n \in Nfs : nf[n] \in {"starting", "sleeping", "registering"} /\ wait[n] = 0
                        => overdue[n] < Latency
    /\ age' = [n \in Nfs |-> Older(age[n])]
    /\ gone' = [n \in Nfs |-> IF nf[n] = "crashed" THEN Older(gone[n]) ELSE gone[n]]
    /\ wait' = [n \in Nfs |-> IF wait[n] > 0 THEN wait[n] - 1 ELSE 0]
    /\ overdue' = [n \in Nfs |-> IF nf[n] \in {"starting", "sleeping", "registering"}
                                    /\ wait[n] = 0 THEN overdue[n] + 1 ELSE 0]
    /\ found' = [query |-> None, nfs |-> {}]
    /\ UNCHANGED <<entries, nf, missed, lost, restarts>>

Keeps(n) ==
    \/ FirstRegister(n) \/ FirstRegisterLost(n)
    \/ Heartbeat(n) \/ HeartbeatUnknown(n) \/ HeartbeatLost(n)
    \/ Reregister(n) \/ ReregisterLost(n)

Next ==
    \/ \E n \in Nfs : Start(n) \/ Keeps(n) \/ Crash(n) \/ Deregister(n)
    \/ \E q \in Queries : Discover(q)
    \/ NrfRestarts
    \/ Tick

\* Time passes and a due task sends its request: a timer and a running task.
Fairness == WF_vars(Tick) /\ \A n \in Nfs : WF_vars(Keeps(n))

Spec == Init /\ [][Next]_vars /\ Fairness

-----------------------------------------------------------------------------
(* Properties *)

TypeOK ==
    /\ entries \subseteq Nfs
    /\ age \in [Nfs -> 0..Old] /\ gone \in [Nfs -> 0..Old]
    /\ nf \in [Nfs -> {"off", "starting", "sleeping", "registering", "unlisted", "crashed"}]
    /\ wait \in [Nfs -> 0..Period] /\ overdue \in [Nfs -> 0..Latency]

Discoverable(n) == n \in entries /\ Fresh(n)

\* "a crashed NF stops being discoverable instead of lingering forever": what a
\* discovery returns was running within the last two periods, crashed or not.
NoLingering ==
    \A n \in found.nfs : nf[n] = "crashed" => gone[n] <= Ttl

\* An NF that reaches the NRF in every round is discoverable all the time, also
\* while its heartbeat is due, unless the NRF has restarted.
KeptWhileHeard ==
    restarts = 0 /\ lost = 0 => \A n \in Running : Discoverable(n)

\* ttl(): "One missed heartbeat is tolerated; a second means the NF is gone."
OneMissTolerated ==
    restarts = 0 => \A n \in Running : missed[n] <= 1 => Discoverable(n)

\* After restarts, evictions and lost requests a running NF comes back, or it
\* ceases to run.
Missing(n) == n \in Running /\ ~Discoverable(n)
ListedAgain == \A n \in Nfs : Missing(n) ~> ~Missing(n)

=============================================================================
