----------------------------- MODULE SmfSession -----------------------------
(***************************************************************************)
(* PDU sessions at the SMF and their N4 sessions at one UPF                *)
(* (nf/nf-smf/src/pdu_session.rs, handle_n4_from in crates/pfcp).          *)
(*                                                                         *)
(* The SMF runs every SBI request in a task of its own, next to one task   *)
(* for the UPF's usage reports and one for heartbeats.  All share the map  *)
(* of SM contexts, the address pool and the GFBR budget, each behind a     *)
(* lock that is never held across an await: a step here is what a task     *)
(* does between two awaits.  N4 runs over UDP: one datagram, no            *)
(* retransmission, 2 s to answer (N4Peer::transact).                       *)
(*                                                                         *)
(* A session has one address, standing for its IPv4 address and IPv6 /64,  *)
(* and one guaranteed rate.  Paths over several UPFs are left out.         *)
(***************************************************************************)
EXTENDS Integers, FiniteSets, FiniteSetsExt, Functions

LOCAL INSTANCE TLC

CONSTANTS
    Handlers,     \* tasks that serve SBI requests at the same time
    PoolSize,     \* addresses in the UE pool
    Budget,       \* gfbr_budget_bps
    Rates,        \* guaranteed rates the PCF may authorise
    UpfCeiling,   \* max_sessions at the UPF
    PcfAnswers,   \* whether a PCF may be there to ask (TRUE), or not (FALSE)
    ChfAnswers,   \* the same of a CHF
    MaxCreates,   \* bound: sessions requested
    MaxTimeouts,  \* bound: N4 exchanges that get no answer in time
    MaxReports,   \* bound: quota exhaustions
    MaxChanges,   \* bound: policy changes at the PCF
    MaxUpdates,   \* bound: activations and deactivations of the user plane
    MaxRestarts,  \* bound: restarts of the UPF
    MaxEvents,    \* bound: events of all these kinds together
    None

ASSUME SmfAssumption ==
    /\ IsFiniteSet(Handlers) /\ Handlers \cap {"reports", "heartbeat"} = {}
    /\ {PoolSize, Budget, UpfCeiling, MaxCreates, MaxTimeouts, MaxReports, MaxChanges,
        MaxUpdates, MaxRestarts, MaxEvents} \subseteq Nat
    /\ Rates \subseteq Nat
    /\ PcfAnswers \subseteq BOOLEAN /\ ChfAnswers \subseteq BOOLEAN

VARIABLES
    \* the SMF
    next, freed, \* U32Pool: lowest address never handed out, addresses returned
    reserved,    \* reserved_gfbr_bps
    contexts,    \* the SM contexts, by reference
    nextRef,     \* next_ref
    recovery,    \* N4Peer.recovery: the UPF start the SMF knows of
    jobs,        \* jobs[t]: what task t keeps across its await
    n4,          \* n4[t]: task t's N4 exchange, or None
    \* the UPF
    sessions,    \* the session of an UP-SEID, or None
    nextSeid,    \* next_seid
    start,       \* recovery_time
    late,        \* requests under way whose sender has given up
    \* the peers
    pcf,         \* SM policy associations, by the reference they were made for
    rate,        \* rate[r]: what the PCF authorises for session r now
    notices,     \* notices[r]: update notifications on their way to the SMF
    chf,         \* charging sessions
    amf,         \* SM context references the AMF holds
    count        \* bounds: how often each kind of event has happened

poolVars == <<next, freed>>
smfVars == <<next, freed, reserved, contexts, nextRef, recovery>>
taskVars == <<jobs, n4>>
upfVars == <<sessions, nextSeid, start>>
peerVars == <<pcf, rate, notices, chf, amf>>
vars == <<smfVars, taskVars, upfVars, late, peerVars, count>>

Refs == 1..MaxCreates
Seids == 1..(MaxCreates + 1)
Tasks == Handlers \cup {"reports", "heartbeat"}
Kinds == {"timeout", "report", "change", "update", "restart"}

\* References with an SM context.
Live == DOMAIN contexts

\* The job of a task that waits for work.
Idle == [op |-> "idle"]

Creating == {t \in Tasks : jobs[t].op = "create"}
Tearing == {t \in Tasks : jobs[t].op = "teardown"}

\* Events so far.
Events == MapThenSumSet(LAMBDA k : count[k], Kinds)

\* An event of a bounded kind happens.
Happens(kind, bound) ==
    /\ count[kind] < bound
    /\ Events < MaxEvents
    /\ count' = [count EXCEPT ![kind] = @ + 1]

Init ==
    /\ next = 1 /\ freed = {}
    /\ reserved = 0
    /\ contexts = [r \in {} |-> None]
    /\ nextRef = 1
    /\ recovery = 0
    /\ jobs = [t \in Tasks |-> Idle]
    /\ n4 = [t \in Tasks |-> None]
    /\ sessions = [s \in Seids |-> None]
    /\ nextSeid = 1
    /\ start = 0
    /\ late = {}
    /\ pcf = {} /\ chf = {} /\ amf = {}
    /\ rate = [r \in Refs |-> 0]
    /\ notices = [r \in Refs |-> 0]
    /\ count = [k \in Kinds |-> 0]

-----------------------------------------------------------------------------
(* U32Pool and the GFBR budget *)

HasAddress == freed # {} \/ next <= PoolSize

\* Mutant: the returned address that is handed out stays in the pool.
AllocPeeks(a) ==
    \/ /\ a \in freed /\ \A b \in freed : a <= b
       /\ UNCHANGED <<next, freed>>
    \/ /\ freed = {} /\ a = next /\ next <= PoolSize
       /\ next' = next + 1
       /\ UNCHANGED freed

\* alloc() hands out a: the lowest returned address, else a fresh one.
Alloc(a) ==
    \/ /\ a \in freed /\ \A b \in freed : a <= b
       /\ freed' = freed \ {a}
       /\ UNCHANGED next
    \/ /\ freed = {} /\ a = next /\ next <= PoolSize
       /\ next' = next + 1
       /\ UNCHANGED freed

\* release(): a returned address is taken back any number of times.
Returned(addrs) == freed \cup {a \in addrs : a < next}

\* try_reserve_gfbr
Fits(gbr) == reserved + gbr <= Budget

\* release_gfbr subtracts and saturates at zero.
Unreserved(gbr) == IF gbr > reserved THEN 0 ELSE reserved - gbr

\* adjust_gfbr
Adjusted(old, new) == Unreserved(old) + new

-----------------------------------------------------------------------------
(* N4 *)

Sent(request) == [request |-> request, answer |-> None]

\* What the UPF answers to a request: the UP-SEID of a new session or 0 for a
\* refusal, whether a session to delete was there, its own start time.
\* A modification is accepted whether or not the session exists.
Answer(q) ==
    CASE q.type = "establish" ->
           IF Cardinality({s \in Seids : sessions[s] # None}) >= UpfCeiling THEN 0 ELSE nextSeid
      [] q.type = "delete" -> sessions[q.seid] # None
      [] q.type = "modify" -> TRUE
      [] OTHER -> start

\* Mutant: the UPF hands the same UP-SEID out again.
UpfDoesSameSeid(q) ==
    /\ sessions' =
         CASE q.type = "establish" /\ Answer(q) # 0 ->
                [sessions EXCEPT ![nextSeid] =
                   [addr |-> q.addr, owner |-> q.ref, downlink |-> None]]
           [] q.type = "modify" /\ sessions[q.seid] # None ->
                [sessions EXCEPT ![q.seid].downlink = q.gnb]
           [] q.type = "delete" -> [sessions EXCEPT ![q.seid] = None]
           [] OTHER -> sessions
    /\ UNCHANGED <<nextSeid, start>>

\* handle_n4_from: what a request does at the UPF.  owner is history: the
\* reference the session was established for.
UpfDoes(q) ==
    /\ sessions' =
         CASE q.type = "establish" /\ Answer(q) # 0 ->
                [sessions EXCEPT ![nextSeid] =
                   [addr |-> q.addr, owner |-> q.ref, downlink |-> None]]
           [] q.type = "modify" /\ sessions[q.seid] # None ->
                [sessions EXCEPT ![q.seid].downlink = q.gnb]
           [] q.type = "delete" -> [sessions EXCEPT ![q.seid] = None]
           [] OTHER -> sessions
    /\ nextSeid' = IF q.type = "establish" /\ Answer(q) # 0 THEN nextSeid + 1 ELSE nextSeid
    /\ UNCHANGED start

UpfHandles(t) ==
    /\ n4[t] # None /\ n4[t].answer = None
    /\ UpfDoes(n4[t].request)
    /\ n4' = [n4 EXCEPT ![t].answer = Answer(n4[t].request)]
    /\ UNCHANGED <<smfVars, jobs, late, peerVars, count>>

\* The request of a task that no longer waits; the answer is dropped.
UpfHandlesLate(q) ==
    /\ UpfDoes(q)
    /\ late' = late \ {q}
    /\ UNCHANGED <<smfVars, taskVars, peerVars, count>>

\* The UPF comes up again with no session and numbers them from 1.
UpfRestarts ==
    /\ Happens("restart", MaxRestarts)
    /\ sessions' = [s \in Seids |-> None]
    /\ nextSeid' = 1
    /\ start' = start + 1
    /\ UNCHANGED <<smfVars, taskVars, late, peerVars>>

\* Task t has its answer and goes on.
Answered(t, op) ==
    /\ jobs[t].op = op
    /\ n4[t] # None /\ n4[t].answer # None

\* transact() gives up: the request or its answer was lost, or the request is
\* late and still to be handled.
GivesUp(t, op) ==
    /\ jobs[t].op = op
    /\ n4[t] # None
    /\ Happens("timeout", MaxTimeouts)
    /\ \/ UNCHANGED late
       \/ n4[t].answer = None /\ late' = late \cup {n4[t].request}

Starts(t, job, request) ==
    /\ jobs[t] = Idle
    /\ jobs' = [jobs EXCEPT ![t] = job]
    /\ n4' = [n4 EXCEPT ![t] = Sent(request)]

Ends(t) ==
    /\ jobs' = [jobs EXCEPT ![t] = Idle]
    /\ n4' = [n4 EXCEPT ![t] = None]

-----------------------------------------------------------------------------
(* create_sm_context *)

\* The policy of session nextRef: from the PCF, which keeps an association, or
\* from the subscription.
Authorised(gbr, fromPcf) ==
    /\ nextRef \in Refs
    /\ nextRef' = nextRef + 1
    /\ pcf' = IF fromPcf THEN pcf \cup {nextRef} ELSE pcf
    /\ rate' = IF fromPcf THEN [rate EXCEPT ![nextRef] = gbr] ELSE rate
    /\ UNCHANGED <<notices, chf, amf>>

\* Up to the N4 establishment: policy, GFBR admission, address.
CreateSmContext(h, a, gbr, fromPcf) ==
    /\ Authorised(gbr, fromPcf)
    /\ Fits(gbr)
    /\ reserved' = reserved + gbr
    /\ Alloc(a)
    /\ Starts(h, [op |-> "create", ref |-> nextRef, addr |-> a, gbr |-> gbr,
                  policy |-> fromPcf],
              [type |-> "establish", ref |-> nextRef, addr |-> a])
    /\ UNCHANGED <<contexts, recovery, upfVars, late, count>>

\* 503: the budget or the pool does not allow the session.
RefuseSmContext(h, gbr, fromPcf) ==
    /\ jobs[h] = Idle
    /\ Authorised(gbr, fromPcf)
    /\ ~Fits(gbr) \/ ~HasAddress
    /\ UNCHANGED <<poolVars, reserved, contexts, recovery, taskVars, upfVars, late, count>>

\* IpLease::drop and release_gfbr on the way out of a failed establishment.
Abandon(j) ==
    /\ freed' = Returned({j.addr})
    /\ reserved' = Unreserved(j.gbr)

CreateRejected(h) ==
    /\ Answered(h, "create") /\ n4[h].answer = 0
    /\ Abandon(jobs[h])
    /\ Ends(h)
    /\ UNCHANGED <<next, contexts, nextRef, recovery, upfVars, late, peerVars, count>>

CreateTimesOut(h) ==
    /\ GivesUp(h, "create")
    /\ Abandon(jobs[h])
    /\ Ends(h)
    /\ UNCHANGED <<next, contexts, nextRef, recovery, upfVars, peerVars>>

\* The session is up: a charging session if a CHF answers, and the context.
\* The CHF is asked after the N4 answer, so other tasks run in between.
FinishCreate(h, charged) ==
    /\ Answered(h, "create") /\ n4[h].answer # 0
    /\ LET j == jobs[h]
           c == [seid |-> n4[h].answer, addr |-> j.addr, gbr |-> j.gbr,
                 policy |-> j.policy, charged |-> charged, gnb |-> FALSE]
       IN /\ contexts' = [r \in Live \cup {j.ref} |-> IF r = j.ref THEN c ELSE contexts[r]]
          /\ chf' = IF charged THEN chf \cup {j.ref} ELSE chf
          /\ amf' = amf \cup {j.ref}
    /\ Ends(h)
    /\ UNCHANGED <<poolVars, reserved, nextRef, recovery, upfVars, late, pcf, rate, notices,
                   count>>

-----------------------------------------------------------------------------
(* teardown_sm_context *)

\* The context is read, and stays while the UPF deletes the session.
Teardown(t, r) ==
    /\ r \in Live
    /\ LET c == contexts[r]
       IN Starts(t, [op |-> "teardown", ref |-> r, addr |-> c.addr, gbr |-> c.gbr,
                     policy |-> c.policy, charged |-> c.charged],
                 [type |-> "delete", seid |-> c.seid])

\* The AMF makes one request at a time about a session (its association task
\* awaits the answer).
AmfMayAsk(r) ==
    /\ r \in amf
    /\ \A h \in Handlers : jobs[h].op \notin {"idle", "refresh"} => jobs[h].ref # r

ReleaseSmContext(h, r) ==
    /\ AmfMayAsk(r)
    /\ Teardown(h, r)
    /\ UNCHANGED <<smfVars, upfVars, late, peerVars, count>>

\* 404 CONTEXT_NOT_FOUND
ReleaseUnknown(h, r) ==
    /\ AmfMayAsk(r)
    /\ jobs[h] = Idle /\ r \notin Live
    /\ amf' = amf \ {r}
    /\ UNCHANGED <<smfVars, taskVars, upfVars, late, pcf, rate, notices, chf, count>>

\* handle_usage_reports: the UPF reports usage of a session and the CHF answers
\* that its quota is spent.
QuotaSpent(r) ==
    /\ Happens("report", MaxReports)
    /\ \E s \in Seids : sessions[s] # None /\ sessions[s].owner = r
    /\ r \in Live /\ contexts[r].charged
    /\ Teardown("reports", r)
    /\ UNCHANGED <<smfVars, upfVars, late, peerVars>>

\* Mutant: the reservation is not given back.
FreesKeepsRate(j) ==
    /\ freed' = Returned({j.addr})
    /\ UNCHANGED reserved

\* What teardown_sm_context gives back is what it read before the N4 deletion.
Frees(j) ==
    /\ freed' = Returned({j.addr})
    /\ reserved' = Unreserved(j.gbr)

\* Whether or not the UPF still had the session, everything of it goes.  The
\* PCF and CHF deletions are spawned and succeed.
FinishTeardown(t) ==
    /\ Answered(t, "teardown")
    /\ LET j == jobs[t]
       IN /\ contexts' = Restrict(contexts, Live \ {j.ref})
          /\ Frees(j)
          /\ pcf' = IF j.policy THEN pcf \ {j.ref} ELSE pcf
          /\ chf' = IF j.charged THEN chf \ {j.ref} ELSE chf
          /\ amf' = IF t \in Handlers THEN amf \ {j.ref} ELSE amf
    /\ Ends(t)
    /\ UNCHANGED <<next, nextRef, recovery, upfVars, late, rate, notices, count>>

\* 502: the context stays, the AMF may ask again.
TeardownTimesOut(t) ==
    /\ GivesUp(t, "teardown")
    /\ Ends(t)
    /\ UNCHANGED <<smfVars, upfVars, peerVars>>

-----------------------------------------------------------------------------
(* update_sm_context and deactivate_up *)

\* The AMF gives the gNB's tunnel, or the UE has gone CM-IDLE.  A tunnel is
\* named by the session it belongs to.
UpdateSmContext(h, r, active) ==
    /\ AmfMayAsk(r)
    /\ r \in Live
    /\ Happens("update", MaxUpdates)
    /\ Starts(h, [op |-> "update", ref |-> r, active |-> active],
              [type |-> "modify", seid |-> contexts[r].seid,
               gnb |-> IF active THEN r ELSE None])
    /\ UNCHANGED <<smfVars, upfVars, late, peerVars>>

FinishUpdate(h) ==
    /\ Answered(h, "update")
    /\ LET j == jobs[h]
       IN contexts' = IF j.ref \notin Live THEN contexts
                      ELSE [contexts EXCEPT ![j.ref].gnb = j.active]
    /\ Ends(h)
    /\ UNCHANGED <<poolVars, reserved, nextRef, recovery, upfVars, late, peerVars, count>>

UpdateTimesOut(h) ==
    /\ GivesUp(h, "update")
    /\ Ends(h)
    /\ UNCHANGED <<smfVars, upfVars, peerVars>>

-----------------------------------------------------------------------------
(* refresh_sm_policy *)

\* The PCF changes its decision and notifies the SMF.
PcfDecides(r, gbr) ==
    /\ r \in pcf
    /\ gbr # rate[r]
    /\ Happens("change", MaxChanges)
    /\ rate' = [rate EXCEPT ![r] = gbr]
    /\ notices' = [notices EXCEPT ![r] = @ + 1]
    /\ UNCHANGED <<smfVars, taskVars, upfVars, late, pcf, chf, amf>>

\* The notification makes the SMF ask for the decision in force.
RefreshSmPolicy(h, r) ==
    /\ jobs[h] = Idle
    /\ notices[r] > 0
    /\ notices' = [notices EXCEPT ![r] = @ - 1]
    /\ jobs' = IF r \in Live /\ r \in pcf
               THEN [jobs EXCEPT ![h] = [op |-> "refresh", ref |-> r, gbr |-> rate[r]]]
               ELSE jobs
    /\ UNCHANGED <<smfVars, n4, upfVars, late, pcf, rate, chf, amf, count>>

\* After the N4 flow update, whose outcome is ignored, the context and its
\* reservation follow the decision.
FinishRefresh(h) ==
    /\ jobs[h].op = "refresh"
    /\ LET j == jobs[h]
       IN IF j.ref \notin Live THEN UNCHANGED <<reserved, contexts>>
          ELSE /\ reserved' = Adjusted(contexts[j.ref].gbr, j.gbr)
               /\ contexts' = [contexts EXCEPT ![j.ref].gbr = j.gbr]
    /\ Ends(h)
    /\ UNCHANGED <<poolVars, nextRef, recovery, upfVars, late, peerVars, count>>

-----------------------------------------------------------------------------
(* run_heartbeats *)

Heartbeat ==
    /\ Starts("heartbeat", [op |-> "heartbeat"], [type |-> "heartbeat"])
    /\ UNCHANGED <<smfVars, upfVars, late, peerVars, count>>

\* note_recovery: a later start time means that the UPF has restarted; the SMF
\* associates again first.
HeartbeatAnswered ==
    /\ Answered("heartbeat", "heartbeat")
    /\ LET reported == n4["heartbeat"].answer
       IN IF reported > recovery
          THEN /\ recovery' = reported
               /\ jobs' = [jobs EXCEPT !["heartbeat"] = [op |-> "recover"]]
               /\ n4' = [n4 EXCEPT !["heartbeat"] = Sent([type |-> "associate"])]
          ELSE /\ UNCHANGED recovery
               /\ Ends("heartbeat")
    /\ UNCHANGED <<poolVars, reserved, contexts, nextRef, upfVars, late, peerVars, count>>

HeartbeatMissed ==
    /\ GivesUp("heartbeat", "heartbeat")
    /\ Ends("heartbeat")
    /\ UNCHANGED <<smfVars, upfVars, peerVars>>

\* What the sessions of the contexts were promised, in sum.
Promised == SumFunction([r \in Live |-> contexts[r].gbr])

\* Mutant: the dropped contexts' addresses are forgotten.
DropContextsKeepsAddresses ==
    /\ contexts' = Restrict(contexts, {})
    /\ reserved' = Unreserved(Promised)
    /\ UNCHANGED freed

\* recover_from_upf_restart: every context on the UPF goes, with its address
\* and reservation.
DropContexts ==
    /\ contexts' = Restrict(contexts, {})
    /\ freed' = Returned({contexts[r].addr : r \in Live})
    /\ reserved' = Unreserved(Promised)

Recover ==
    /\ Answered("heartbeat", "recover")
    /\ recovery' = IF n4["heartbeat"].answer > recovery THEN n4["heartbeat"].answer ELSE recovery
    /\ DropContexts
    /\ Ends("heartbeat")
    /\ UNCHANGED <<next, nextRef, upfVars, late, peerVars, count>>

RecoverUnassociated ==
    /\ GivesUp("heartbeat", "recover")
    /\ DropContexts
    /\ Ends("heartbeat")
    /\ UNCHANGED <<next, nextRef, recovery, upfVars, peerVars>>

-----------------------------------------------------------------------------

SmfStep(h) ==
    \/ \E gbr \in Rates, fromPcf \in PcfAnswers :
         \/ \E a \in 1..PoolSize : CreateSmContext(h, a, gbr, fromPcf)
         \/ RefuseSmContext(h, gbr, fromPcf)
    \/ CreateRejected(h) \/ CreateTimesOut(h)
    \/ \E charged \in ChfAnswers : FinishCreate(h, charged)
    \/ \E r \in Refs : ReleaseSmContext(h, r) \/ ReleaseUnknown(h, r) \/ RefreshSmPolicy(h, r)
    \/ \E r \in Refs, active \in BOOLEAN : UpdateSmContext(h, r, active)
    \/ FinishUpdate(h) \/ UpdateTimesOut(h) \/ FinishRefresh(h)

TeardownStep(t) == FinishTeardown(t) \/ TeardownTimesOut(t)

HeartbeatStep ==
    Heartbeat \/ HeartbeatAnswered \/ HeartbeatMissed \/ Recover \/ RecoverUnassociated

Next ==
    \/ \E h \in Handlers : SmfStep(h)
    \/ \E t \in Tasks : TeardownStep(t) \/ UpfHandles(t)
    \/ \E q \in late : UpfHandlesLate(q)
    \/ \E r \in Refs : QuotaSpent(r) \/ \E gbr \in Rates : PcfDecides(r, gbr)
    \/ HeartbeatStep
    \/ UpfRestarts

Spec == Init /\ [][Next]_vars

-----------------------------------------------------------------------------
(* Properties *)

TypeOK ==
    /\ next \in 1..(PoolSize + 1) /\ freed \subseteq 1..(next - 1)
    /\ reserved \in Nat
    /\ Live \subseteq Refs
    /\ \A r \in Live : contexts[r] \in
         [seid : Seids, addr : 1..PoolSize, gbr : Rates, policy : BOOLEAN,
          charged : BOOLEAN, gnb : BOOLEAN]
    /\ nextRef \in 1..(MaxCreates + 1)
    /\ nextSeid \in Seids
    /\ recovery \in 0..start
    /\ pcf \subseteq Refs /\ chf \subseteq Refs /\ amf \subseteq Refs

\* Nothing of the pool is lost: an address that was handed out is back in the
\* pool, leased by an establishment under way, or an SM context's, whatever
\* fails, times out, restarts or runs at once.
NoAddressLost ==
    1..(next - 1) \subseteq
      freed \cup {jobs[t].addr : t \in Creating} \cup {contexts[r].addr : r \in Live}

\* U32Pool: "the same address can never be handed to two live sessions"; nor is
\* an address in use free.
AddressesDistinct ==
    /\ \A r, q \in Live : r # q => contexts[r].addr # contexts[q].addr
    /\ \A r \in Live : contexts[r].addr \notin freed
    /\ \A r \in Live, t \in Creating : jobs[t].addr # contexts[r].addr
    /\ \A t, u \in Creating : t # u => jobs[t].addr # jobs[u].addr
    /\ \A t \in Creating : jobs[t].addr \notin freed

\* The budget's ledger: what is reserved is exactly what sessions, present and
\* coming, were promised.
ReservedIsPromised ==
    reserved = Promised + SumFunction([t \in Creating |-> jobs[t].gbr])

\* A session of the UPF forwards only to the tunnel of the UE it is for.
DownlinkIsOwners ==
    \A s \in Seids : sessions[s] # None => sessions[s].downlink \in {None, sessions[s].owner}

\* Two sessions at the UPF never share a UE address (route_downlink takes the
\* first session it finds with the packet's destination).
UpfAddressesDistinct ==
    \A s, u \in Seids : s # u /\ sessions[s] # None /\ sessions[u] # None =>
      sessions[s].addr # sessions[u].addr

\* An SM context that nobody is tearing down has its session at the UPF, unless
\* the UPF has restarted and the SMF has yet to notice.
ContextHasSession ==
    \A r \in Live :
      \/ start > recovery
      \/ jobs["heartbeat"].op = "recover"
      \/ \E t \in Tearing : jobs[t].ref = r
      \/ /\ sessions[contexts[r].seid] # None
         /\ sessions[contexts[r].seid].owner = r

\* A PCF association goes with its session: recover_from_upf_restart leaves its
\* deletion "to the normal release path when the AMF eventually releases the
\* context", so one without a context still has the AMF's release to come.
PolicyIsReleasable ==
    pcf \subseteq Live \cup amf \cup {jobs[t].ref : t \in Creating}

\* When every notification is dealt with, the stored policy is the PCF's.
PolicyIsCurrent ==
    \A r \in Live :
      /\ notices[r] = 0 /\ r \in pcf
      /\ \A h \in Handlers : jobs[h] # Idle => jobs[h].ref # r
      => contexts[r].gbr = rate[r]

\* Handlers are interchangeable.
HandlerSymmetry == Permutations(Handlers)
=============================================================================
