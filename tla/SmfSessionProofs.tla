-------------------------- MODULE SmfSessionProofs --------------------------
(***************************************************************************)
(* The SMF's address pool: nothing of it is lost, for any pool, any number *)
(* of handlers and sessions and any failures.  No address is shared        *)
(* either, unless a quota runs out or a UPF restarts.  The GFBR budget's   *)
(* ledger balances, unless a policy changes too.  And downlink data goes   *)
(* to the UE it is for, unless a UPF restarts.                             *)
(***************************************************************************)
EXTENDS SmfSession, FiniteSetTheorems, WellFoundedInduction, TLAPS

\* The shape of the tables; next and nextRef are counters.
Shapes ==
    /\ next \in Nat /\ nextRef \in Nat
    /\ DOMAIN jobs = Tasks
    /\ \A r \in Live : "addr" \in DOMAIN contexts[r]

\* References are numbered: whatever is under way or stored has an earlier one.
RefsBelow ==
    /\ \A r \in Live : r \in Nat /\ r < nextRef
    /\ \A t \in Creating \cup Tearing : jobs[t].ref \in Nat /\ jobs[t].ref < nextRef

\* A session being created is not there yet, and is created by one task.
CreatedOnce ==
    /\ \A t \in Creating : jobs[t].ref \notin Live
    /\ \A t, u \in Creating : t # u => jobs[t].ref # jobs[u].ref
    /\ \A t \in Creating, u \in Tearing : jobs[t].ref # jobs[u].ref

\* What a teardown will give back is the context's, while there is one.
TearsOwnAddress ==
    \A t \in Tearing : jobs[t].ref \in Live => jobs[t].addr = contexts[jobs[t].ref].addr

IInv == Shapes /\ RefsBelow /\ CreatedOnce /\ TearsOwnAddress /\ NoAddressLost

\* An SMF that starts has handed out nothing.
LEMMA InitIInv == Init => IInv
BY SmfAssumption DEF Init, IInv, Shapes, RefsBelow, CreatedOnce, TearsOwnAddress,
   NoAddressLost, Live, Creating, Tearing, Idle

\* The state the invariant is about.
core == <<next, freed, contexts, nextRef, jobs>>

\* Steps at the UPF, the PCF and the AMF's side leave the pool's state alone.
LEMMA Untouched ==
  ASSUME IInv, UNCHANGED core
  PROVE  IInv'
BY DEF core, IInv, Shapes, RefsBelow, CreatedOnce, TearsOwnAddress, NoAddressLost, Live,
   Creating, Tearing

\* A task that neither creates nor tears down before a step nor after it, or
\* stops tearing down, does not matter.
LEMMA OtherJob ==
  ASSUME IInv, NEW t, NEW job,
         t \notin Creating,
         job.op \notin {"create", "teardown"},
         jobs' = [jobs EXCEPT ![t] = job],
         UNCHANGED <<next, freed, contexts, nextRef>>
  PROVE  IInv'
<1>1. Creating' = Creating /\ Tearing' = Tearing \ {t}
  BY DEF IInv, Shapes, Creating, Tearing
<1>2. \A u \in Creating \cup (Tearing \ {t}) : jobs'[u] = jobs[u]
  BY DEF IInv, Shapes, Creating, Tearing
<1>3. Shapes'
  BY DEF IInv, Shapes, Live
<1>4. RefsBelow'
  BY <1>1, <1>2 DEF IInv, RefsBelow, Live
<1>5. CreatedOnce'
  BY <1>1, <1>2 DEF IInv, CreatedOnce, Live
<1>6. TearsOwnAddress'
  BY <1>1, <1>2 DEF IInv, TearsOwnAddress, Live
<1>7. NoAddressLost'
  BY <1>1, <1>2 DEF IInv, NoAddressLost, Live
<1>q. QED
  BY <1>3, <1>4, <1>5, <1>6, <1>7 DEF IInv

-----------------------------------------------------------------------------
(* The steps that move an address *)

\* Task h gives up the session it was creating and the address goes back.
LEMMA Abandoned ==
  ASSUME IInv, NEW h, h \in Creating,
         freed' = Returned({jobs[h].addr}),
         jobs' = [jobs EXCEPT ![h] = Idle],
         UNCHANGED <<next, contexts, nextRef>>
  PROVE  IInv'
<1>1. Creating' = Creating \ {h} /\ Tearing' = Tearing
  BY DEF IInv, Shapes, Creating, Tearing, Idle
<1>2. \A u \in (Creating \ {h}) \cup Tearing : jobs'[u] = jobs[u]
  BY DEF IInv, Shapes, Creating, Tearing
<1>3. Shapes'
  BY DEF IInv, Shapes, Live
<1>4. RefsBelow'
  BY <1>1, <1>2 DEF IInv, RefsBelow, Live
<1>5. CreatedOnce'
  BY <1>1, <1>2 DEF IInv, CreatedOnce, Live
<1>6. TearsOwnAddress'
  BY <1>1, <1>2 DEF IInv, TearsOwnAddress, Live
<1>7. NoAddressLost'
  <2> SUFFICES ASSUME NEW a \in 1..(next - 1)
               PROVE  \/ a \in freed'
                      \/ \E t \in Creating' : a = jobs'[t].addr
                      \/ \E r \in Live' : a = contexts'[r].addr
    BY DEF NoAddressLost
  <2>1. CASE a = jobs[h].addr
    BY <2>1 DEF Returned, IInv, Shapes
  <2>2. CASE a # jobs[h].addr
    BY <1>1, <1>2, <2>2 DEF IInv, NoAddressLost, Returned, Live
  <2>q. QED
    BY <2>1, <2>2
<1>q. QED
  BY <1>3, <1>4, <1>5, <1>6, <1>7 DEF IInv

\* create_sm_context up to its N4 request: the address it takes is its job's.
LEMMA CreateStep ==
  ASSUME IInv, NEW h \in Handlers, NEW a, NEW gbr, NEW fromPcf,
         CreateSmContext(h, a, gbr, fromPcf)
  PROVE  IInv'
<1> DEFINE job == [op |-> "create", ref |-> nextRef, addr |-> a, gbr |-> gbr,
                   policy |-> fromPcf]
<1>1. /\ jobs[h] = Idle /\ jobs' = [jobs EXCEPT ![h] = job]
      /\ nextRef' = nextRef + 1 /\ contexts' = contexts /\ Alloc(a)
  BY DEF CreateSmContext, Authorised, Starts
<1>2. job.op = "create" /\ job.ref = nextRef /\ job.addr = a
  OBVIOUS
<1> HIDE DEF job
<1>3. h \in Tasks /\ h \notin Creating \cup Tearing
  BY <1>1 DEF Tasks, Creating, Tearing, Idle
<1>4. Creating' = Creating \cup {h} /\ Tearing' = Tearing
  BY <1>1, <1>2, <1>3 DEF IInv, Shapes, Creating, Tearing
<1>5. jobs'[h] = job /\ \A u \in Creating \cup Tearing : jobs'[u] = jobs[u]
  BY <1>1, <1>3 DEF IInv, Shapes, Creating, Tearing
<1>6. Shapes'
  BY <1>1 DEF IInv, Shapes, Live, Alloc
<1>7. RefsBelow'
  BY <1>1, <1>2, <1>4, <1>5 DEF IInv, Shapes, RefsBelow, Live
<1>8. CreatedOnce'
  BY <1>1, <1>2, <1>4, <1>5 DEF IInv, Shapes, RefsBelow, CreatedOnce, Live
<1>9. TearsOwnAddress'
  BY <1>1, <1>4, <1>5 DEF IInv, TearsOwnAddress, Live
<1>10. NoAddressLost'
  <2> SUFFICES ASSUME NEW b \in 1..(next' - 1)
               PROVE  \/ b \in freed'
                      \/ \E t \in Creating' : b = jobs'[t].addr
                      \/ \E r \in Live' : b = contexts'[r].addr
    BY DEF NoAddressLost
  <2>1. CASE b = a
    BY <1>2, <1>4, <1>5, <2>1
  <2>2. CASE b # a
    <3>1. b \in 1..(next - 1) /\ (b \in freed => b \in freed')
      BY <1>1, <2>2 DEF Alloc, IInv, Shapes
    <3>q. QED
      BY <1>1, <1>4, <1>5, <3>1 DEF IInv, NoAddressLost, Live
  <2>q. QED
    BY <2>1, <2>2
<1>q. QED
  BY <1>6, <1>7, <1>8, <1>9, <1>10 DEF IInv

\* create_sm_context stores the context: the address passes from job to context.
LEMMA FinishCreateStep ==
  ASSUME IInv, NEW h \in Handlers, NEW charged, FinishCreate(h, charged)
  PROVE  IInv'
<1> DEFINE j == jobs[h]
<1>1. h \in Creating
  BY DEF FinishCreate, Answered, Creating, Tasks
<1>2. PICK c : /\ "addr" \in DOMAIN c /\ c.addr = j.addr
               /\ contexts' = [r \in Live \cup {j.ref} |-> IF r = j.ref THEN c ELSE contexts[r]]
  BY DEF FinishCreate
<1>3. UNCHANGED <<next, freed, nextRef>> /\ jobs' = [jobs EXCEPT ![h] = Idle]
  BY DEF FinishCreate, Ends, poolVars
<1>4. /\ Live' = Live \cup {j.ref} /\ contexts'[j.ref] = c
      /\ \A r \in Live : r # j.ref => contexts'[r] = contexts[r]
  BY <1>2 DEF Live
<1>5. j.ref \notin Live
  BY <1>1 DEF IInv, CreatedOnce
<1>6. Creating' = Creating \ {h} /\ Tearing' = Tearing
  BY <1>1, <1>3 DEF IInv, Shapes, Creating, Tearing, Idle
<1>7. \A u \in (Creating \ {h}) \cup Tearing : jobs'[u] = jobs[u]
  BY <1>1, <1>3 DEF IInv, Shapes, Creating, Tearing
<1>8. Shapes'
  BY <1>2, <1>3, <1>4, <1>5 DEF IInv, Shapes
<1>9. RefsBelow'
  BY <1>1, <1>3, <1>4, <1>6, <1>7 DEF IInv, RefsBelow
<1>10. CreatedOnce'
  BY <1>1, <1>4, <1>6, <1>7 DEF IInv, CreatedOnce
<1>11. TearsOwnAddress'
  BY <1>1, <1>4, <1>5, <1>6, <1>7 DEF IInv, TearsOwnAddress, CreatedOnce
<1>12. NoAddressLost'
  <2> SUFFICES ASSUME NEW a \in 1..(next - 1)
               PROVE  \/ a \in freed'
                      \/ \E t \in Creating' : a = jobs'[t].addr
                      \/ \E r \in Live' : a = contexts'[r].addr
    BY <1>3 DEF NoAddressLost
  <2>1. CASE a = j.addr
    BY <1>2, <1>4, <2>1
  <2>2. CASE a # j.addr
    BY <1>3, <1>4, <1>5, <1>6, <1>7, <2>2 DEF IInv, NoAddressLost
  <2>q. QED
    BY <2>1, <2>2
<1>q. QED
  BY <1>8, <1>9, <1>10, <1>11, <1>12 DEF IInv

\* teardown_sm_context notes the address of a context that is there.
LEMMA TeardownStarts ==
  ASSUME IInv, NEW t \in Tasks, NEW r, Teardown(t, r),
         UNCHANGED <<next, freed, contexts, nextRef>>
  PROVE  IInv'
<1>1. /\ r \in Live /\ jobs[t] = Idle
      /\ jobs' = [jobs EXCEPT ![t] =
           [op |-> "teardown", ref |-> r, addr |-> contexts[r].addr, gbr |-> contexts[r].gbr,
            policy |-> contexts[r].policy, charged |-> contexts[r].charged]]
  BY DEF Teardown, Starts
<1>2. t \notin Creating \cup Tearing
  BY <1>1 DEF Creating, Tearing, Idle
<1>3. jobs'[t].op = "teardown" /\ jobs'[t].ref = r /\ jobs'[t].addr = contexts[r].addr
  BY <1>1 DEF IInv, Shapes
<1>4. \A u \in Tasks \ {t} : jobs'[u] = jobs[u]
  BY <1>1 DEF IInv, Shapes
<1>5. Creating' = Creating /\ Tearing' = Tearing \cup {t}
  BY <1>2, <1>3, <1>4 DEF Creating, Tearing
<1>6. \A u \in Creating \cup Tearing : jobs'[u] = jobs[u]
  BY <1>2, <1>4 DEF Creating, Tearing
<1>7. Shapes'
  BY <1>1 DEF IInv, Shapes, Live
<1>8. RefsBelow'
  BY <1>1, <1>3, <1>5, <1>6 DEF IInv, RefsBelow, Live
<1>9. CreatedOnce'
  BY <1>1, <1>3, <1>5, <1>6 DEF IInv, CreatedOnce, Live
<1>10. TearsOwnAddress'
  BY <1>1, <1>3, <1>5, <1>6 DEF IInv, TearsOwnAddress, Live
<1>11. NoAddressLost'
  BY <1>5, <1>6 DEF IInv, NoAddressLost, Live
<1>q. QED
  BY <1>7, <1>8, <1>9, <1>10, <1>11 DEF IInv

\* Contexts go and their addresses go back to the pool; task t has done it.
LEMMA Dropped ==
  ASSUME IInv, NEW t, t \notin Creating, NEW gone, NEW back,
         contexts' = [r \in Live \ gone |-> contexts[r]],
         \A r \in Live \cap gone : contexts[r].addr \in back,
         freed' = Returned(back),
         jobs' = [jobs EXCEPT ![t] = Idle],
         UNCHANGED <<next, nextRef>>
  PROVE  IInv'
<1>1. Live' = Live \ gone /\ \A r \in Live \ gone : contexts'[r] = contexts[r]
  BY DEF Live
<1>2. Creating' = Creating /\ Tearing' = Tearing \ {t}
  BY DEF IInv, Shapes, Creating, Tearing, Idle
<1>3. \A u \in Creating \cup (Tearing \ {t}) : jobs'[u] = jobs[u]
  BY DEF IInv, Shapes, Creating, Tearing
<1>4. Shapes'
  BY <1>1 DEF IInv, Shapes
<1>5. RefsBelow'
  BY <1>1, <1>2, <1>3 DEF IInv, RefsBelow
<1>6. CreatedOnce'
  BY <1>1, <1>2, <1>3 DEF IInv, CreatedOnce
<1>7. TearsOwnAddress'
  BY <1>1, <1>2, <1>3 DEF IInv, TearsOwnAddress
<1>8. NoAddressLost'
  <2> SUFFICES ASSUME NEW a \in 1..(next - 1)
               PROVE  \/ a \in freed'
                      \/ \E u \in Creating' : a = jobs'[u].addr
                      \/ \E r \in Live' : a = contexts'[r].addr
    BY DEF NoAddressLost
  <2>1. CASE a \in freed \cup back
    BY <2>1 DEF Returned, IInv, Shapes
  <2>2. CASE \E u \in Creating : a = jobs[u].addr
    BY <1>2, <1>3, <2>2
  <2>3. CASE \E r \in Live \ gone : a = contexts[r].addr
    BY <1>1, <2>3
  <2>q. QED
    BY <2>1, <2>2, <2>3 DEF IInv, NoAddressLost
<1>q. QED
  BY <1>4, <1>5, <1>6, <1>7, <1>8 DEF IInv

\* A context changes, but not its address.
LEMMA Retouched ==
  ASSUME IInv, NEW t, t \notin Creating \cup Tearing,
         Live' = Live,
         \A r \in Live : "addr" \in DOMAIN contexts'[r] /\ contexts'[r].addr = contexts[r].addr,
         jobs' = [jobs EXCEPT ![t] = Idle],
         UNCHANGED <<next, freed, nextRef>>
  PROVE  IInv'
<1>1. Creating' = Creating /\ Tearing' = Tearing
  BY DEF IInv, Shapes, Creating, Tearing, Idle
<1>2. \A u \in Creating \cup Tearing : jobs'[u] = jobs[u]
  BY DEF IInv, Shapes, Creating, Tearing
<1>3. Shapes'
  BY DEF IInv, Shapes
<1>4. RefsBelow'
  BY <1>1, <1>2 DEF IInv, RefsBelow
<1>5. CreatedOnce'
  BY <1>1, <1>2 DEF IInv, CreatedOnce
<1>6. TearsOwnAddress'
  BY <1>1, <1>2 DEF IInv, TearsOwnAddress
<1>7. NoAddressLost'
  BY <1>1, <1>2 DEF IInv, NoAddressLost
<1>q. QED
  BY <1>3, <1>4, <1>5, <1>6, <1>7 DEF IInv

\* A refused session uses a reference up and nothing else.
LEMMA RefuseStep ==
  ASSUME IInv, NEW h, NEW gbr, NEW fromPcf, RefuseSmContext(h, gbr, fromPcf)
  PROVE  IInv'
<1>1. nextRef' = nextRef + 1 /\ UNCHANGED <<next, freed, contexts, jobs>>
  BY DEF RefuseSmContext, Authorised, poolVars, taskVars
<1>2. Creating' = Creating /\ Tearing' = Tearing /\ Live' = Live
  BY <1>1 DEF Creating, Tearing, Live
<1>q. QED
  BY <1>1, <1>2 DEF IInv, Shapes, RefsBelow, CreatedOnce, TearsOwnAddress, NoAddressLost

-----------------------------------------------------------------------------

\* Every step of a handler task keeps the invariant.
LEMMA HandlerStep ==
  ASSUME IInv, NEW h \in Handlers, SmfStep(h)
  PROVE  IInv'
<1>0. h \in Tasks
  BY DEF Tasks
<1>1. ASSUME NEW gbr, NEW fromPcf, NEW a, CreateSmContext(h, a, gbr, fromPcf)
      PROVE  IInv'
  BY <1>1, CreateStep
<1>2. ASSUME NEW gbr, NEW fromPcf, RefuseSmContext(h, gbr, fromPcf)
      PROVE  IInv'
  BY <1>2, RefuseStep
<1>3. CASE CreateRejected(h) \/ CreateTimesOut(h)
  <2>1. /\ h \in Creating
        /\ freed' = Returned({jobs[h].addr}) /\ jobs' = [jobs EXCEPT ![h] = Idle]
        /\ UNCHANGED <<next, contexts, nextRef>>
    BY <1>0, <1>3 DEF CreateRejected, CreateTimesOut, Answered, GivesUp, Abandon, Ends, Creating
  <2>q. QED
    BY <2>1, Abandoned
<1>4. ASSUME NEW charged, FinishCreate(h, charged)
      PROVE  IInv'
  BY <1>4, FinishCreateStep
<1>5. ASSUME NEW r, ReleaseSmContext(h, r)
      PROVE  IInv'
  BY <1>0, <1>5, TeardownStarts DEF ReleaseSmContext, smfVars
<1>6. ASSUME NEW r, ReleaseUnknown(h, r)
      PROVE  IInv'
  BY <1>6, Untouched DEF ReleaseUnknown, core, smfVars, taskVars
<1>7. ASSUME NEW r, RefreshSmPolicy(h, r)
      PROVE  IInv'
  <2>1. CASE jobs' = jobs
    BY <1>7, <2>1, Untouched DEF RefreshSmPolicy, core, smfVars
  <2>2. CASE jobs' # jobs
    <3> DEFINE job == [op |-> "refresh", ref |-> r, gbr |-> rate[r]]
    <3>1. h \notin Creating
      BY <1>7 DEF RefreshSmPolicy, Creating, Idle
    <3>2. /\ jobs' = [jobs EXCEPT ![h] = job] /\ job.op \notin {"create", "teardown"}
          /\ UNCHANGED <<next, freed, contexts, nextRef>>
      BY <1>7, <2>2 DEF RefreshSmPolicy, smfVars
    <3> HIDE DEF job
    <3>q. QED
      BY <3>1, <3>2, OtherJob
  <2>q. QED
    BY <2>1, <2>2
<1>8. ASSUME NEW r, NEW active, UpdateSmContext(h, r, active)
      PROVE  IInv'
  <2> DEFINE job == [op |-> "update", ref |-> r, active |-> active]
  <2>1. h \notin Creating
    BY <1>8 DEF UpdateSmContext, Starts, Creating, Idle
  <2>2. /\ jobs' = [jobs EXCEPT ![h] = job] /\ job.op \notin {"create", "teardown"}
        /\ UNCHANGED <<next, freed, contexts, nextRef>>
    BY <1>8 DEF UpdateSmContext, Starts, smfVars
  <2> HIDE DEF job
  <2>q. QED
    BY <2>1, <2>2, OtherJob
<1>9. CASE FinishUpdate(h)
  <2>1. h \notin Creating \cup Tearing
    BY <1>9 DEF FinishUpdate, Answered, Creating, Tearing
  <2>2. Live' = Live /\ jobs' = [jobs EXCEPT ![h] = Idle] /\ UNCHANGED <<next, freed, nextRef>>
    BY <1>9 DEF FinishUpdate, Ends, poolVars, Live
  <2>3. \A r \in Live : "addr" \in DOMAIN contexts'[r] /\ contexts'[r].addr = contexts[r].addr
    BY <1>9 DEF FinishUpdate, IInv, Shapes, Live
  <2>q. QED
    BY <2>1, <2>2, <2>3, Retouched
<1>10. CASE UpdateTimesOut(h)
  <2>1. h \notin Creating /\ Idle.op \notin {"create", "teardown"}
    BY <1>10 DEF UpdateTimesOut, GivesUp, Creating, Idle
  <2>q. QED
    BY <1>10, <2>1, OtherJob DEF UpdateTimesOut, Ends, smfVars
<1>11. CASE FinishRefresh(h)
  <2>1. h \notin Creating \cup Tearing
    BY <1>11 DEF FinishRefresh, Creating, Tearing
  <2>2. Live' = Live /\ jobs' = [jobs EXCEPT ![h] = Idle] /\ UNCHANGED <<next, freed, nextRef>>
    BY <1>11 DEF FinishRefresh, Ends, poolVars, Live
  <2>3. \A r \in Live : "addr" \in DOMAIN contexts'[r] /\ contexts'[r].addr = contexts[r].addr
    BY <1>11 DEF FinishRefresh, IInv, Shapes, Live
  <2>q. QED
    BY <2>1, <2>2, <2>3, Retouched
<1>q. QED
  BY <1>1, <1>2, <1>3, <1>4, <1>5, <1>6, <1>7, <1>8, <1>9, <1>10, <1>11 DEF SmfStep

\* The end of a teardown, by the AMF or for a spent quota, keeps it.
LEMMA TeardownStepIInv ==
  ASSUME IInv, NEW t \in Tasks, TeardownStep(t)
  PROVE  IInv'
<1>1. t \notin Creating
  BY DEF TeardownStep, FinishTeardown, TeardownTimesOut, Answered, GivesUp, Creating
<1>2. CASE FinishTeardown(t)
  <2>1. t \in Tearing
    BY <1>2 DEF FinishTeardown, Answered, Tearing
  <2>2. /\ contexts' = [r \in Live \ {jobs[t].ref} |-> contexts[r]]
        /\ freed' = Returned({jobs[t].addr})
        /\ jobs' = [jobs EXCEPT ![t] = Idle]
        /\ UNCHANGED <<next, nextRef>>
    BY <1>2 DEF FinishTeardown, Frees, Ends, Restrict
  <2>3. \A r \in Live \cap {jobs[t].ref} : contexts[r].addr \in {jobs[t].addr}
    BY <2>1 DEF IInv, TearsOwnAddress
  <2>q. QED
    BY <1>1, <2>2, <2>3, Dropped
<1>3. CASE TeardownTimesOut(t)
  <2>1. Idle.op \notin {"create", "teardown"}
    BY DEF Idle
  <2>q. QED
    BY <1>1, <1>3, <2>1, OtherJob DEF TeardownTimesOut, Ends, smfVars
<1>q. QED
  BY <1>2, <1>3 DEF TeardownStep

\* Heartbeats and the recovery from a UPF restart keep it.
LEMMA HeartbeatStepIInv ==
  ASSUME IInv, HeartbeatStep
  PROVE  IInv'
<1>1. "heartbeat" \notin Creating
  BY DEF HeartbeatStep, Heartbeat, HeartbeatAnswered, HeartbeatMissed, Recover,
     RecoverUnassociated, Starts, Answered, GivesUp, Creating, Idle
<1>2. CASE Heartbeat
  <2> DEFINE job == [op |-> "heartbeat"]
  <2>1. /\ jobs' = [jobs EXCEPT !["heartbeat"] = job] /\ job.op \notin {"create", "teardown"}
        /\ UNCHANGED <<next, freed, contexts, nextRef>>
    BY <1>2 DEF Heartbeat, Starts, smfVars
  <2> HIDE DEF job
  <2>q. QED
    BY <1>1, <2>1, OtherJob
<1>3. CASE HeartbeatAnswered \/ HeartbeatMissed
  <2>1. PICK job \in {Idle, [op |-> "recover"]} :
          /\ jobs' = [jobs EXCEPT !["heartbeat"] = job]
          /\ UNCHANGED <<next, freed, contexts, nextRef>>
    BY <1>3 DEF HeartbeatAnswered, HeartbeatMissed, Ends, poolVars, smfVars
  <2>2. job.op \notin {"create", "teardown"}
    BY DEF Idle
  <2>q. QED
    BY <1>1, <2>1, <2>2, OtherJob
<1>4. CASE Recover \/ RecoverUnassociated
  <2>1. /\ contexts' = [r \in Live \ Live |-> contexts[r]]
        /\ freed' = Returned({contexts[r].addr : r \in Live})
        /\ jobs' = [jobs EXCEPT !["heartbeat"] = Idle]
        /\ UNCHANGED <<next, nextRef>>
    BY <1>4 DEF Recover, RecoverUnassociated, DropContexts, Ends, Restrict
  <2>2. \A r \in Live \cap Live : contexts[r].addr \in {contexts[q].addr : q \in Live}
    OBVIOUS
  <2>q. QED
    BY <1>1, <2>1, <2>2, Dropped
<1>q. QED
  BY <1>2, <1>3, <1>4 DEF HeartbeatStep

\* Every step keeps the invariant.
LEMMA NextIInv == IInv /\ [Next]_vars => IInv'
<1> SUFFICES ASSUME IInv, [Next]_vars
             PROVE  IInv'
  OBVIOUS
<1>1. ASSUME NEW h \in Handlers, SmfStep(h)
      PROVE  IInv'
  BY <1>1, HandlerStep
<1>2. ASSUME NEW t \in Tasks, TeardownStep(t)
      PROVE  IInv'
  BY <1>2, TeardownStepIInv
<1>3. ASSUME NEW t \in Tasks, UpfHandles(t)
      PROVE  IInv'
  BY <1>3, Untouched DEF UpfHandles, core, smfVars
<1>4. ASSUME NEW q, UpfHandlesLate(q)
      PROVE  IInv'
  BY <1>4, Untouched DEF UpfHandlesLate, core, smfVars, taskVars
<1>5. ASSUME NEW r, QuotaSpent(r)
      PROVE  IInv'
  BY <1>5, TeardownStarts DEF QuotaSpent, Tasks, smfVars
<1>6. ASSUME NEW r, NEW gbr, PcfDecides(r, gbr)
      PROVE  IInv'
  BY <1>6, Untouched DEF PcfDecides, core, smfVars, taskVars
<1>7. CASE HeartbeatStep
  BY <1>7, HeartbeatStepIInv
<1>8. CASE UpfRestarts
  BY <1>8, Untouched DEF UpfRestarts, core, smfVars, taskVars
<1>9. CASE UNCHANGED vars
  BY <1>9, Untouched DEF vars, core, smfVars, taskVars
<1>q. QED
  BY <1>1, <1>2, <1>3, <1>4, <1>5, <1>6, <1>7, <1>8, <1>9 DEF Next

\* U32Pool, IpLease and the teardown paths never lose an address: whatever is
\* refused, lost, late, restarted or torn down twice, an address that was handed
\* out is free, leased by an establishment under way, or an SM context's.
THEOREM NothingLost == Spec => []NoAddressLost
<1>1. IInv => NoAddressLost
  BY DEF IInv
<1>q. QED
  BY <1>1, InitIInv, NextIInv, PTL DEF Spec

-----------------------------------------------------------------------------
(* No address is shared, as long as no quota runs out and no UPF restarts *)

\* The addresses in the pool, stored and leased are ones that were handed out.
HandedOut ==
    /\ \A a \in freed : a \in Nat /\ a < next
    /\ \A r \in Live : contexts[r].addr \in Nat /\ contexts[r].addr < next
    /\ \A t \in Creating : jobs[t].addr \in Nat /\ jobs[t].addr < next

\* A session that is being torn down is still there, and one task does it.
TornDownOnce ==
    /\ \A t \in Tearing : jobs[t].ref \in Live
    /\ \A t, u \in Tearing : t # u => jobs[t].ref # jobs[u].ref

DInv == IInv /\ HandedOut /\ TornDownOnce /\ AddressesDistinct

\* An SMF that starts has handed out nothing.
LEMMA InitDInv == Init => DInv
<1> SUFFICES ASSUME Init
             PROVE  DInv
  OBVIOUS
<1>1. Live = {} /\ Creating = {} /\ Tearing = {} /\ freed = {}
  BY DEF Init, Live, Creating, Tearing, Idle
<1>q. QED
  BY <1>1, InitIInv DEF DInv, HandedOut, TornDownOnce, AddressesDistinct

\* Steps that leave the pool's state alone.
LEMMA UntouchedD ==
  ASSUME DInv, UNCHANGED core
  PROVE  DInv'
<1>1. /\ Live' = Live /\ Creating' = Creating /\ Tearing' = Tearing
      /\ UNCHANGED <<next, freed, contexts, jobs>>
  BY DEF core, Live, Creating, Tearing
<1>q. QED
  BY <1>1, Untouched DEF DInv, HandedOut, TornDownOnce, AddressesDistinct

\* As OtherJob.
LEMMA OtherJobD ==
  ASSUME DInv, NEW t, NEW job,
         t \notin Creating,
         job.op \notin {"create", "teardown"},
         jobs' = [jobs EXCEPT ![t] = job],
         UNCHANGED <<next, freed, contexts, nextRef>>
  PROVE  DInv'
<1>1. Creating' = Creating /\ Tearing' = Tearing \ {t} /\ Live' = Live
  BY DEF DInv, IInv, Shapes, Creating, Tearing, Live
<1>2. \A u \in Creating \cup (Tearing \ {t}) : jobs'[u] = jobs[u]
  BY DEF DInv, IInv, Shapes, Creating, Tearing
<1>3. IInv'
  BY OtherJob DEF DInv
<1>4. HandedOut'
  BY <1>1, <1>2 DEF DInv, HandedOut
<1>5. TornDownOnce'
  BY <1>1, <1>2 DEF DInv, TornDownOnce
<1>6. AddressesDistinct'
  BY <1>1, <1>2 DEF DInv, AddressesDistinct
<1>q. QED
  BY <1>3, <1>4, <1>5, <1>6 DEF DInv

\* As Abandoned: the lease is the only user of the address that goes back.
LEMMA AbandonedD ==
  ASSUME DInv, NEW h, h \in Creating,
         freed' = Returned({jobs[h].addr}),
         jobs' = [jobs EXCEPT ![h] = Idle],
         UNCHANGED <<next, contexts, nextRef>>
  PROVE  DInv'
<1>1. Creating' = Creating \ {h} /\ Tearing' = Tearing /\ Live' = Live
  BY DEF DInv, IInv, Shapes, Creating, Tearing, Idle, Live
<1>2. \A u \in (Creating \ {h}) \cup Tearing : jobs'[u] = jobs[u]
  BY DEF DInv, IInv, Shapes, Creating, Tearing
<1>3. IInv'
  BY Abandoned DEF DInv
<1>4. freed' = freed \cup {jobs[h].addr}
  BY DEF Returned, DInv, HandedOut
<1>5. HandedOut'
  BY <1>1, <1>2, <1>4 DEF DInv, HandedOut
<1>6. TornDownOnce'
  BY <1>1, <1>2 DEF DInv, TornDownOnce
<1>7. /\ \A r \in Live : contexts[r].addr # jobs[h].addr
      /\ \A t \in Creating \ {h} : jobs[t].addr # jobs[h].addr
  BY DEF DInv, AddressesDistinct
<1>8. AddressesDistinct'
  <2>1. /\ \A r \in Live : contexts[r].addr \notin freed'
        /\ \A t \in Creating \ {h} : jobs[t].addr \notin freed'
    BY <1>4, <1>7 DEF DInv, AddressesDistinct
  <2>2. \A t \in Creating' : t \in Creating /\ t # h /\ jobs'[t] = jobs[t]
    BY <1>1, <1>2
  <2>3. \A r \in Live', t \in Creating' : jobs'[t].addr # contexts'[r].addr
    BY <1>1, <2>2 DEF DInv, AddressesDistinct
  <2>4. \A t, u \in Creating' : t # u => jobs'[t].addr # jobs'[u].addr
    BY <2>2 DEF DInv, AddressesDistinct
  <2>5. /\ \A r, q \in Live' : r # q => contexts'[r].addr # contexts'[q].addr
        /\ \A r \in Live' : contexts'[r].addr \notin freed'
    BY <1>1, <2>1 DEF DInv, AddressesDistinct
  <2>6. \A t \in Creating' : jobs'[t].addr \notin freed'
    BY <2>1, <2>2
  <2>q. QED
    BY <2>3, <2>4, <2>5, <2>6 DEF AddressesDistinct
<1>q. QED
  BY <1>3, <1>5, <1>6, <1>8 DEF DInv

\* alloc() hands out an address nobody has.
LEMMA CreateStepD ==
  ASSUME DInv, NEW h \in Handlers, NEW a, NEW gbr, NEW fromPcf,
         CreateSmContext(h, a, gbr, fromPcf)
  PROVE  DInv'
<1> DEFINE job == [op |-> "create", ref |-> nextRef, addr |-> a, gbr |-> gbr,
                   policy |-> fromPcf]
<1>1. /\ jobs[h] = Idle /\ jobs' = [jobs EXCEPT ![h] = job]
      /\ contexts' = contexts /\ Live' = Live /\ Alloc(a)
  BY DEF CreateSmContext, Authorised, Starts, Live
<1>2. job.op = "create" /\ job.addr = a
  OBVIOUS
<1> HIDE DEF job
<1>3. h \in Tasks /\ h \notin Creating \cup Tearing
  BY <1>1 DEF Tasks, Creating, Tearing, Idle
<1>4. Creating' = Creating \cup {h} /\ Tearing' = Tearing
  BY <1>1, <1>2, <1>3 DEF DInv, IInv, Shapes, Creating, Tearing
<1>5. jobs'[h] = job /\ \A u \in Creating \cup Tearing : jobs'[u] = jobs[u]
  BY <1>1, <1>3 DEF DInv, IInv, Shapes, Creating, Tearing
<1>6. IInv'
  BY CreateStep DEF DInv
<1>7. /\ a \in Nat /\ a < next' /\ next' \in Nat /\ next <= next'
      /\ freed' \subseteq freed /\ a \notin freed'
      /\ \A r \in Live : contexts[r].addr # a
      /\ \A t \in Creating : jobs[t].addr # a
  BY <1>1 DEF Alloc, DInv, IInv, Shapes, HandedOut, AddressesDistinct
<1>8. HandedOut'
  <2>1. \A b \in Nat : b < next => b < next'
    BY <1>7 DEF DInv, IInv, Shapes
  <2>q. QED
    BY <1>1, <1>2, <1>4, <1>5, <1>7, <2>1 DEF DInv, HandedOut
<1>9. TornDownOnce'
  BY <1>1, <1>4, <1>5 DEF DInv, TornDownOnce
<1>10. AddressesDistinct'
  BY <1>1, <1>2, <1>3, <1>4, <1>5, <1>7 DEF DInv, AddressesDistinct
<1>q. QED
  BY <1>6, <1>8, <1>9, <1>10 DEF DInv

\* The lease becomes the context's address.
LEMMA FinishCreateStepD ==
  ASSUME DInv, NEW h \in Handlers, NEW charged, FinishCreate(h, charged)
  PROVE  DInv'
<1> DEFINE j == jobs[h]
<1>1. h \in Creating
  BY DEF FinishCreate, Answered, Creating, Tasks
<1>2. PICK c : /\ c.addr = j.addr
               /\ contexts' = [r \in Live \cup {j.ref} |-> IF r = j.ref THEN c ELSE contexts[r]]
  BY DEF FinishCreate
<1>3. UNCHANGED <<next, freed, nextRef>> /\ jobs' = [jobs EXCEPT ![h] = Idle]
  BY DEF FinishCreate, Ends, poolVars
<1>4. j.ref \notin Live
  BY <1>1 DEF DInv, IInv, CreatedOnce
<1>5. /\ Live' = Live \cup {j.ref} /\ contexts'[j.ref].addr = j.addr
      /\ \A r \in Live : contexts'[r] = contexts[r]
  BY <1>2, <1>4 DEF Live
<1>6. Creating' = Creating \ {h} /\ Tearing' = Tearing
  BY <1>1, <1>3 DEF DInv, IInv, Shapes, Creating, Tearing, Idle
<1>7. \A u \in (Creating \ {h}) \cup Tearing : jobs'[u] = jobs[u]
  BY <1>1, <1>3 DEF DInv, IInv, Shapes, Creating, Tearing
<1>8. IInv'
  BY FinishCreateStep DEF DInv
<1>9. HandedOut'
  BY <1>1, <1>3, <1>5, <1>6, <1>7 DEF DInv, HandedOut
<1>10. TornDownOnce'
  BY <1>5, <1>6, <1>7 DEF DInv, TornDownOnce
<1>11. AddressesDistinct'
  BY <1>1, <1>3, <1>5, <1>6, <1>7 DEF DInv, AddressesDistinct
<1>q. QED
  BY <1>8, <1>9, <1>10, <1>11 DEF DInv

\* The AMF asks for one thing at a time about a session, so the teardown that
\* begins is the only one.
LEMMA ReleaseStepD ==
  ASSUME DInv, Tearing \subseteq Handlers, NEW h \in Handlers, NEW r,
         ReleaseSmContext(h, r)
  PROVE  DInv'
<1>1. /\ r \in Live /\ jobs[h] = Idle
      /\ jobs' = [jobs EXCEPT ![h] =
           [op |-> "teardown", ref |-> r, addr |-> contexts[r].addr, gbr |-> contexts[r].gbr,
            policy |-> contexts[r].policy, charged |-> contexts[r].charged]]
      /\ UNCHANGED <<next, freed, contexts, nextRef>>
  BY DEF ReleaseSmContext, Teardown, Starts, smfVars
<1>2. h \in Tasks /\ h \notin Creating \cup Tearing
  BY <1>1 DEF Tasks, Creating, Tearing, Idle
<1>3. jobs'[h].op = "teardown" /\ jobs'[h].ref = r
  BY <1>1, <1>2 DEF DInv, IInv, Shapes
<1>4. \A u \in Tasks \ {h} : jobs'[u] = jobs[u]
  BY <1>1 DEF DInv, IInv, Shapes
<1>5. Creating' = Creating /\ Tearing' = Tearing \cup {h} /\ Live' = Live
  BY <1>1, <1>2, <1>3, <1>4 DEF Creating, Tearing, Live
<1>6. \A u \in Creating \cup Tearing : jobs'[u] = jobs[u]
  BY <1>2, <1>4 DEF Creating, Tearing
<1>7. \A u \in Tearing : jobs[u].ref # r
  BY DEF ReleaseSmContext, AmfMayAsk, Tearing
<1>8. IInv'
  BY <1>1, <1>2, TeardownStarts DEF DInv, ReleaseSmContext
<1>9. HandedOut'
  BY <1>1, <1>5, <1>6 DEF DInv, HandedOut
<1>10. TornDownOnce'
  BY <1>1, <1>3, <1>5, <1>6, <1>7 DEF DInv, TornDownOnce
<1>11. AddressesDistinct'
  BY <1>1, <1>5, <1>6 DEF DInv, AddressesDistinct
<1>q. QED
  BY <1>8, <1>9, <1>10, <1>11 DEF DInv

\* The context and its address go together, so nobody has the address any more.
LEMMA TeardownStepD ==
  ASSUME DInv, NEW t \in Tasks, TeardownStep(t)
  PROVE  DInv'
<1>1. t \in Tearing /\ t \notin Creating
  BY DEF TeardownStep, FinishTeardown, TeardownTimesOut, Answered, GivesUp, Creating, Tearing
<1>2. CASE FinishTeardown(t)
  <2> DEFINE ref == jobs[t].ref
             addr == jobs[t].addr
  <2>1. /\ contexts' = [r \in Live \ {ref} |-> contexts[r]]
        /\ freed' = Returned({addr})
        /\ jobs' = [jobs EXCEPT ![t] = Idle]
        /\ UNCHANGED <<next, nextRef>>
    BY <1>2 DEF FinishTeardown, Frees, Ends, Restrict
  <2>2. Live' = Live \ {ref} /\ \A r \in Live \ {ref} : contexts'[r] = contexts[r]
    BY <2>1 DEF Live
  <2>3. ref \in Live /\ addr = contexts[ref].addr
    BY <1>1 DEF DInv, IInv, TearsOwnAddress, TornDownOnce
  <2>4. freed' = freed \cup {addr}
    BY <2>1, <2>3 DEF Returned, DInv, HandedOut
  <2>5. Creating' = Creating /\ Tearing' = Tearing \ {t}
    BY <1>1, <2>1 DEF DInv, IInv, Shapes, Creating, Tearing, Idle
  <2>6. \A u \in Creating \cup (Tearing \ {t}) : jobs'[u] = jobs[u]
    BY <1>1, <2>1 DEF DInv, IInv, Shapes, Creating, Tearing
  <2>7. IInv'
    BY TeardownStepIInv DEF DInv
  <2>8. HandedOut'
    BY <2>1, <2>2, <2>3, <2>4, <2>5, <2>6 DEF DInv, HandedOut
  <2>9. TornDownOnce'
    BY <1>1, <2>2, <2>5, <2>6 DEF DInv, TornDownOnce
  <2>10. AddressesDistinct'
    <3>1. /\ \A r \in Live \ {ref} : contexts[r].addr \notin freed'
          /\ \A u \in Creating : jobs[u].addr \notin freed'
      BY <2>3, <2>4 DEF DInv, AddressesDistinct
    <3>q. QED
      BY <2>2, <2>5, <2>6, <3>1 DEF DInv, AddressesDistinct
  <2>q. QED
    BY <2>7, <2>8, <2>9, <2>10 DEF DInv
<1>3. CASE TeardownTimesOut(t)
  <2>1. Idle.op \notin {"create", "teardown"}
    BY DEF Idle
  <2>q. QED
    BY <1>1, <1>3, <2>1, OtherJobD DEF TeardownTimesOut, Ends, smfVars
<1>q. QED
  BY <1>2, <1>3 DEF TeardownStep

\* As Retouched.
LEMMA RetouchedD ==
  ASSUME DInv, NEW t, t \notin Creating \cup Tearing,
         Live' = Live,
         \A r \in Live : "addr" \in DOMAIN contexts'[r] /\ contexts'[r].addr = contexts[r].addr,
         jobs' = [jobs EXCEPT ![t] = Idle],
         UNCHANGED <<next, freed, nextRef>>
  PROVE  DInv'
<1>1. Creating' = Creating /\ Tearing' = Tearing
  BY DEF DInv, IInv, Shapes, Creating, Tearing, Idle
<1>2. \A u \in Creating \cup Tearing : jobs'[u] = jobs[u]
  BY DEF DInv, IInv, Shapes, Creating, Tearing
<1>3. IInv'
  BY Retouched DEF DInv
<1>q. QED
  BY <1>1, <1>2, <1>3 DEF DInv, HandedOut, TornDownOnce, AddressesDistinct

\* Neither a quota teardown nor the recovery from a restart is under way or can
\* begin: the two background tasks touch no address.
Calm ==
    /\ count \in [Kinds -> Nat]
    /\ start = 0 /\ recovery = 0
    /\ DOMAIN n4 = Tasks
    /\ jobs["reports"] = Idle
    /\ \/ jobs["heartbeat"] = Idle
       \/ /\ jobs["heartbeat"] = [op |-> "heartbeat"]
          /\ n4["heartbeat"] \in [request : {[type |-> "heartbeat"]}, answer : {None, 0}]

\* Tasks other than t are not touched, nor is what the UPF's start time shows.
OnlyTask(t) ==
    /\ \E j : jobs' = [jobs EXCEPT ![t] = j] \/ jobs' = jobs
    /\ \E x : n4' = [n4 EXCEPT ![t] = x] \/ n4' = n4
    /\ start' = start /\ recovery' = recovery
    /\ \/ count' = count
       \/ \E k \in Kinds : count' = [count EXCEPT ![k] = @ + 1]

\* A step of a handler task leaves the background tasks calm.
LEMMA OnlyTaskCalm ==
  ASSUME IInv, Calm, NEW h \in Handlers, OnlyTask(h)
  PROVE  Calm'
<1>1. h # "reports" /\ h # "heartbeat" /\ {h, "reports", "heartbeat"} \subseteq Tasks
  BY SmfAssumption DEF Tasks
<1>2. jobs'["reports"] = jobs["reports"] /\ jobs'["heartbeat"] = jobs["heartbeat"]
  BY <1>1 DEF OnlyTask, IInv, Shapes
<1>3. n4'["heartbeat"] = n4["heartbeat"] /\ DOMAIN n4' = Tasks
  BY <1>1 DEF OnlyTask, Calm
<1>4. count' \in [Kinds -> Nat]
  BY DEF OnlyTask, Calm
<1>q. QED
  BY <1>2, <1>3, <1>4 DEF OnlyTask, Calm

\* The handlers' steps are such steps.
LEMMA SmfStepOnly ==
  ASSUME NEW h \in Handlers, SmfStep(h) \/ TeardownStep(h)
  PROVE  OnlyTask(h)
<1> USE DEF OnlyTask
<1>0. {"timeout", "update"} \subseteq Kinds
  BY DEF Kinds
<1>1. ASSUME NEW gbr, NEW fromPcf, NEW a, CreateSmContext(h, a, gbr, fromPcf)
      PROVE  OnlyTask(h)
  BY <1>1 DEF CreateSmContext, Starts, upfVars
<1>2. ASSUME NEW gbr, NEW fromPcf, RefuseSmContext(h, gbr, fromPcf)
      PROVE  OnlyTask(h)
  BY <1>2 DEF RefuseSmContext, taskVars, upfVars
<1>3. CASE CreateRejected(h)
  BY <1>3 DEF CreateRejected, Ends, upfVars
<1>4. CASE CreateTimesOut(h)
  BY <1>0, <1>4 DEF CreateTimesOut, GivesUp, Happens, Ends, upfVars
<1>5. ASSUME NEW charged, FinishCreate(h, charged)
      PROVE  OnlyTask(h)
  <2>1. Ends(h) /\ UNCHANGED <<recovery, start, count>>
    BY <1>5 DEF FinishCreate, upfVars
  <2>q. QED
    BY <2>1 DEF Ends
<1>6. ASSUME NEW r, ReleaseSmContext(h, r)
      PROVE  OnlyTask(h)
  BY <1>6 DEF ReleaseSmContext, Teardown, Starts, smfVars, upfVars
<1>7. ASSUME NEW r, ReleaseUnknown(h, r)
      PROVE  OnlyTask(h)
  BY <1>7 DEF ReleaseUnknown, smfVars, taskVars, upfVars
<1>8. ASSUME NEW r, RefreshSmPolicy(h, r)
      PROVE  OnlyTask(h)
  BY <1>8 DEF RefreshSmPolicy, smfVars, upfVars
<1>9. ASSUME NEW r, NEW active, UpdateSmContext(h, r, active)
      PROVE  OnlyTask(h)
  BY <1>0, <1>9 DEF UpdateSmContext, Starts, Happens, smfVars, upfVars
<1>10. CASE FinishUpdate(h)
  <2>1. Ends(h) /\ UNCHANGED <<recovery, start, count>>
    BY <1>10 DEF FinishUpdate, upfVars
  <2>q. QED
    BY <2>1 DEF Ends
<1>11. CASE UpdateTimesOut(h)
  BY <1>0, <1>11 DEF UpdateTimesOut, GivesUp, Happens, Ends, smfVars, upfVars
<1>12. CASE FinishRefresh(h)
  <2>1. Ends(h) /\ UNCHANGED <<recovery, start, count>>
    BY <1>12 DEF FinishRefresh, upfVars
  <2>q. QED
    BY <2>1 DEF Ends
<1>13. CASE FinishTeardown(h)
  <2>1. Ends(h) /\ UNCHANGED <<recovery, start, count>>
    BY <1>13 DEF FinishTeardown, upfVars
  <2>q. QED
    BY <2>1 DEF Ends
<1>14. CASE TeardownTimesOut(h)
  BY <1>0, <1>14 DEF TeardownTimesOut, GivesUp, Happens, Ends, smfVars, upfVars
<1>q. QED
  BY <1>1, <1>2, <1>3, <1>4, <1>5, <1>6, <1>7, <1>8, <1>9, <1>10, <1>11, <1>12, <1>13, <1>14
     DEF SmfStep, TeardownStep

\* The UPF's answer to a heartbeat is its start time.
LEMMA UpfHandlesCalm ==
  ASSUME IInv, Calm, NEW t \in Tasks, UpfHandles(t)
  PROVE  Calm'
<1>1. /\ UNCHANGED <<jobs, recovery, count, start>>
      /\ n4' = [n4 EXCEPT ![t].answer = Answer(n4[t].request)]
  BY DEF UpfHandles, UpfDoes, smfVars
<1>2. DOMAIN n4' = Tasks
  BY <1>1 DEF Calm
<1>3. CASE jobs["heartbeat"] = Idle
  BY <1>1, <1>2, <1>3 DEF Calm
<1>4. CASE jobs["heartbeat"] # Idle /\ t = "heartbeat"
  <2>1. /\ n4["heartbeat"] \in [request : {[type |-> "heartbeat"]}, answer : {None, 0}]
        /\ start = 0
    BY <1>4 DEF Calm
  <2>2. n4["heartbeat"].request.type = "heartbeat"
    BY <2>1
  <2>3. Answer(n4["heartbeat"].request) = 0
    BY <2>1, <2>2 DEF Answer
  <2>4. n4'["heartbeat"] = [n4["heartbeat"] EXCEPT !.answer = 0]
    BY <1>1, <1>4, <2>3 DEF Calm
  <2>5. n4'["heartbeat"] \in [request : {[type |-> "heartbeat"]}, answer : {None, 0}]
    BY <2>1, <2>4
  <2>q. QED
    BY <1>1, <1>2, <2>5 DEF Calm
<1>5. CASE t # "heartbeat"
  <2>1. n4'["heartbeat"] = n4["heartbeat"]
    BY <1>1, <1>5 DEF Calm, Tasks
  <2>q. QED
    BY <1>1, <1>2, <2>1 DEF Calm
<1>q. QED
  BY <1>3, <1>4, <1>5

\* A UPF that has not restarted reports no later start.
LEMMA HeartbeatCalm ==
  ASSUME IInv, Calm, HeartbeatStep
  PROVE  /\ Calm'
         /\ \E job \in {Idle, [op |-> "heartbeat"]} :
              jobs' = [jobs EXCEPT !["heartbeat"] = job]
         /\ UNCHANGED <<next, freed, reserved, notices, contexts, nextRef>>
<1>0. {"reports", "heartbeat"} \subseteq Tasks /\ "timeout" \in Kinds
  BY DEF Tasks, Kinds
<1>1. CASE Heartbeat
  <2>1. /\ jobs' = [jobs EXCEPT !["heartbeat"] = [op |-> "heartbeat"]]
        /\ n4' = [n4 EXCEPT !["heartbeat"] =
                    [request |-> [type |-> "heartbeat"], answer |-> None]]
        /\ UNCHANGED <<next, freed, reserved, notices, contexts, nextRef, recovery, start, count>>
    BY <1>1 DEF Heartbeat, Starts, Sent, smfVars, upfVars, peerVars
  <2>2. jobs'["heartbeat"] = [op |-> "heartbeat"] /\ jobs'["reports"] = jobs["reports"]
    BY <1>0, <2>1 DEF IInv, Shapes
  <2>3. /\ DOMAIN n4' = Tasks
        /\ n4'["heartbeat"] \in [request : {[type |-> "heartbeat"]}, answer : {None, 0}]
    BY <1>0, <2>1 DEF Calm
  <2>q. QED
    BY <2>1, <2>2, <2>3 DEF Calm
<1>2. ASSUME Ends("heartbeat"), UNCHANGED <<next, freed, reserved, notices, contexts, nextRef, recovery, start>>,
             count' = count \/ count' = [count EXCEPT !["timeout"] = @ + 1]
      PROVE  /\ Calm'
             /\ \E job \in {Idle, [op |-> "heartbeat"]} :
                  jobs' = [jobs EXCEPT !["heartbeat"] = job]
             /\ UNCHANGED <<next, freed, reserved, notices, contexts, nextRef>>
  <2>1. jobs'["heartbeat"] = Idle /\ jobs'["reports"] = jobs["reports"]
    BY <1>0, <1>2 DEF IInv, Shapes, Ends
  <2>2. DOMAIN n4' = Tasks /\ count' \in [Kinds -> Nat]
    BY <1>0, <1>2 DEF Calm, Ends
  <2>q. QED
    BY <1>2, <2>1, <2>2 DEF Calm, Ends
<1>3. CASE HeartbeatAnswered
  <2>1. jobs["heartbeat"].op = "heartbeat" /\ n4["heartbeat"].answer # None
    BY <1>3 DEF HeartbeatAnswered, Answered
  <2>2. n4["heartbeat"].answer = 0 /\ recovery = 0
    BY <2>1 DEF Calm, Idle
  <2>3. Ends("heartbeat") /\ UNCHANGED <<next, freed, reserved, notices, contexts, nextRef, recovery, start, count>>
    BY <1>3, <2>2 DEF HeartbeatAnswered, poolVars, upfVars, peerVars
  <2>q. QED
    BY <1>2, <2>3
<1>4. CASE HeartbeatMissed
  BY <1>2, <1>4 DEF HeartbeatMissed, GivesUp, Happens, smfVars, upfVars, peerVars
<1>5. CASE Recover \/ RecoverUnassociated
  BY <1>5 DEF Recover, RecoverUnassociated, Answered, GivesUp, Calm, Idle
<1>q. QED
  BY <1>1, <1>3, <1>4, <1>5 DEF HeartbeatStep

\* No step ends the calm when quotas do not run out and UPFs do not restart.
LEMMA NextCalm ==
  ASSUME MaxReports = 0, MaxRestarts = 0, IInv, Calm, [Next]_vars
  PROVE  Calm'
<1>0. {"report", "change", "restart"} \subseteq Kinds
  BY DEF Kinds
<1>1. ASSUME NEW h \in Handlers, SmfStep(h)
      PROVE  Calm'
  BY <1>1, SmfStepOnly, OnlyTaskCalm
<1>2. ASSUME NEW t \in Tasks, TeardownStep(t)
      PROVE  Calm'
  <2>1. jobs[t].op = "teardown"
    BY <1>2 DEF TeardownStep, FinishTeardown, TeardownTimesOut, Answered, GivesUp
  <2>2. t \in Handlers
    BY <2>1 DEF Calm, Idle, Tasks
  <2>q. QED
    BY <1>2, <2>2, SmfStepOnly, OnlyTaskCalm
<1>3. ASSUME NEW t \in Tasks, UpfHandles(t)
      PROVE  Calm'
  BY <1>3, UpfHandlesCalm
<1>4. ASSUME NEW q, UpfHandlesLate(q)
      PROVE  Calm'
  <2>1. UNCHANGED <<jobs, n4, recovery, start, count>>
    BY <1>4 DEF UpfHandlesLate, UpfDoes, smfVars, taskVars
  <2>q. QED
    BY <2>1 DEF Calm
<1>5. ASSUME NEW r, QuotaSpent(r)
      PROVE  Calm'
  <2>1. count["report"] \in Nat /\ count["report"] < 0
    BY <1>0, <1>5 DEF QuotaSpent, Happens, Calm
  <2>q. QED
    BY <2>1
<1>6. ASSUME NEW r, NEW gbr, PcfDecides(r, gbr)
      PROVE  Calm'
  <2>1. /\ UNCHANGED <<jobs, n4, recovery, start>>
        /\ count' = [count EXCEPT !["change"] = @ + 1]
    BY <1>6 DEF PcfDecides, Happens, smfVars, taskVars, upfVars
  <2>2. count' \in [Kinds -> Nat]
    BY <1>0, <2>1 DEF Calm
  <2>q. QED
    BY <2>1, <2>2 DEF Calm
<1>7. CASE HeartbeatStep
  BY <1>7, HeartbeatCalm
<1>8. CASE UpfRestarts
  <2>1. count["restart"] \in Nat /\ count["restart"] < 0
    BY <1>0, <1>8 DEF UpfRestarts, Happens, Calm
  <2>q. QED
    BY <2>1
<1>9. CASE UNCHANGED vars
  <2>1. UNCHANGED <<jobs, n4, recovery, start, count>>
    BY <1>9 DEF vars, smfVars, taskVars, upfVars
  <2>q. QED
    BY <2>1 DEF Calm
<1>q. QED
  BY <1>1, <1>2, <1>3, <1>4, <1>5, <1>6, <1>7, <1>8, <1>9 DEF Next

-----------------------------------------------------------------------------

\* Every step of a handler task keeps the addresses apart.
LEMMA HandlerStepD ==
  ASSUME DInv, Tearing \subseteq Handlers, NEW h \in Handlers, SmfStep(h)
  PROVE  DInv'
<1>0. h \in Tasks /\ IInv'
  BY HandlerStep DEF Tasks, DInv
<1>1. ASSUME NEW gbr, NEW fromPcf, NEW a, CreateSmContext(h, a, gbr, fromPcf)
      PROVE  DInv'
  BY <1>1, CreateStepD
<1>2. ASSUME NEW gbr, NEW fromPcf, RefuseSmContext(h, gbr, fromPcf)
      PROVE  DInv'
  <2>1. UNCHANGED <<next, freed, contexts, jobs>>
    BY <1>2 DEF RefuseSmContext, poolVars, taskVars
  <2>2. Creating' = Creating /\ Tearing' = Tearing /\ Live' = Live
    BY <2>1 DEF Creating, Tearing, Live
  <2>q. QED
    BY <1>0, <2>1, <2>2 DEF DInv, HandedOut, TornDownOnce, AddressesDistinct
<1>3. CASE CreateRejected(h) \/ CreateTimesOut(h)
  <2>1. /\ h \in Creating
        /\ freed' = Returned({jobs[h].addr}) /\ jobs' = [jobs EXCEPT ![h] = Idle]
        /\ UNCHANGED <<next, contexts, nextRef>>
    BY <1>0, <1>3 DEF CreateRejected, CreateTimesOut, Answered, GivesUp, Abandon, Ends, Creating
  <2>q. QED
    BY <2>1, AbandonedD
<1>4. ASSUME NEW charged, FinishCreate(h, charged)
      PROVE  DInv'
  BY <1>4, FinishCreateStepD
<1>5. ASSUME NEW r, ReleaseSmContext(h, r)
      PROVE  DInv'
  BY <1>5, ReleaseStepD
<1>6. ASSUME NEW r, ReleaseUnknown(h, r)
      PROVE  DInv'
  BY <1>6, UntouchedD DEF ReleaseUnknown, core, smfVars, taskVars
<1>7. ASSUME NEW r, RefreshSmPolicy(h, r)
      PROVE  DInv'
  <2>1. CASE jobs' = jobs
    BY <1>7, <2>1, UntouchedD DEF RefreshSmPolicy, core, smfVars
  <2>2. CASE jobs' # jobs
    <3> DEFINE job == [op |-> "refresh", ref |-> r, gbr |-> rate[r]]
    <3>1. h \notin Creating
      BY <1>7 DEF RefreshSmPolicy, Creating, Idle
    <3>2. /\ jobs' = [jobs EXCEPT ![h] = job] /\ job.op \notin {"create", "teardown"}
          /\ UNCHANGED <<next, freed, contexts, nextRef>>
      BY <1>7, <2>2 DEF RefreshSmPolicy, smfVars
    <3> HIDE DEF job
    <3>q. QED
      BY <3>1, <3>2, OtherJobD
  <2>q. QED
    BY <2>1, <2>2
<1>8. ASSUME NEW r, NEW active, UpdateSmContext(h, r, active)
      PROVE  DInv'
  <2> DEFINE job == [op |-> "update", ref |-> r, active |-> active]
  <2>1. h \notin Creating
    BY <1>8 DEF UpdateSmContext, Starts, Creating, Idle
  <2>2. /\ jobs' = [jobs EXCEPT ![h] = job] /\ job.op \notin {"create", "teardown"}
        /\ UNCHANGED <<next, freed, contexts, nextRef>>
    BY <1>8 DEF UpdateSmContext, Starts, smfVars
  <2> HIDE DEF job
  <2>q. QED
    BY <2>1, <2>2, OtherJobD
<1>9. CASE FinishUpdate(h)
  <2>1. h \notin Creating \cup Tearing
    BY <1>9 DEF FinishUpdate, Answered, Creating, Tearing
  <2>2. Live' = Live /\ jobs' = [jobs EXCEPT ![h] = Idle] /\ UNCHANGED <<next, freed, nextRef>>
    BY <1>9 DEF FinishUpdate, Ends, poolVars, Live
  <2>3. \A r \in Live : "addr" \in DOMAIN contexts'[r] /\ contexts'[r].addr = contexts[r].addr
    BY <1>9 DEF FinishUpdate, DInv, IInv, Shapes, Live
  <2>q. QED
    BY <2>1, <2>2, <2>3, RetouchedD
<1>10. CASE UpdateTimesOut(h)
  <2>1. h \notin Creating /\ Idle.op \notin {"create", "teardown"}
    BY <1>10 DEF UpdateTimesOut, GivesUp, Creating, Idle
  <2>q. QED
    BY <1>10, <2>1, OtherJobD DEF UpdateTimesOut, Ends, smfVars
<1>11. CASE FinishRefresh(h)
  <2>1. h \notin Creating \cup Tearing
    BY <1>11 DEF FinishRefresh, Creating, Tearing
  <2>2. Live' = Live /\ jobs' = [jobs EXCEPT ![h] = Idle] /\ UNCHANGED <<next, freed, nextRef>>
    BY <1>11 DEF FinishRefresh, Ends, poolVars, Live
  <2>3. \A r \in Live : "addr" \in DOMAIN contexts'[r] /\ contexts'[r].addr = contexts[r].addr
    BY <1>11 DEF FinishRefresh, DInv, IInv, Shapes, Live
  <2>q. QED
    BY <2>1, <2>2, <2>3, RetouchedD
<1>q. QED
  BY <1>1, <1>2, <1>3, <1>4, <1>5, <1>6, <1>7, <1>8, <1>9, <1>10, <1>11 DEF SmfStep

\* While it is calm, every step keeps the addresses apart.
LEMMA NextDInv ==
  ASSUME MaxReports = 0, MaxRestarts = 0, DInv, Calm, [Next]_vars
  PROVE  DInv'
<1>0. Tearing \subseteq Handlers
  BY DEF Calm, Idle, Tearing, Tasks
<1>1. ASSUME NEW h \in Handlers, SmfStep(h)
      PROVE  DInv'
  BY <1>0, <1>1, HandlerStepD
<1>2. ASSUME NEW t \in Tasks, TeardownStep(t)
      PROVE  DInv'
  BY <1>2, TeardownStepD
<1>3. ASSUME NEW t \in Tasks, UpfHandles(t)
      PROVE  DInv'
  BY <1>3, UntouchedD DEF UpfHandles, core, smfVars
<1>4. ASSUME NEW q, UpfHandlesLate(q)
      PROVE  DInv'
  BY <1>4, UntouchedD DEF UpfHandlesLate, core, smfVars, taskVars
<1>5. ASSUME NEW r, QuotaSpent(r)
      PROVE  DInv'
  <2>1. count["report"] \in Nat /\ count["report"] < 0
    BY <1>5 DEF QuotaSpent, Happens, Calm, Kinds
  <2>q. QED
    BY <2>1
<1>6. ASSUME NEW r, NEW gbr, PcfDecides(r, gbr)
      PROVE  DInv'
  BY <1>6, UntouchedD DEF PcfDecides, core, smfVars, taskVars
<1>7. CASE HeartbeatStep
  <2>1. PICK job \in {Idle, [op |-> "heartbeat"]} :
          /\ jobs' = [jobs EXCEPT !["heartbeat"] = job]
          /\ UNCHANGED <<next, freed, contexts, nextRef>>
    BY <1>7, HeartbeatCalm DEF DInv
  <2>2. job.op \notin {"create", "teardown"} /\ "heartbeat" \notin Creating
    BY DEF Idle, Calm, Creating
  <2>q. QED
    BY <2>1, <2>2, OtherJobD
<1>8. CASE UpfRestarts
  BY <1>8, UntouchedD DEF UpfRestarts, core, smfVars, taskVars
<1>9. CASE UNCHANGED vars
  BY <1>9, UntouchedD DEF vars, core, smfVars, taskVars
<1>q. QED
  BY <1>1, <1>2, <1>3, <1>4, <1>5, <1>6, <1>7, <1>8, <1>9 DEF Next

\* U32Pool's claim that "the same address can never be handed to two live
\* sessions" holds for every pool, any number of handlers and sessions, and any
\* N4 losses, late requests and policy changes, as long as no session is torn
\* down for a spent quota and no UPF restarts.
THEOREM NoSharing ==
  ASSUME MaxReports = 0, MaxRestarts = 0
  PROVE  Spec => []AddressesDistinct
<1>1. Init => Calm
  BY DEF Init, Calm, Tasks
<1>2. (DInv /\ Calm) /\ [Next]_vars => (DInv /\ Calm)'
  BY NextDInv, NextCalm DEF DInv
<1>3. DInv => AddressesDistinct
  BY DEF DInv
<1>q. QED
  BY <1>1, <1>2, <1>3, InitDInv, PTL DEF Spec

-----------------------------------------------------------------------------
(* Sums: what SumFunction adds up does not depend on the order *)

\* The element of s that is added first.
First(s) == CHOOSE x \in s : TRUE

\* The sum over s, when g has those over smaller sets.
Added(f, g, s) == IF s = {} THEN 0 ELSE f[First(s)] + g[s \ {First(s)}]

\* g has the sums of f over every subset of its domain.
Adds(g, f) == g = [s \in SUBSET DOMAIN f |-> Added(f, g, s)]

\* SumFunction (Functions, Folds) is the sum over the whole domain.
LEMMA SumIsChosen ==
  ASSUME NEW f
  PROVE  SumFunction(f) = (CHOOSE g : Adds(g, f))[DOMAIN f]
BY DEF SumFunction, SumFunctionOnSet, FoldFunctionOnSet, MapThenFoldSet, Adds, Added, First

\* Among numbers there is a least one.
LEMMA Least ==
  ASSUME NEW T \in SUBSET Nat, T # {}
  PROVE  \E n \in T : \A m \in T : n <= m
<1>1. PICK n \in T : \A m \in T : ~(<<m, n>> \in OpToRel(<, Nat))
  BY WFMin, NatLessThanWellFounded
<1>2. \A m \in T : ~(m < n)
  BY <1>1 DEF OpToRel
<1>q. QED
  BY <1>2

\* One element less.
LEMMA OneLess ==
  ASSUME NEW D, IsFiniteSet(D), NEW s \in SUBSET D, NEW x \in s
  PROVE  /\ s \ {x} \in SUBSET D
         /\ Cardinality(s \ {x}) = Cardinality(s) - 1
         /\ Cardinality(s) \in Nat /\ Cardinality(s) >= 1
<1>1. IsFiniteSet(s)
  BY FS_Subset
<1>2. Cardinality(s \ {x}) = Cardinality(s) - 1 /\ IsFiniteSet(s \ {x})
  BY <1>1, FS_RemoveElement
<1>3. Cardinality(s) \in Nat /\ Cardinality(s \ {x}) \in Nat
  BY <1>1, <1>2, FS_CardinalityType
<1>q. QED
  BY <1>2, <1>3

\* First takes an element.
LEMMA FirstIsIn == \A s : s # {} => First(s) \in s
BY DEF First

\* There are sums over all subsets of a finite domain: by their size.
LEMMA SumsExist ==
  ASSUME NEW f, IsFiniteSet(DOMAIN f)
  PROVE  \E g : Adds(g, f)
<1> DEFINE D == DOMAIN f
           Upto(n) == \E g : /\ DOMAIN g = SUBSET D
                             /\ \A s \in SUBSET D : Cardinality(s) <= n => g[s] = Added(f, g, s)
           T == {n \in Nat : ~Upto(n)}
<1>0. \A s \in SUBSET D : Cardinality(s) \in Nat /\ (Cardinality(s) = 0 <=> s = {})
  BY FS_Subset, FS_CardinalityType, FS_EmptySet
<1>1. T = {}
  <2> SUFFICES ASSUME T # {} PROVE FALSE
    OBVIOUS
  <2>1. PICK n \in T : \A m \in T : n <= m
    <3> HIDE DEF Upto
    <3> QED
      BY Least
  <2>2. CASE n = 0
    <3> DEFINE g == [s \in SUBSET D |-> 0]
    <3>1. \A s \in SUBSET D : Cardinality(s) <= 0 => g[s] = Added(f, g, s)
      BY <1>0 DEF Added
    <3>2. Upto(0)
      BY <3>1
    <3>q. QED
      BY <2>1, <2>2, <3>2
  <2>3. CASE n # 0
    <3>1. n - 1 \in Nat /\ Upto(n - 1)
      <4> HIDE DEF Upto
      <4> QED
        BY <2>1, <2>3
    <3>2. PICK h : /\ DOMAIN h = SUBSET D
                   /\ \A s \in SUBSET D : Cardinality(s) <= n - 1 => h[s] = Added(f, h, s)
      BY <3>1
    <3> DEFINE g == [s \in SUBSET D |-> IF Cardinality(s) <= n - 1 THEN h[s] ELSE Added(f, h, s)]
    <3>3. ASSUME NEW s \in SUBSET D, Cardinality(s) <= n
          PROVE  g[s] = Added(f, g, s)
      <4>1. g[s] = Added(f, h, s)
        BY <3>2
      <4>2. CASE s = {}
        BY <4>1, <4>2 DEF Added
      <4>3. CASE s # {}
        <5> DEFINE x == First(s)
        <5>1. x \in s
          BY <4>3, FirstIsIn
        <5> HIDE DEF x
        <5>2. s \ {x} \in SUBSET D /\ Cardinality(s \ {x}) <= n - 1
          BY <5>1, <3>3, OneLess
        <5>3. g[s \ {x}] = h[s \ {x}]
          BY <5>2
        <5> HIDE DEF g
        <5>4. Added(f, h, s) = f[x] + h[s \ {x}] /\ Added(f, g, s) = f[x] + g[s \ {x}]
          BY <4>3 DEF Added, x
        <5>q. QED
          BY <4>1, <5>3, <5>4
      <4>q. QED
        BY <4>2, <4>3
    <3>4. Upto(n)
      <4>1. DOMAIN g = SUBSET D
        OBVIOUS
      <4> HIDE DEF g
      <4> QED
        BY <3>3, <4>1
    <3>q. QED
      BY <2>1, <3>4
  <2>q. QED
    BY <2>2, <2>3
<1>2. Cardinality(D) \in Nat
  BY FS_CardinalityType
<1>3. Upto(Cardinality(D))
  <2> HIDE DEF Upto
  <2> QED
    BY <1>1, <1>2
<1>4. PICK g : /\ DOMAIN g = SUBSET D
               /\ \A s \in SUBSET D : Cardinality(s) <= Cardinality(D) => g[s] = Added(f, g, s)
  BY <1>3
<1>5. \A s \in SUBSET D : Cardinality(s) <= Cardinality(D)
  BY FS_Subset
<1> DEFINE k == [s \in SUBSET D |-> g[s]]
<1>6. \A s \in SUBSET D : k[s] = Added(f, k, s)
  <2> SUFFICES ASSUME NEW s \in SUBSET D PROVE k[s] = Added(f, k, s)
    OBVIOUS
  <2>1. s \ {First(s)} \in SUBSET D
    OBVIOUS
  <2>2. k[s] = g[s] /\ k[s \ {First(s)}] = g[s \ {First(s)}]
    BY <2>1
  <2>3. g[s] = Added(f, g, s)
    BY <1>4, <1>5
  <2> HIDE DEF k
  <2>q. QED
    BY <2>2, <2>3 DEF Added
<1>7. k = [s \in SUBSET D |-> Added(f, k, s)]
  <2>1. DOMAIN k = SUBSET D /\ k = [s \in SUBSET D |-> k[s]]
    OBVIOUS
  <2> HIDE DEF k
  <2> QED
    BY <1>6, <2>1
<1>q. QED
  BY <1>7 DEF Adds

\* The sums SumFunction takes.
Sums(f) == CHOOSE g : Adds(g, f)

\* They are sums, and whatever element comes last.
LEMMA SumsAdd ==
  ASSUME NEW f, IsFiniteSet(DOMAIN f), \A x \in DOMAIN f : f[x] \in Int
  PROVE  /\ SumFunction(f) = Sums(f)[DOMAIN f]
         /\ Sums(f)[{}] = 0
         /\ \A s \in SUBSET DOMAIN f : Sums(f)[s] = Added(f, Sums(f), s)
         /\ \A s \in SUBSET DOMAIN f : Sums(f)[s] \in Int
         /\ \A s \in SUBSET DOMAIN f : \A x \in s : Sums(f)[s] = f[x] + Sums(f)[s \ {x}]
<1> DEFINE D == DOMAIN f
<1>1. Adds(Sums(f), f)
  BY SumsExist DEF Sums
<1>2. SumFunction(f) = Sums(f)[D]
  BY SumIsChosen DEF Sums
<1> PICK g : g = Sums(f)
  OBVIOUS
<1>3. \A s \in SUBSET D : g[s] = Added(f, g, s)
  BY <1>1 DEF Adds
<1>0. \A s \in SUBSET D : Cardinality(s) \in Nat
  BY FS_Subset, FS_CardinalityType
<1> DEFINE Good(z) == g[z] \in Int /\ \A x \in z : g[z] = f[x] + g[z \ {x}]
           T == {n \in Nat : \E z \in SUBSET D : Cardinality(z) = n /\ ~Good(z)}
<1>4. T = {}
  <2> SUFFICES ASSUME T # {} PROVE FALSE
    OBVIOUS
  <2>1. PICK n \in T : \A m \in T : n <= m
    <3> HIDE DEF Good
    <3> QED
      BY Least
  <2>2. PICK s \in SUBSET D : Cardinality(s) = n /\ ~Good(s)
    BY <2>1
  <2>3. ASSUME NEW x \in s
        PROVE  s \ {x} \in SUBSET D /\ Good(s \ {x})
    <3>1. s \ {x} \in SUBSET D /\ Cardinality(s \ {x}) = n - 1 /\ n - 1 \in Nat
      <4>1. n \in Nat /\ x \in s /\ s \in SUBSET D /\ Cardinality(s) = n /\ IsFiniteSet(D)
        BY <2>1, <2>2, <2>3
      <4> HIDE DEF T, D, Good
      <4>2. /\ s \ {x} \in SUBSET D /\ Cardinality(s \ {x}) = Cardinality(s) - 1
           /\ Cardinality(s) >= 1
        BY <4>1, OneLess, Zenon
      <4>q. QED
        BY <4>1, <4>2
    <3> HIDE DEF Good
    <3>q. QED
      BY <2>1, <3>1
  <2>4. CASE s = {}
    <3>1. g[s] = 0
      BY <1>3, <2>4 DEF Added
    <3>q. QED
      BY <2>2, <2>4, <3>1
  <2>5. CASE s # {}
    <3> DEFINE c == First(s)
    <3>1. c \in s
      BY <2>5, FirstIsIn
    <3>2. g[s] = f[c] + g[s \ {c}]
      BY <1>3, <2>5 DEF Added
    <3> HIDE DEF c
    <3>3. g[s] \in Int
      <4>1. g[s \ {c}] \in Int
        BY <2>3, <3>1
      <4>2. f[c] \in Int
        BY <3>1
      <4>q. QED
        BY <3>2, <4>1, <4>2
    <3>4. ASSUME NEW x \in s
          PROVE  g[s] = f[x] + g[s \ {x}]
      <4>1. CASE x = c
        BY <3>2, <4>1
      <4>2. CASE x # c
        <5>1. g[s \ {c}] = f[x] + g[(s \ {c}) \ {x}]
          BY <2>3, <3>1, <4>2
        <5>2. g[s \ {x}] = f[c] + g[(s \ {x}) \ {c}]
          BY <2>3, <3>1, <4>2
        <5>3. (s \ {c}) \ {x} = (s \ {x}) \ {c}
          OBVIOUS
        <5>4. f[x] \in Int /\ f[c] \in Int /\ g[(s \ {c}) \ {x}] \in Int
          <6>1. Good(s \ {x})
            BY <2>3
          <6>2. c \in s \ {x} /\ x \in D /\ c \in D
            BY <3>1, <4>2
          <6>3. g[s \ {x}] \in Int /\ f[x] \in Int /\ f[c] \in Int
            BY <6>1, <6>2
          <6>4. ((s \ {c}) \ {x}) \in SUBSET D
            OBVIOUS
          <6>5. Good((s \ {c}) \ {x})
            <7>1. Cardinality(s \ {c}) = n - 1 /\ s \ {c} \in SUBSET D
              <8>1. n \in Nat /\ c \in s /\ s \in SUBSET D /\ Cardinality(s) = n /\ IsFiniteSet(D)
                BY <2>1, <2>2, <3>1
              <8> HIDE DEF T, D, Good
              <8>q. QED
                BY <8>1, OneLess
            <7>2. x \in s \ {c}
              BY <4>2
            <7>3. Cardinality((s \ {c}) \ {x}) = n - 2 /\ n - 2 \in Int
              <8>1. n \in Nat /\ IsFiniteSet(D)
                BY <2>1
              <8> HIDE DEF T, D, Good
              <8>q. QED
                BY <7>1, <7>2, <8>1, OneLess
            <7>4. Cardinality((s \ {c}) \ {x}) \in Nat
              BY <1>0, <6>4
            <7> HIDE DEF Good
            <7>q. QED
              BY <2>1, <6>4, <7>3, <7>4
          <6>q. QED
            BY <6>3, <6>5
        <5> PICK rest : rest = g[(s \ {c}) \ {x}]
          OBVIOUS
        <5>5. g[s] = f[c] + (f[x] + rest) /\ g[s \ {x}] = f[c] + rest
          BY <3>2, <5>1, <5>2, <5>3
        <5> HIDE DEF Good
        <5>q. QED
          BY <5>4, <5>5
      <4>q. QED
        BY <4>1, <4>2
    <3>q. QED
      BY <2>2, <3>3, <3>4
  <2>q. QED
    BY <2>4, <2>5
<1>5. \A s \in SUBSET D : Good(s)
  <2> HIDE DEF Good
  <2> QED
    BY <1>0, <1>4
<1>6. g[{}] = 0
  BY <1>3 DEF Added
<1>q. QED
  BY <1>2, <1>3, <1>5, <1>6

\* Functions that agree on a set have the same sum over it.
LEMMA SumsAgree ==
  ASSUME NEW f, IsFiniteSet(DOMAIN f), \A x \in DOMAIN f : f[x] \in Int,
         NEW h, IsFiniteSet(DOMAIN h), \A x \in DOMAIN h : h[x] \in Int,
         NEW A \in SUBSET (DOMAIN f \cap DOMAIN h), \A x \in A : f[x] = h[x]
  PROVE  Sums(f)[A] = Sums(h)[A]
<1> DEFINE T == {n \in Nat : \E z \in SUBSET A : Cardinality(z) = n /\ Sums(f)[z] # Sums(h)[z]}
<1>0. IsFiniteSet(A) /\ \A s \in SUBSET A : Cardinality(s) \in Nat
  BY FS_Subset, FS_CardinalityType
<1>1. T = {}
  <2> SUFFICES ASSUME T # {} PROVE FALSE
    OBVIOUS
  <2>1. PICK n \in T : \A m \in T : n <= m
    BY Least
  <2>2. PICK s \in SUBSET A : Cardinality(s) = n /\ Sums(f)[s] # Sums(h)[s]
    BY <2>1
  <2>3. CASE s = {}
    BY <2>2, <2>3, SumsAdd
  <2>4. CASE s # {}
    <3>1. PICK x \in s : TRUE
      BY <2>4
    <3>2. s \ {x} \in SUBSET A /\ Cardinality(s \ {x}) = n - 1 /\ n - 1 \in Nat
      <4>1. n \in Nat /\ x \in s /\ s \in SUBSET A /\ Cardinality(s) = n /\ IsFiniteSet(A)
        BY <1>0, <2>1, <2>2, <3>1
      <4> HIDE DEF T
      <4>q. QED
        BY <4>1, OneLess
    <3>3. Sums(f)[s \ {x}] = Sums(h)[s \ {x}]
      BY <2>1, <3>2
    <3>4. Sums(f)[s] = f[x] + Sums(f)[s \ {x}]
      BY SumsAdd
    <3>5. Sums(h)[s] = h[x] + Sums(h)[s \ {x}]
      BY SumsAdd
    <3>q. QED
      BY <2>2, <3>3, <3>4, <3>5
  <2>q. QED
    BY <2>3, <2>4
<1>q. QED
  BY <1>0, <1>1

\* A sum with one more term.
LEMMA SumGrows ==
  ASSUME NEW f, IsFiniteSet(DOMAIN f), \A x \in DOMAIN f : f[x] \in Nat,
         NEW h, NEW a, a \notin DOMAIN f,
         DOMAIN h = DOMAIN f \cup {a}, \A x \in DOMAIN f : h[x] = f[x], h[a] \in Nat
  PROVE  SumFunction(h) = SumFunction(f) + h[a]
<1>1. IsFiniteSet(DOMAIN h) /\ \A x \in DOMAIN h : h[x] \in Int
  BY FS_AddElement
<1>2. DOMAIN h \ {a} = DOMAIN f
  OBVIOUS
<1>3. SumFunction(h) = h[a] + Sums(h)[DOMAIN f]
  <2>1. a \in DOMAIN h /\ DOMAIN h \in SUBSET DOMAIN h
    OBVIOUS
  <2>2. SumFunction(h) = Sums(h)[DOMAIN h]
    BY <1>1, SumsAdd
  <2>3. Sums(h)[DOMAIN h] = h[a] + Sums(h)[DOMAIN h \ {a}]
    BY <1>1, <2>1, SumsAdd
  <2>q. QED
    BY <1>2, <2>2, <2>3
<1>4. Sums(h)[DOMAIN f] = Sums(f)[DOMAIN f]
  BY <1>1, SumsAgree
<1>5. SumFunction(f) = Sums(f)[DOMAIN f] /\ Sums(f)[DOMAIN f] \in Int
  BY SumsAdd
<1>q. QED
  BY <1>3, <1>4, <1>5

\* A sum of natural numbers is one, and no less than any of its terms.
LEMMA SumIsNat ==
  ASSUME NEW f, IsFiniteSet(DOMAIN f), \A x \in DOMAIN f : f[x] \in Nat
  PROVE  SumFunction(f) \in Nat /\ \A x \in DOMAIN f : f[x] <= SumFunction(f)
<1> DEFINE D == DOMAIN f
           T == {n \in Nat : \E z \in SUBSET D : Cardinality(z) = n /\ Sums(f)[z] \notin Nat}
<1>0. /\ \A s \in SUBSET D : Cardinality(s) \in Nat
      /\ \A x \in D : f[x] \in Int
  BY FS_Subset, FS_CardinalityType
<1>1. T = {}
  <2> SUFFICES ASSUME T # {} PROVE FALSE
    OBVIOUS
  <2>1. PICK n \in T : \A m \in T : n <= m
    BY Least
  <2>2. PICK s \in SUBSET D : Cardinality(s) = n /\ Sums(f)[s] \notin Nat
    BY <2>1
  <2>3. s # {}
    <3>1. Sums(f)[{}] = 0
      BY <1>0, SumsAdd
    <3>q. QED
      BY <2>2, <3>1
  <2>4. PICK x \in s : TRUE
    BY <2>3
  <2>5. s \ {x} \in SUBSET D /\ Cardinality(s \ {x}) = n - 1 /\ n - 1 \in Nat
    <3>1. n \in Nat /\ x \in s /\ s \in SUBSET D /\ Cardinality(s) = n /\ IsFiniteSet(D)
      BY <2>1, <2>2, <2>4
    <3> HIDE DEF T, D
    <3>2. /\ s \ {x} \in SUBSET D /\ Cardinality(s \ {x}) = Cardinality(s) - 1
         /\ Cardinality(s) >= 1
      BY <3>1, OneLess, Zenon
    <3>q. QED
      BY <3>1, <3>2
  <2>6. Sums(f)[s \ {x}] \in Nat
    BY <2>1, <2>5
  <2>7. Sums(f)[s] = f[x] + Sums(f)[s \ {x}]
    BY <1>0, SumsAdd
  <2>q. QED
    BY <2>2, <2>6, <2>7
<1>2. \A s \in SUBSET D : Sums(f)[s] \in Nat
  BY <1>0, <1>1
<1>3. \A x \in D : Sums(f)[D] = f[x] + Sums(f)[D \ {x}] /\ Sums(f)[D \ {x}] \in Nat
  <2> SUFFICES ASSUME NEW x \in D
               PROVE  Sums(f)[D] = f[x] + Sums(f)[D \ {x}] /\ Sums(f)[D \ {x}] \in Nat
    OBVIOUS
  <2>1. D \in SUBSET D /\ D \ {x} \in SUBSET D
    OBVIOUS
  <2>2. Sums(f)[D] = f[x] + Sums(f)[D \ {x}]
    BY <1>0, <2>1, SumsAdd
  <2>q. QED
    BY <1>2, <2>1, <2>2
<1>4. SumFunction(f) = Sums(f)[D] /\ Sums(f)[D] \in Nat
  <2>1. D \in SUBSET D
    OBVIOUS
  <2>q. QED
    BY <1>0, <1>2, <2>1, SumsAdd
<1>5. ASSUME NEW x \in D
      PROVE  f[x] <= SumFunction(f)
  <2> PICK rest \in Nat : Sums(f)[D] = f[x] + rest
    BY <1>3
  <2>q. QED
    BY <1>4
<1>q. QED
  BY <1>4, <1>5

-----------------------------------------------------------------------------
(* The budget's ledger *)

\* The guaranteed rates of the contexts, and of the sessions being created.
CtxRates == [r \in Live |-> contexts[r].gbr]
JobRates == [t \in Creating |-> jobs[t].gbr]

\* A rate is a number, and what a teardown will give back is the context's.
RatesOwned ==
    /\ \A r \in Live : "gbr" \in DOMAIN contexts[r] /\ contexts[r].gbr \in Nat
    /\ \A t \in Creating : jobs[t].gbr \in Nat
    /\ \A t \in Tearing : jobs[t].gbr = contexts[jobs[t].ref].gbr

\* No policy changes, so none is refreshed.
Unchanging ==
    /\ \A r \in Refs : notices[r] = 0
    /\ \A t \in Tasks : jobs[t].op # "refresh"

LInv == RatesOwned /\ Unchanging /\ ReservedIsPromised

\* There are finitely many contexts and sessions being created.
LEMMA TablesFinite ==
  ASSUME DInv
  PROVE  IsFiniteSet(Live) /\ IsFiniteSet(Creating)
<1>1. Live \subseteq 0..nextRef /\ nextRef \in Nat
  BY DEF DInv, IInv, Shapes, RefsBelow
<1>2. IsFiniteSet(0..nextRef)
  BY <1>1, FS_Interval
<1>3. IsFiniteSet(Handlers \cup {"reports"}) /\ IsFiniteSet((Handlers \cup {"reports"}) \cup {"heartbeat"})
  BY SmfAssumption, FS_AddElement
<1>4. Creating \subseteq (Handlers \cup {"reports"}) \cup {"heartbeat"}
  BY DEF Creating, Tasks
<1>q. QED
  BY <1>1, <1>2, <1>3, <1>4, FS_Subset

\* An SMF that starts has promised nothing.
LEMMA InitLInv == Init => LInv
<1> SUFFICES ASSUME Init
             PROVE  LInv
  OBVIOUS
<1>1. Live = {} /\ Creating = {} /\ Tearing = {}
  BY DEF Init, Live, Creating, Tearing, Idle
<1>2. DOMAIN CtxRates = {} /\ DOMAIN JobRates = {}
  BY <1>1 DEF CtxRates, JobRates
<1>3. SumFunction(CtxRates) = 0 /\ SumFunction(JobRates) = 0
  <2>1. \A f : DOMAIN f = {} => SumFunction(f) = 0
    <3> SUFFICES ASSUME NEW f, DOMAIN f = {}
                 PROVE  SumFunction(f) = 0
      OBVIOUS
    <3>1. IsFiniteSet(DOMAIN f) /\ \A x \in DOMAIN f : f[x] \in Int
      BY FS_EmptySet
    <3>q. QED
      BY <3>1, SumsAdd
  <2>q. QED
    BY <1>2, <2>1
<1>4. ReservedIsPromised
  BY <1>3 DEF ReservedIsPromised, Promised, CtxRates, JobRates, Init
<1>5. RatesOwned /\ Unchanging
  BY <1>1 DEF RatesOwned, Unchanging, Init, Idle
<1>q. QED
  BY <1>4, <1>5 DEF LInv

\* The sums of the two tables are numbers.
LEMMA SumsAreNat ==
  ASSUME DInv, LInv
  PROVE  SumFunction(CtxRates) \in Nat /\ SumFunction(JobRates) \in Nat
<1>1. /\ DOMAIN CtxRates = Live /\ \A r \in DOMAIN CtxRates : CtxRates[r] \in Nat
      /\ DOMAIN JobRates = Creating /\ \A t \in DOMAIN JobRates : JobRates[t] \in Nat
  BY DEF CtxRates, JobRates, LInv, RatesOwned
<1> PICK f, k : f = CtxRates /\ k = JobRates
  OBVIOUS
<1>q. QED
  BY <1>1, TablesFinite, SumIsNat

\* One session less is being created.
LEMMA JobRatesShrink ==
  ASSUME DInv, LInv, NEW h \in Creating, Creating' = Creating \ {h},
         \A t \in Creating \ {h} : jobs'[t] = jobs[t]
  PROVE  /\ SumFunction(JobRates) = SumFunction(JobRates') + jobs[h].gbr
         /\ SumFunction(JobRates') \in Nat
<1>1. /\ DOMAIN JobRates = Creating /\ DOMAIN JobRates = DOMAIN JobRates' \cup {h}
      /\ h \notin DOMAIN JobRates' /\ DOMAIN JobRates' \subseteq Creating
      /\ \A t \in DOMAIN JobRates' : JobRates'[t] \in Nat /\ JobRates'[t] = JobRates[t]
      /\ JobRates[h] = jobs[h].gbr /\ jobs[h].gbr \in Nat
  BY DEF JobRates, LInv, RatesOwned
<1>2. IsFiniteSet(DOMAIN JobRates')
  BY <1>1, TablesFinite, FS_Subset
<1> PICK f, k : f = JobRates' /\ k = JobRates
  OBVIOUS
<1>q. QED
  BY <1>1, <1>2, SumGrows, SumIsNat

\* A step that neither makes nor takes back a promise.
LEMMA KeepsPromises ==
  ASSUME DInv, LInv, Live' = Live, Creating' = Creating, reserved' = reserved, Unchanging',
         \A r \in Live : "gbr" \in DOMAIN contexts'[r] /\ contexts'[r].gbr = contexts[r].gbr,
         \A t \in Creating : jobs'[t].gbr = jobs[t].gbr,
         \A t \in Tearing' : \/ t \in Tearing /\ jobs'[t] = jobs[t]
                             \/ jobs'[t].gbr = contexts[jobs'[t].ref].gbr /\ jobs'[t].ref \in Live
  PROVE  LInv'
<1>1. CtxRates' = CtxRates /\ JobRates' = JobRates
  BY DEF CtxRates, JobRates
<1>2. ReservedIsPromised'
  BY <1>1 DEF LInv, ReservedIsPromised, Promised, CtxRates, JobRates
<1>3. RatesOwned'
  BY DEF LInv, RatesOwned, DInv, TornDownOnce
<1>q. QED
  BY <1>2, <1>3 DEF LInv

\* Steps that leave all of it alone.
LEMMA UntouchedL ==
  ASSUME DInv, LInv, UNCHANGED <<contexts, jobs, reserved, notices>>
  PROVE  LInv'
<1>1. Live' = Live /\ Creating' = Creating /\ Tearing' = Tearing /\ Unchanging'
  BY DEF Live, Creating, Tearing, LInv, Unchanging
<1>q. QED
  BY <1>1, KeepsPromises DEF LInv, RatesOwned

\* Admission reserves what the session is promised.
LEMMA PromisesMore ==
  ASSUME DInv, LInv, Unchanging', Live' = Live, contexts' = contexts, Tearing' = Tearing,
         NEW h, h \notin Creating, Creating' = Creating \cup {h},
         NEW gbr \in Nat, reserved' = reserved + gbr, jobs'[h].gbr = gbr,
         \A t \in Creating \cup Tearing : jobs'[t] = jobs[t]
  PROVE  LInv'
<1>1. CtxRates' = CtxRates
  BY DEF CtxRates
<1>2. SumFunction(JobRates') = SumFunction(JobRates) + gbr
  <2>1. /\ DOMAIN JobRates = Creating /\ DOMAIN JobRates' = DOMAIN JobRates \cup {h}
        /\ \A t \in DOMAIN JobRates : JobRates[t] \in Nat /\ JobRates'[t] = JobRates[t]
        /\ JobRates'[h] = gbr
    BY DEF JobRates, LInv, RatesOwned
  <2>2. IsFiniteSet(DOMAIN JobRates)
    BY <2>1, TablesFinite
  <2> PICK f, k : f = JobRates /\ k = JobRates'
    OBVIOUS
  <2>q. QED
    BY <2>1, <2>2, SumGrows
<1>3. SumFunction(CtxRates) \in Nat /\ SumFunction(JobRates) \in Nat
  BY SumsAreNat
<1>4. ReservedIsPromised'
  BY <1>1, <1>2, <1>3 DEF LInv, ReservedIsPromised, Promised, CtxRates, JobRates
<1>5. RatesOwned'
  BY DEF LInv, RatesOwned, DInv, TornDownOnce
<1>q. QED
  BY <1>4, <1>5 DEF LInv

\* An establishment that fails takes its promise back.
LEMMA PromisesLess ==
  ASSUME DInv, LInv, Unchanging', Live' = Live, contexts' = contexts, Tearing' = Tearing,
         NEW h \in Creating, Creating' = Creating \ {h},
         reserved' = Unreserved(jobs[h].gbr),
         \A t \in (Creating \ {h}) \cup Tearing : jobs'[t] = jobs[t]
  PROVE  LInv'
<1>1. CtxRates' = CtxRates
  BY DEF CtxRates
<1>2. SumFunction(JobRates) = SumFunction(JobRates') + jobs[h].gbr /\ SumFunction(JobRates') \in Nat
  BY JobRatesShrink
<1>3. SumFunction(CtxRates) \in Nat /\ jobs[h].gbr \in Nat
  BY SumsAreNat DEF LInv, RatesOwned
<1>4. reserved = SumFunction(CtxRates) + SumFunction(JobRates)
  BY DEF LInv, ReservedIsPromised, Promised, CtxRates, JobRates
<1>5. reserved' = SumFunction(CtxRates) + SumFunction(JobRates')
  BY <1>2, <1>3, <1>4 DEF Unreserved
<1>6. ReservedIsPromised'
  BY <1>1, <1>5 DEF ReservedIsPromised, Promised, CtxRates, JobRates
<1>7. RatesOwned'
  BY DEF LInv, RatesOwned, DInv, TornDownOnce
<1>q. QED
  BY <1>6, <1>7 DEF LInv

\* The promise of a session that is up is its context's.
LEMMA PromiseMoves ==
  ASSUME DInv, LInv, Unchanging', reserved' = reserved, Tearing' = Tearing,
         NEW h \in Creating, Creating' = Creating \ {h},
         NEW r, r \notin Live, Live' = Live \cup {r},
         \A q \in Live : contexts'[q] = contexts[q],
         "gbr" \in DOMAIN contexts'[r], contexts'[r].gbr = jobs[h].gbr,
         \A t \in (Creating \ {h}) \cup Tearing : jobs'[t] = jobs[t]
  PROVE  LInv'
<1>1. SumFunction(JobRates) = SumFunction(JobRates') + jobs[h].gbr /\ SumFunction(JobRates') \in Nat
  BY JobRatesShrink
<1>2. SumFunction(CtxRates') = SumFunction(CtxRates) + jobs[h].gbr
  <2>1. /\ DOMAIN CtxRates = Live /\ DOMAIN CtxRates' = DOMAIN CtxRates \cup {r}
        /\ \A q \in DOMAIN CtxRates : CtxRates[q] \in Nat /\ CtxRates'[q] = CtxRates[q]
        /\ CtxRates'[r] = jobs[h].gbr /\ jobs[h].gbr \in Nat
    BY DEF CtxRates, LInv, RatesOwned
  <2>2. IsFiniteSet(DOMAIN CtxRates)
    BY <2>1, TablesFinite
  <2> PICK f, k : f = CtxRates /\ k = CtxRates'
    OBVIOUS
  <2>q. QED
    BY <2>1, <2>2, SumGrows
<1>3. SumFunction(CtxRates) \in Nat /\ jobs[h].gbr \in Nat
  BY SumsAreNat DEF LInv, RatesOwned
<1>4. reserved = SumFunction(CtxRates) + SumFunction(JobRates)
  BY DEF LInv, ReservedIsPromised, Promised, CtxRates, JobRates
<1>5. reserved' = SumFunction(CtxRates') + SumFunction(JobRates')
  BY <1>1, <1>2, <1>3, <1>4
<1>6. ReservedIsPromised'
  BY <1>5 DEF ReservedIsPromised, Promised, CtxRates, JobRates
<1>7. RatesOwned'
  BY DEF LInv, RatesOwned, DInv, TornDownOnce
<1>q. QED
  BY <1>6, <1>7 DEF LInv

\* A session that is torn down gives back what it was promised.
LEMMA PromiseEnds ==
  ASSUME DInv, LInv, Unchanging', Creating' = Creating,
         NEW t \in Tearing, Tearing' = Tearing \ {t},
         Live' = Live \ {jobs[t].ref},
         \A q \in Live' : contexts'[q] = contexts[q],
         reserved' = Unreserved(jobs[t].gbr),
         \A u \in Creating \cup Tearing' : jobs'[u] = jobs[u]
  PROVE  LInv'
<1> PICK r : r = jobs[t].ref
  OBVIOUS
<1>0. r \in Live /\ jobs[t].gbr = contexts[r].gbr /\ contexts[r].gbr \in Nat
  BY DEF DInv, TornDownOnce, LInv, RatesOwned
<1>1. JobRates' = JobRates
  BY DEF JobRates
<1>2. SumFunction(CtxRates) = SumFunction(CtxRates') + contexts[r].gbr /\ SumFunction(CtxRates') \in Nat
  <2>1. /\ DOMAIN CtxRates = Live /\ DOMAIN CtxRates = DOMAIN CtxRates' \cup {r}
        /\ r \notin DOMAIN CtxRates' /\ DOMAIN CtxRates' \subseteq Live
        /\ \A q \in DOMAIN CtxRates' : CtxRates'[q] \in Nat /\ CtxRates'[q] = CtxRates[q]
        /\ CtxRates[r] = contexts[r].gbr
    BY <1>0 DEF CtxRates, LInv, RatesOwned
  <2>2. IsFiniteSet(DOMAIN CtxRates')
    BY <2>1, TablesFinite, FS_Subset
  <2> PICK f, k : f = CtxRates' /\ k = CtxRates
    OBVIOUS
  <2>q. QED
    BY <1>0, <2>1, <2>2, SumGrows, SumIsNat
<1>3. SumFunction(JobRates) \in Nat
  BY SumsAreNat
<1>4. reserved = SumFunction(CtxRates) + SumFunction(JobRates)
  BY DEF LInv, ReservedIsPromised, Promised, CtxRates, JobRates
<1>5. reserved' = SumFunction(CtxRates') + SumFunction(JobRates)
  BY <1>0, <1>2, <1>3, <1>4 DEF Unreserved
<1>6. ReservedIsPromised'
  BY <1>1, <1>5 DEF ReservedIsPromised, Promised, CtxRates, JobRates
<1>7. \A u \in Tearing' : jobs'[u].ref \in Live'
  BY DEF DInv, TornDownOnce
<1>8. RatesOwned'
  BY <1>7 DEF LInv, RatesOwned
<1>q. QED
  BY <1>6, <1>8 DEF LInv

\* Every step of a handler task.
LEMMA HandlerStepL ==
  ASSUME DInv, LInv, NEW h \in Handlers, SmfStep(h)
  PROVE  LInv'
<1>0. h \in Tasks /\ DOMAIN jobs = Tasks
  BY DEF Tasks, DInv, IInv, Shapes
<1>a. \A job : jobs' = [jobs EXCEPT ![h] = job] =>
        /\ jobs'[h] = job /\ \A u \in Tasks \ {h} : jobs'[u] = jobs[u]
        /\ DOMAIN jobs' = Tasks
  BY <1>0
<1>b. ASSUME NEW job, jobs' = [jobs EXCEPT ![h] = job], UNCHANGED notices, job.op # "refresh"
      PROVE  Unchanging'
  BY <1>a, <1>b DEF LInv, Unchanging
<1>c. ASSUME NEW job, jobs' = [jobs EXCEPT ![h] = job], job.op # "create", jobs[h].op # "create"
      PROVE  Creating' = Creating /\ \A u \in Creating : jobs'[u] = jobs[u]
  BY <1>a, <1>c DEF Creating
<1>d. ASSUME NEW job, jobs' = [jobs EXCEPT ![h] = job], job.op # "teardown", jobs[h].op # "teardown"
      PROVE  Tearing' = Tearing /\ \A u \in Tearing : jobs'[u] = jobs[u]
  BY <1>a, <1>d DEF Tearing
<1>1. ASSUME NEW gbr \in Rates, NEW fromPcf, NEW a, CreateSmContext(h, a, gbr, fromPcf)
      PROVE  LInv'
  <2> PICK job : job = [op |-> "create", ref |-> nextRef, addr |-> a, gbr |-> gbr,
                        policy |-> fromPcf]
    OBVIOUS
  <2>1. /\ jobs[h] = Idle /\ jobs' = [jobs EXCEPT ![h] = job] /\ reserved' = reserved + gbr
        /\ UNCHANGED <<contexts, notices>>
    BY <1>1 DEF CreateSmContext, Authorised, Starts
  <2>2. job.op = "create" /\ job.gbr = gbr /\ Idle.op = "idle" /\ gbr \in Nat
    BY SmfAssumption DEF Idle
  <2>3. Creating' = Creating \cup {h} /\ h \notin Creating
        /\ \A u \in Creating : jobs'[u] = jobs[u]
    BY <1>0, <1>a, <2>1, <2>2 DEF Creating
  <2>4. Tearing' = Tearing /\ \A u \in Tearing : jobs'[u] = jobs[u]
    BY <1>d, <2>1, <2>2
  <2>5. Unchanging' /\ Live' = Live /\ jobs'[h].gbr = gbr
    BY <1>a, <1>b, <2>1, <2>2 DEF Live
  <2>q. QED
    BY <2>1, <2>2, <2>3, <2>4, <2>5, PromisesMore
<1>2. ASSUME NEW gbr, NEW fromPcf, RefuseSmContext(h, gbr, fromPcf)
      PROVE  LInv'
  BY <1>2, UntouchedL DEF RefuseSmContext, Authorised, taskVars
<1>3. CASE CreateRejected(h) \/ CreateTimesOut(h)
  <2>1. /\ jobs[h].op = "create" /\ reserved' = Unreserved(jobs[h].gbr)
        /\ jobs' = [jobs EXCEPT ![h] = Idle] /\ UNCHANGED <<contexts, notices>>
    BY <1>3 DEF CreateRejected, CreateTimesOut, Answered, GivesUp, Abandon, Ends, peerVars
  <2>2. Idle.op = "idle"
    BY DEF Idle
  <2>3. h \in Creating /\ Creating' = Creating \ {h}
        /\ \A u \in Creating \ {h} : jobs'[u] = jobs[u]
    BY <1>0, <1>a, <2>1, <2>2 DEF Creating
  <2>4. Tearing' = Tearing /\ \A u \in Tearing : jobs'[u] = jobs[u]
    BY <1>d, <2>1, <2>2
  <2>5. Unchanging' /\ Live' = Live
    BY <1>b, <2>1, <2>2 DEF Live
  <2>q. QED
    BY <2>1, <2>3, <2>4, <2>5, PromisesLess
<1>4. ASSUME NEW charged, FinishCreate(h, charged)
      PROVE  LInv'
  <2> PICK j : j = jobs[h]
    OBVIOUS
  <2> PICK c : c = [seid |-> n4[h].answer, addr |-> j.addr, gbr |-> j.gbr,
                    policy |-> j.policy, charged |-> charged, gnb |-> FALSE]
    OBVIOUS
  <2>1. /\ j.op = "create"
        /\ contexts' = [r \in Live \cup {j.ref} |-> IF r = j.ref THEN c ELSE contexts[r]]
        /\ jobs' = [jobs EXCEPT ![h] = Idle] /\ UNCHANGED <<reserved, notices>>
    BY <1>4 DEF FinishCreate, Answered, Ends
  <2>2. Idle.op = "idle" /\ c.gbr = j.gbr /\ "gbr" \in DOMAIN c
    BY DEF Idle
  <2>3. h \in Creating /\ Creating' = Creating \ {h}
        /\ \A u \in Creating \ {h} : jobs'[u] = jobs[u]
    BY <1>0, <1>a, <2>1, <2>2 DEF Creating
  <2>4. Tearing' = Tearing /\ \A u \in Tearing : jobs'[u] = jobs[u]
    BY <1>d, <2>1, <2>2
  <2>5. Unchanging'
    BY <1>b, <2>1, <2>2
  <2>6. j.ref \notin Live
    BY <2>3 DEF DInv, IInv, CreatedOnce
  <2>7. Live' = Live \cup {j.ref} /\ contexts'[j.ref] = c
        /\ \A q \in Live : contexts'[q] = contexts[q]
    BY <2>1, <2>6 DEF Live
  <2>q. QED
    BY <2>1, <2>2, <2>3, <2>4, <2>5, <2>6, <2>7, PromiseMoves
<1>5. ASSUME NEW r, ReleaseSmContext(h, r)
      PROVE  LInv'
  <2> PICK c : c = contexts[r]
    OBVIOUS
  <2> PICK job : job = [op |-> "teardown", ref |-> r, addr |-> c.addr, gbr |-> c.gbr,
                        policy |-> c.policy, charged |-> c.charged]
    OBVIOUS
  <2>1. /\ r \in Live /\ jobs[h] = Idle /\ jobs' = [jobs EXCEPT ![h] = job]
        /\ UNCHANGED <<contexts, reserved, notices>>
    BY <1>5 DEF ReleaseSmContext, Teardown, Starts, smfVars, peerVars
  <2>2. job.op = "teardown" /\ job.ref = r /\ job.gbr = contexts[r].gbr /\ Idle.op = "idle"
    BY DEF Idle
  <2>3. Unchanging' /\ Live' = Live /\ Creating' = Creating
        /\ \A u \in Creating : jobs'[u] = jobs[u]
    BY <1>b, <1>c, <2>1, <2>2 DEF Live
  <2>4. \A t \in Tearing' : \/ t \in Tearing /\ jobs'[t] = jobs[t]
                            \/ jobs'[t].gbr = contexts[jobs'[t].ref].gbr /\ jobs'[t].ref \in Live
    BY <1>a, <2>1, <2>2 DEF Tearing
  <2>q. QED
    BY <2>1, <2>3, <2>4, KeepsPromises DEF LInv, RatesOwned
<1>6. ASSUME NEW r, ReleaseUnknown(h, r)
      PROVE  LInv'
  BY <1>6, UntouchedL DEF ReleaseUnknown, smfVars, taskVars
<1>7. ASSUME NEW r \in Refs, RefreshSmPolicy(h, r)
      PROVE  LInv'
  <2>1. notices[r] > 0 /\ notices[r] = 0
    BY <1>7 DEF RefreshSmPolicy, LInv, Unchanging
  <2>q. QED
    BY <2>1
<1>8. ASSUME NEW job, jobs' = [jobs EXCEPT ![h] = job],
             job.op \notin {"create", "teardown", "refresh"},
             jobs[h].op \notin {"create", "teardown"}, UNCHANGED <<reserved, notices>>, Live' = Live,
             \A r \in Live : "gbr" \in DOMAIN contexts'[r] /\ contexts'[r].gbr = contexts[r].gbr
      PROVE  LInv'
  <2>1. /\ Creating' = Creating /\ \A u \in Creating : jobs'[u] = jobs[u]
        /\ Tearing' = Tearing /\ \A u \in Tearing : jobs'[u] = jobs[u]
    BY <1>c, <1>d, <1>8
  <2>2. Unchanging'
    BY <1>b, <1>8
  <2>q. QED
    BY <1>8, <2>1, <2>2, KeepsPromises
<1>9. ASSUME NEW r, NEW active, UpdateSmContext(h, r, active)
      PROVE  LInv'
  <2> PICK job : job = [op |-> "update", ref |-> r, active |-> active]
    OBVIOUS
  <2>1. /\ jobs[h] = Idle /\ jobs' = [jobs EXCEPT ![h] = job]
        /\ UNCHANGED <<contexts, reserved, notices>>
    BY <1>9 DEF UpdateSmContext, Starts, smfVars, peerVars
  <2>2. job.op = "update" /\ Idle.op = "idle"
    BY DEF Idle
  <2>q. QED
    BY <1>8, <2>1, <2>2 DEF Live, LInv, RatesOwned
<1>10. CASE FinishUpdate(h)
  <2>1. /\ jobs[h].op = "update" /\ jobs' = [jobs EXCEPT ![h] = Idle] /\ UNCHANGED <<reserved, notices>>
        /\ contexts' = contexts \/ contexts' = [contexts EXCEPT ![jobs[h].ref].gnb = jobs[h].active]
    BY <1>10 DEF FinishUpdate, Answered, Ends, peerVars
  <2>2. Idle.op = "idle"
    BY DEF Idle
  <2>3. Live' = Live
    BY <2>1 DEF Live
  <2>4. \A r \in Live : "gbr" \in DOMAIN contexts'[r] /\ contexts'[r].gbr = contexts[r].gbr
    BY <2>1 DEF Live, LInv, RatesOwned
  <2>q. QED
    BY <1>8, <2>1, <2>2, <2>3, <2>4
<1>11. CASE UpdateTimesOut(h)
  <2>1. /\ jobs[h].op = "update" /\ jobs' = [jobs EXCEPT ![h] = Idle]
        /\ UNCHANGED <<contexts, reserved, notices>>
    BY <1>11 DEF UpdateTimesOut, GivesUp, Ends, smfVars, peerVars
  <2>2. Idle.op = "idle"
    BY DEF Idle
  <2>q. QED
    BY <1>8, <2>1, <2>2 DEF Live, LInv, RatesOwned
<1>12. CASE FinishRefresh(h)
  BY <1>0, <1>12 DEF FinishRefresh, LInv, Unchanging
<1>q. QED
  BY <1>1, <1>2, <1>3, <1>4, <1>5, <1>6, <1>7, <1>9, <1>10, <1>11, <1>12 DEF SmfStep

\* The end of a teardown.
LEMMA TeardownStepL ==
  ASSUME DInv, LInv, NEW t \in Tasks, TeardownStep(t)
  PROVE  LInv'
<1>0. DOMAIN jobs = Tasks /\ Idle.op = "idle"
  BY DEF DInv, IInv, Shapes, Idle
<1>1. jobs[t].op = "teardown" /\ jobs' = [jobs EXCEPT ![t] = Idle] /\ UNCHANGED notices
  BY DEF TeardownStep, FinishTeardown, TeardownTimesOut, Answered, GivesUp, Ends, peerVars
<1>2. jobs'[t] = Idle /\ \A u \in Tasks \ {t} : jobs'[u] = jobs[u]
  BY <1>0, <1>1
<1>3. /\ t \in Tearing /\ Tearing' = Tearing \ {t} /\ Creating' = Creating
      /\ \A u \in Creating \cup Tearing' : jobs'[u] = jobs[u]
  BY <1>0, <1>1, <1>2 DEF Tearing, Creating
<1>4. Unchanging'
  BY <1>0, <1>1, <1>2 DEF LInv, Unchanging
<1>5. CASE FinishTeardown(t)
  <2>1. contexts' = Restrict(contexts, Live \ {jobs[t].ref}) /\ reserved' = Unreserved(jobs[t].gbr)
    BY <1>5 DEF FinishTeardown, Frees
  <2>2. Live' = Live \ {jobs[t].ref} /\ \A q \in Live' : contexts'[q] = contexts[q]
    BY <2>1 DEF Restrict, Live
  <2>q. QED
    BY <1>3, <1>4, <2>1, <2>2, PromiseEnds
<1>6. CASE TeardownTimesOut(t)
  <2>1. UNCHANGED <<contexts, reserved>>
    BY <1>6 DEF TeardownTimesOut, smfVars
  <2>q. QED
    BY <1>3, <1>4, <2>1, KeepsPromises DEF Live, LInv, RatesOwned
<1>q. QED
  BY <1>5, <1>6 DEF TeardownStep

\* While it is calm and no policy changes, every step keeps the ledger.
LEMMA NextLInv ==
  ASSUME MaxReports = 0, MaxRestarts = 0, MaxChanges = 0, DInv, Calm, LInv, [Next]_vars
  PROVE  LInv'
<1>1. ASSUME NEW h \in Handlers, SmfStep(h)
      PROVE  LInv'
  BY <1>1, HandlerStepL
<1>2. ASSUME NEW t \in Tasks, TeardownStep(t)
      PROVE  LInv'
  BY <1>2, TeardownStepL
<1>3. ASSUME NEW t \in Tasks, UpfHandles(t)
      PROVE  LInv'
  BY <1>3, UntouchedL DEF UpfHandles, smfVars, peerVars
<1>4. ASSUME NEW q, UpfHandlesLate(q)
      PROVE  LInv'
  BY <1>4, UntouchedL DEF UpfHandlesLate, smfVars, taskVars, peerVars
<1>5. ASSUME NEW r, NEW gbr, QuotaSpent(r) \/ PcfDecides(r, gbr)
      PROVE  LInv'
  <2>1. {count["report"], count["change"]} \subseteq Nat
        /\ (count["report"] < 0 \/ count["change"] < 0)
    BY <1>5 DEF QuotaSpent, PcfDecides, Happens, Calm, Kinds
  <2>q. QED
    BY <2>1
<1>6. CASE HeartbeatStep
  <2>1. PICK job \in {Idle, [op |-> "heartbeat"]} :
          /\ jobs' = [jobs EXCEPT !["heartbeat"] = job]
          /\ UNCHANGED <<contexts, reserved, notices>>
    BY <1>6, HeartbeatCalm DEF DInv
  <2>2. /\ job.op \notin {"create", "teardown", "refresh"} /\ jobs["heartbeat"].op \notin {"create", "teardown"}
        /\ "heartbeat" \in Tasks /\ DOMAIN jobs = Tasks
    BY DEF Idle, Calm, Tasks, DInv, IInv, Shapes
  <2>3. jobs'["heartbeat"] = job /\ \A u \in Tasks \ {"heartbeat"} : jobs'[u] = jobs[u]
    BY <2>1, <2>2
  <2>4. /\ Creating' = Creating /\ Tearing' = Tearing
        /\ \A u \in Creating \cup Tearing : jobs'[u] = jobs[u]
    BY <2>2, <2>3 DEF Creating, Tearing
  <2>5. Unchanging'
    BY <2>1, <2>2, <2>3 DEF LInv, Unchanging
  <2>q. QED
    BY <2>1, <2>4, <2>5, KeepsPromises DEF Live, LInv, RatesOwned
<1>7. CASE UpfRestarts
  BY <1>7, UntouchedL DEF UpfRestarts, smfVars, taskVars, peerVars
<1>8. CASE UNCHANGED vars
  BY <1>8, UntouchedL DEF vars, smfVars, taskVars, peerVars
<1>q. QED
  BY <1>1, <1>2, <1>3, <1>4, <1>5, <1>6, <1>7, <1>8 DEF Next

\* try_reserve_gfbr, release_gfbr: for any budget, rates, tasks, sessions, N4 losses and
\* late requests what is reserved is what sessions, present and coming, were promised, so
\* release_gfbr never saturates: as long as no quota runs out, no UPF restarts and no policy
\* changes (each can have a session give back a rate twice, or another than its own).
THEOREM LedgerBalances ==
  ASSUME MaxReports = 0, MaxRestarts = 0, MaxChanges = 0
  PROVE  Spec => []ReservedIsPromised
<1>1. Init => Calm
  BY DEF Init, Calm, Tasks
<1>2. (DInv /\ Calm /\ LInv) /\ [Next]_vars => (DInv /\ Calm /\ LInv)'
  BY NextDInv, NextCalm, NextLInv DEF DInv
<1>3. LInv => ReservedIsPromised
  BY DEF LInv
<1>q. QED
  BY <1>1, <1>2, <1>3, InitDInv, InitLInv, PTL DEF Spec

-----------------------------------------------------------------------------
(* Downlink data goes to the UE it is for *)

\* The session an UP-SEID names, if it is still there, is the one of reference r.
Names(s, r) ==
    s \in Int /\ s < nextSeid /\ (s \in Seids /\ sessions[s] # None => sessions[s].owner = r)

\* A modification under way gives a session its own tunnel, or none.
ModifiesOwn(q) ==
    q.type = "modify" =>
      \/ q.gnb = None /\ q.seid \in Int /\ q.seid < nextSeid
      \/ Names(q.seid, q.gnb)

\* What a task knows of its exchange: its request, and the UP-SEID it was given.
ExchangeOwn(t) ==
    n4[t] # None =>
      /\ DOMAIN n4[t] = {"request", "answer"} /\ n4[t] = [x \in DOMAIN n4[t] |-> n4[t][x]]
      /\ ModifiesOwn(n4[t].request)
      /\ jobs[t].op = "create" =>
           /\ n4[t].request.type = "establish" /\ n4[t].request.ref = jobs[t].ref
           /\ n4[t].answer \notin {None, 0} => Names(n4[t].answer, jobs[t].ref)

\* An UP-SEID is given out once, so whoever holds one names the session it was
\* given for.
OInv ==
    /\ DOMAIN jobs = Tasks /\ DOMAIN n4 = Tasks /\ DOMAIN sessions = Seids
    /\ nextSeid \in Int
    /\ \A s \in Seids : sessions[s] # None =>
         /\ s < nextSeid /\ sessions[s].downlink \in {None, sessions[s].owner}
         /\ {"owner", "downlink"} \subseteq DOMAIN sessions[s]
    /\ \A r \in Live : "seid" \in DOMAIN contexts[r] /\ Names(contexts[r].seid, r)
    /\ \A q \in late : ModifiesOwn(q)
    /\ \A t \in Tasks : ExchangeOwn(t)

\* A UPF that starts has no session.
LEMMA InitOInv == Init => OInv
BY DEF Init, OInv, Live, ExchangeOwn

\* A request at the UPF: a session keeps its owner, a new one has an UP-SEID of
\* its own.
LEMMA UpfDoesOwn ==
  ASSUME OInv, NEW q, ModifiesOwn(q), UpfDoes(q)
  PROVE  /\ nextSeid' \in Int /\ DOMAIN sessions' = Seids
         /\ \A s \in Seids : sessions'[s] # None =>
              /\ s < nextSeid' /\ sessions'[s].downlink \in {None, sessions'[s].owner}
              /\ {"owner", "downlink"} \subseteq DOMAIN sessions'[s]
         /\ \A s, r : Names(s, r) => Names(s, r)'
         /\ \A p : ModifiesOwn(p) => ModifiesOwn(p)'
         /\ \A a : a = Answer(q) /\ q.type = "establish" /\ a \notin {None, 0}
                => Names(a, q.ref)'
<1> DEFINE up == [addr |-> q.addr, owner |-> q.ref, downlink |-> None]
<1>0. up.owner = q.ref /\ up.downlink = None /\ {"owner", "downlink"} \subseteq DOMAIN up
  OBVIOUS
<1>1. CASE q.type = "establish" /\ Answer(q) # 0
  <2>1. Answer(q) = nextSeid
    BY <1>1 DEF Answer
  <2>2. sessions' = [sessions EXCEPT ![nextSeid] = up] /\ nextSeid' = nextSeid + 1
    BY <1>1 DEF UpfDoes
  <2> HIDE DEF up
  <2>3. \A s \in Seids : sessions'[s] = IF s = nextSeid THEN up ELSE sessions[s]
    BY <2>2 DEF OInv
  <2>4. \A s, r : Names(s, r) => Names(s, r)'
    BY <2>2, <2>3 DEF Names, OInv, Seids
  <2>5. \A p : ModifiesOwn(p) => ModifiesOwn(p)'
    BY <2>2, <2>4 DEF ModifiesOwn, OInv
  <2>6. \A a : a = nextSeid => Names(a, q.ref)'
    BY <2>2, <2>3, <1>0 DEF Names, OInv
  <2>7. \A s \in Seids : sessions'[s] # None =>
          /\ s < nextSeid' /\ sessions'[s].downlink \in {None, sessions'[s].owner}
          /\ {"owner", "downlink"} \subseteq DOMAIN sessions'[s]
    <3> SUFFICES ASSUME NEW s \in Seids, sessions'[s] # None
                 PROVE  /\ s < nextSeid' /\ sessions'[s].downlink \in {None, sessions'[s].owner}
                        /\ {"owner", "downlink"} \subseteq DOMAIN sessions'[s]
      OBVIOUS
    <3>1. CASE s = nextSeid
      BY <2>2, <2>3, <3>1, <1>0 DEF OInv
    <3>2. CASE s # nextSeid
      BY <2>2, <2>3, <3>2 DEF OInv, Seids
    <3>q. QED
      BY <3>1, <3>2
  <2>8. nextSeid' \in Int /\ DOMAIN sessions' = Seids
    BY <2>2 DEF OInv
  <2>q. QED
    BY <2>1, <2>4, <2>5, <2>6, <2>7, <2>8
<1>2. CASE ~(q.type = "establish" /\ Answer(q) # 0)
  <2>1. nextSeid' = nextSeid
    BY <1>2 DEF UpfDoes
  <2>2. /\ DOMAIN sessions' = Seids
        /\ \A s \in Seids : sessions'[s] # None =>
             /\ sessions[s] # None /\ sessions'[s].owner = sessions[s].owner
             /\ sessions'[s].downlink \in {None, sessions[s].owner}
             /\ {"owner", "downlink"} \subseteq DOMAIN sessions'[s]
    <3>1. CASE q.type = "modify" /\ sessions[q.seid] # None /\ q.seid \in Seids
      <4> PICK d : d = [sessions[q.seid] EXCEPT !.downlink = q.gnb]
        OBVIOUS
      <4>1. q.gnb \in {None, sessions[q.seid].owner}
        BY <3>1 DEF ModifiesOwn, Names
      <4>2. d.owner = sessions[q.seid].owner /\ d.downlink = q.gnb
            /\ {"owner", "downlink"} \subseteq DOMAIN d
        BY <3>1 DEF OInv
      <4>3. sessions' = [sessions EXCEPT ![q.seid] = d]
        BY <3>1 DEF UpfDoes
      <4>q. QED
        BY <3>1, <4>1, <4>2, <4>3 DEF OInv
    <3>2. CASE q.type = "delete" /\ q.seid \in Seids
      <4>1. sessions' = [sessions EXCEPT ![q.seid] = None]
        BY <3>2 DEF UpfDoes
      <4>q. QED
        BY <3>2, <4>1 DEF OInv
    <3>3. CASE ~(q.type = "modify" /\ sessions[q.seid] # None /\ q.seid \in Seids)
               /\ ~(q.type = "delete" /\ q.seid \in Seids)
      <4>1. DOMAIN sessions' = Seids /\ \A s \in Seids : sessions'[s] = sessions[s]
        BY <1>2, <3>3 DEF UpfDoes, OInv
      <4>q. QED
        BY <4>1 DEF OInv
    <3>q. QED
      BY <3>1, <3>2, <3>3
  <2>3. \A s, r : Names(s, r) => Names(s, r)'
    BY <2>1, <2>2 DEF Names
  <2>4. \A p : ModifiesOwn(p) => ModifiesOwn(p)'
    BY <2>1, <2>3 DEF ModifiesOwn
  <2>5. ~(q.type = "establish" /\ Answer(q) \notin {None, 0})
    BY <1>2
  <2>q. QED
    BY <2>1, <2>2, <2>3, <2>4, <2>5 DEF OInv
<1>q. QED
  BY <1>1, <1>2

\* The UPF handles the request of a task that waits, or one that nobody awaits.
LEMMA UpfStepOwn ==
  ASSUME OInv, (\E t \in Tasks : UpfHandles(t)) \/ (\E q \in late : UpfHandlesLate(q))
  PROVE  OInv'
<1>1. ASSUME NEW t \in Tasks, UpfHandles(t)
      PROVE  OInv'
  <2>1. /\ n4[t] # None /\ UpfDoes(n4[t].request)
        /\ n4' = [n4 EXCEPT ![t].answer = Answer(n4[t].request)]
        /\ UNCHANGED <<contexts, jobs, late>>
    BY <1>1 DEF UpfHandles, smfVars
  <2> PICK q : q = n4[t].request
    OBVIOUS
  <2> PICK a : a = Answer(q)
    OBVIOUS
  <2> PICK x : x = [n4[t] EXCEPT !.answer = a]
    OBVIOUS
  <2>2. ModifiesOwn(q)
    BY <2>1 DEF OInv, ExchangeOwn
  <2>3. /\ nextSeid' \in Int /\ DOMAIN sessions' = Seids
        /\ \A s \in Seids : sessions'[s] # None =>
             /\ s < nextSeid' /\ sessions'[s].downlink \in {None, sessions'[s].owner}
             /\ {"owner", "downlink"} \subseteq DOMAIN sessions'[s]
        /\ \A s, r : Names(s, r) => Names(s, r)'
        /\ \A p : ModifiesOwn(p) => ModifiesOwn(p)'
        /\ q.type = "establish" /\ a \notin {None, 0} => Names(a, q.ref)'
    BY <2>1, <2>2, UpfDoesOwn
  <2>4. n4' = [n4 EXCEPT ![t] = x]
    BY <2>1
  <2>5. /\ DOMAIN x = {"request", "answer"} /\ x = [y \in DOMAIN x |-> x[y]]
        /\ x.request = q /\ x.answer = a
    BY <2>1 DEF OInv, ExchangeOwn
  <2>6. ExchangeOwn(t)'
    <3>1. n4'[t] = x /\ jobs' = jobs
      BY <2>1, <2>4 DEF OInv
    <3>2. jobs[t].op = "create" => q.type = "establish" /\ q.ref = jobs[t].ref
      BY <2>1 DEF OInv, ExchangeOwn
    <3>q. QED
      BY <3>1, <3>2, <2>2, <2>3, <2>5 DEF ExchangeOwn
  <2>7. \A u \in Tasks \ {t} : ExchangeOwn(u)'
    <3> SUFFICES ASSUME NEW u \in Tasks \ {t}
                 PROVE  ExchangeOwn(u)'
      OBVIOUS
    <3>1. n4'[u] = n4[u] /\ jobs' = jobs /\ ExchangeOwn(u)
      BY <2>1, <2>4 DEF OInv
    <3>q. QED
      BY <3>1, <2>3 DEF ExchangeOwn
  <2>8. DOMAIN n4' = Tasks /\ DOMAIN jobs' = Tasks
    BY <2>1, <2>4 DEF OInv
  <2>q. QED
    BY <2>1, <2>3, <2>6, <2>7, <2>8 DEF OInv, Live
<1>2. ASSUME NEW q \in late, UpfHandlesLate(q)
      PROVE  OInv'
  <2>1. UpfDoes(q) /\ late' \subseteq late /\ UNCHANGED <<contexts, jobs, n4>> /\ ModifiesOwn(q)
    BY <1>2 DEF UpfHandlesLate, smfVars, taskVars, OInv
  <2>2. /\ nextSeid' \in Int /\ DOMAIN sessions' = Seids
        /\ \A s \in Seids : sessions'[s] # None =>
             /\ s < nextSeid' /\ sessions'[s].downlink \in {None, sessions'[s].owner}
             /\ {"owner", "downlink"} \subseteq DOMAIN sessions'[s]
        /\ \A s, r : Names(s, r) => Names(s, r)'
        /\ \A p : ModifiesOwn(p) => ModifiesOwn(p)'
    BY <2>1, UpfDoesOwn
  <2>3. \A u \in Tasks : ExchangeOwn(u)'
    <3> SUFFICES ASSUME NEW u \in Tasks
                 PROVE  ExchangeOwn(u)'
      OBVIOUS
    <3>1. n4'[u] = n4[u] /\ jobs' = jobs /\ ExchangeOwn(u)
      BY <2>1 DEF OInv
    <3>q. QED
      BY <3>1, <2>2 DEF ExchangeOwn
  <2>q. QED
    BY <2>1, <2>2, <2>3 DEF OInv, Live
<1>q. QED
  BY <1>1, <1>2

\* A step of the SMF: a context that is there after it was there before or has the
\* UP-SEID its task was given, and the tasks' exchanges are still their own.
LEMMA SmfStepOwn ==
  ASSUME OInv, UNCHANGED <<sessions, nextSeid>>,
         DOMAIN jobs' = Tasks, DOMAIN n4' = Tasks,
         \A r \in Live' : \/ r \in Live /\ contexts'[r].seid = contexts[r].seid
                             /\ "seid" \in DOMAIN contexts'[r]
                          \/ Names(contexts'[r].seid, r) /\ "seid" \in DOMAIN contexts'[r],
         \A q \in late' : q \in late \/ \E t \in Tasks : n4[t] # None /\ q = n4[t].request,
         \A t \in Tasks : ExchangeOwn(t)'
  PROVE  OInv'
<1>1. \A s, r : Names(s, r)' <=> Names(s, r)
  BY DEF Names
<1>2. \A q : ModifiesOwn(q)' <=> ModifiesOwn(q)
  BY <1>1 DEF ModifiesOwn
<1>3. \A q \in late' : ModifiesOwn(q)'
  BY <1>2 DEF OInv, ExchangeOwn
<1>4. \A r \in Live' : "seid" \in DOMAIN contexts'[r] /\ Names(contexts[r].seid, r)'
  BY <1>1 DEF OInv, Names
<1>q. QED
  BY <1>3, <1>4 DEF OInv

\* A task that takes up other work, or none.
LEMMA TaskOwn ==
  ASSUME OInv, UNCHANGED <<sessions, nextSeid>>, NEW t \in Tasks, NEW job, NEW x,
         jobs' = [jobs EXCEPT ![t] = job],
         n4' = [n4 EXCEPT ![t] = x] \/ (n4' = n4 /\ x = n4[t]),
         \/ x = None
         \/ \E q : /\ x = [request |-> q, answer |-> None] /\ ModifiesOwn(q)
                   /\ job.op = "create" => q.type = "establish" /\ q.ref = job.ref
         \/ x = n4[t] /\ job.op # "create"
  PROVE  /\ DOMAIN jobs' = Tasks /\ DOMAIN n4' = Tasks
         /\ \A u \in Tasks : ExchangeOwn(u)'
<1>1. /\ jobs'[t] = job /\ n4'[t] = x
      /\ \A u \in Tasks \ {t} : jobs'[u] = jobs[u] /\ n4'[u] = n4[u]
      /\ DOMAIN jobs' = Tasks /\ DOMAIN n4' = Tasks
  BY DEF OInv
<1>2. \A q : ModifiesOwn(q)' <=> ModifiesOwn(q)
  BY DEF ModifiesOwn, Names
<1>3. \A s, r : Names(s, r)' <=> Names(s, r)
  BY DEF Names
<1>4. \A u \in Tasks \ {t} : ExchangeOwn(u)'
  BY <1>1, <1>2, <1>3 DEF OInv, ExchangeOwn
<1>5. ExchangeOwn(t)'
  <2>1. CASE x = None
    BY <1>1, <2>1 DEF ExchangeOwn
  <2>2. ASSUME NEW q, x = [request |-> q, answer |-> None], ModifiesOwn(q),
               job.op = "create" => q.type = "establish" /\ q.ref = job.ref
        PROVE  ExchangeOwn(t)'
    <3>1. x.request = q /\ x.answer = None /\ DOMAIN x = {"request", "answer"}
          /\ x = [y \in DOMAIN x |-> x[y]]
      BY <2>2
    <3>q. QED
      BY <1>1, <1>2, <2>2, <3>1 DEF ExchangeOwn
  <2>3. CASE x = n4[t] /\ job.op # "create"
    BY <1>1, <1>2, <2>3 DEF OInv, ExchangeOwn
  <2>q. QED
    BY <2>1, <2>2, <2>3
<1>q. QED
  BY <1>1, <1>4, <1>5

\* A task whose work is over; the contexts are as before, or fewer.
LEMMA EndsOwn ==
  ASSUME OInv, UNCHANGED <<sessions, nextSeid>>, NEW t \in Tasks, Ends(t),
         \A r \in Live' : r \in Live /\ contexts'[r] = contexts[r],
         late' = late \/ (n4[t] # None /\ late' = late \cup {n4[t].request})
  PROVE  OInv'
<1>1. /\ DOMAIN jobs' = Tasks /\ DOMAIN n4' = Tasks
      /\ \A u \in Tasks : ExchangeOwn(u)'
  BY TaskOwn DEF Ends
<1>2. \A r \in Live' : r \in Live /\ contexts'[r].seid = contexts[r].seid
                       /\ "seid" \in DOMAIN contexts'[r]
  BY DEF OInv
<1>q. QED
  BY <1>1, <1>2, SmfStepOwn

\* A task that takes up work with a request.
LEMMA StartsOwn ==
  ASSUME OInv, UNCHANGED <<sessions, nextSeid, contexts, late>>, NEW t \in Tasks,
         NEW job, NEW q, Starts(t, job, q), ModifiesOwn(q),
         job.op = "create" => q.type = "establish" /\ q.ref = job.ref
  PROVE  OInv'
<1>1. jobs' = [jobs EXCEPT ![t] = job] /\ n4' = [n4 EXCEPT ![t] = [request |-> q, answer |-> None]]
  BY DEF Starts, Sent
<1>2. /\ DOMAIN jobs' = Tasks /\ DOMAIN n4' = Tasks
      /\ \A u \in Tasks : ExchangeOwn(u)'
  BY <1>1, TaskOwn
<1>3. \A r \in Live' : r \in Live /\ contexts'[r].seid = contexts[r].seid
                       /\ "seid" \in DOMAIN contexts'[r]
  BY DEF OInv, Live
<1>q. QED
  BY <1>2, <1>3, SmfStepOwn

\* A teardown begins with the deletion of the session.
LEMMA TeardownOwn ==
  ASSUME OInv, NEW t \in Tasks, NEW r, Teardown(t, r),
         UNCHANGED <<sessions, nextSeid, contexts, late>>
  PROVE  OInv'
<1> PICK c : c = contexts[r]
  OBVIOUS
<1> PICK job : job = [op |-> "teardown", ref |-> r, addr |-> c.addr, gbr |-> c.gbr,
                      policy |-> c.policy, charged |-> c.charged]
  OBVIOUS
<1> PICK q : q = [type |-> "delete", seid |-> c.seid]
  OBVIOUS
<1>1. Starts(t, job, q)
  BY DEF Teardown
<1>2. job.op # "create" /\ ModifiesOwn(q)
  BY DEF ModifiesOwn
<1>q. QED
  BY <1>1, <1>2, StartsOwn

\* Nothing of this happens.
LEMMA StillOwn ==
  ASSUME OInv, UNCHANGED <<sessions, nextSeid, contexts, late, jobs, n4>>
  PROVE  OInv'
BY DEF OInv, Live, ExchangeOwn, ModifiesOwn, Names

\* Every step of a handler task.
LEMMA HandlerOwn ==
  ASSUME OInv, NEW h \in Handlers, SmfStep(h)
  PROVE  OInv'
<1>0. h \in Tasks
  BY DEF Tasks
<1>1. ASSUME NEW gbr, NEW fromPcf, NEW a, CreateSmContext(h, a, gbr, fromPcf)
      PROVE  OInv'
  <2> PICK job : job = [op |-> "create", ref |-> nextRef, addr |-> a, gbr |-> gbr,
                        policy |-> fromPcf]
    OBVIOUS
  <2> PICK q : q = [type |-> "establish", ref |-> nextRef, addr |-> a]
    OBVIOUS
  <2>1. Starts(h, job, q) /\ UNCHANGED <<sessions, nextSeid, contexts, late>>
    BY <1>1 DEF CreateSmContext, upfVars
  <2>2. job.ref = nextRef /\ q.type = "establish" /\ q.ref = nextRef
    OBVIOUS
  <2>3. ModifiesOwn(q)
    BY <2>2 DEF ModifiesOwn
  <2>q. QED
    BY <1>0, <2>1, <2>2, <2>3, StartsOwn
<1>2. ASSUME NEW gbr, NEW fromPcf, RefuseSmContext(h, gbr, fromPcf)
      PROVE  OInv'
  BY <1>2, StillOwn DEF RefuseSmContext, taskVars, upfVars
<1>3. CASE CreateRejected(h)
  <2>1. Ends(h) /\ UNCHANGED <<sessions, nextSeid, contexts, late>>
    BY <1>3 DEF CreateRejected, upfVars
  <2>q. QED
    BY <1>0, <2>1, EndsOwn DEF Live
<1>4. CASE CreateTimesOut(h)
  <2>1. Ends(h) /\ GivesUp(h, "create") /\ UNCHANGED <<sessions, nextSeid, contexts>>
    BY <1>4 DEF CreateTimesOut, upfVars
  <2>q. QED
    BY <1>0, <2>1, EndsOwn DEF GivesUp, Live
<1>5. ASSUME NEW charged, FinishCreate(h, charged)
      PROVE  OInv'
  <2> PICK j : j = jobs[h]
    OBVIOUS
  <2> PICK c : c = [seid |-> n4[h].answer, addr |-> j.addr, gbr |-> j.gbr,
                    policy |-> j.policy, charged |-> charged, gnb |-> FALSE]
    OBVIOUS
  <2>1. /\ Answered(h, "create") /\ n4[h].answer # 0
        /\ contexts' = [r \in Live \cup {j.ref} |-> IF r = j.ref THEN c ELSE contexts[r]]
        /\ Ends(h)
        /\ UNCHANGED <<sessions, nextSeid, late>>
    BY <1>5 DEF FinishCreate, upfVars
  <2>2. c.seid = n4[h].answer /\ "seid" \in DOMAIN c
    OBVIOUS
  <2>3. Names(c.seid, j.ref)
    BY <1>0, <2>1, <2>2 DEF Answered, OInv, ExchangeOwn
  <2>4. \A r \in Live' : \/ r \in Live /\ contexts'[r].seid = contexts[r].seid
                            /\ "seid" \in DOMAIN contexts'[r]
                         \/ Names(contexts'[r].seid, r) /\ "seid" \in DOMAIN contexts'[r]
    BY <2>1, <2>2, <2>3 DEF Live, OInv
  <2>5. /\ DOMAIN jobs' = Tasks /\ DOMAIN n4' = Tasks
        /\ \A u \in Tasks : ExchangeOwn(u)'
    BY <1>0, <2>1, TaskOwn DEF Ends
  <2>q. QED
    BY <2>1, <2>4, <2>5, SmfStepOwn
<1>6. ASSUME NEW r, ReleaseSmContext(h, r)
      PROVE  OInv'
  <2>1. Teardown(h, r) /\ UNCHANGED <<sessions, nextSeid, contexts, late>>
    BY <1>6 DEF ReleaseSmContext, smfVars, upfVars
  <2>q. QED
    BY <1>0, <2>1, TeardownOwn
<1>7. ASSUME NEW r, ReleaseUnknown(h, r)
      PROVE  OInv'
  BY <1>7, StillOwn DEF ReleaseUnknown, smfVars, taskVars, upfVars
<1>8. ASSUME NEW r, RefreshSmPolicy(h, r)
      PROVE  OInv'
  <2>0. UNCHANGED <<sessions, nextSeid, contexts, late, n4>>
    BY <1>8 DEF RefreshSmPolicy, smfVars, upfVars
  <2>1. CASE jobs' = jobs
    BY <2>0, <2>1, StillOwn
  <2>2. CASE jobs' # jobs
    <3> PICK job : job = [op |-> "refresh", ref |-> r, gbr |-> rate[r]]
      OBVIOUS
    <3>1. jobs' = [jobs EXCEPT ![h] = job] /\ job.op = "refresh"
      BY <1>8, <2>2 DEF RefreshSmPolicy
    <3>2. n4' = n4 /\ job.op # "create"
      BY <2>0, <3>1
    <3>3. /\ DOMAIN jobs' = Tasks /\ DOMAIN n4' = Tasks
          /\ \A u \in Tasks : ExchangeOwn(u)'
      BY <1>0, <2>0, <3>1, <3>2, TaskOwn
    <3>4. \A q \in Live' : q \in Live /\ contexts'[q].seid = contexts[q].seid
                           /\ "seid" \in DOMAIN contexts'[q]
      BY <2>0 DEF OInv, Live
    <3>q. QED
      BY <2>0, <3>3, <3>4, SmfStepOwn
  <2>q. QED
    BY <2>1, <2>2
<1>9. ASSUME NEW r, NEW active, UpdateSmContext(h, r, active)
      PROVE  OInv'
  <2> PICK job : job = [op |-> "update", ref |-> r, active |-> active]
    OBVIOUS
  <2> PICK g : g = IF active THEN r ELSE None
    OBVIOUS
  <2> PICK q : q = [type |-> "modify", seid |-> contexts[r].seid, gnb |-> g]
    OBVIOUS
  <2>1. Starts(h, job, q) /\ r \in Live /\ UNCHANGED <<sessions, nextSeid, contexts, late>>
    BY <1>9 DEF UpdateSmContext, smfVars, upfVars
  <2>2. job.op = "update" /\ q.seid = contexts[r].seid /\ q.gnb = g
    OBVIOUS
  <2>3. ModifiesOwn(q)
    BY <2>1, <2>2 DEF ModifiesOwn, OInv, Names
  <2>q. QED
    BY <1>0, <2>1, <2>2, <2>3, StartsOwn
<1>10. CASE FinishUpdate(h)
  <2>1. /\ Ends(h) /\ UNCHANGED <<sessions, nextSeid, late>>
        /\ \/ contexts' = contexts
           \/ contexts' = [contexts EXCEPT ![jobs[h].ref].gnb = jobs[h].active]
    BY <1>10 DEF FinishUpdate, upfVars
  <2>2. \A r \in Live' : r \in Live /\ contexts'[r].seid = contexts[r].seid
                         /\ "seid" \in DOMAIN contexts'[r]
    BY <2>1 DEF Live, OInv
  <2>3. /\ DOMAIN jobs' = Tasks /\ DOMAIN n4' = Tasks
        /\ \A u \in Tasks : ExchangeOwn(u)'
    BY <1>0, <2>1, TaskOwn DEF Ends
  <2>q. QED
    BY <2>1, <2>2, <2>3, SmfStepOwn
<1>11. CASE UpdateTimesOut(h)
  <2>1. Ends(h) /\ GivesUp(h, "update") /\ UNCHANGED <<sessions, nextSeid, contexts>>
    BY <1>11 DEF UpdateTimesOut, smfVars, upfVars
  <2>q. QED
    BY <1>0, <2>1, EndsOwn DEF GivesUp, Live
<1>12. CASE FinishRefresh(h)
  <2>1. /\ Ends(h) /\ UNCHANGED <<sessions, nextSeid, late>>
        /\ \/ contexts' = contexts
           \/ contexts' = [contexts EXCEPT ![jobs[h].ref].gbr = jobs[h].gbr]
    BY <1>12 DEF FinishRefresh, upfVars
  <2>2. \A r \in Live' : r \in Live /\ contexts'[r].seid = contexts[r].seid
                         /\ "seid" \in DOMAIN contexts'[r]
    BY <2>1 DEF Live, OInv
  <2>3. /\ DOMAIN jobs' = Tasks /\ DOMAIN n4' = Tasks
        /\ \A u \in Tasks : ExchangeOwn(u)'
    BY <1>0, <2>1, TaskOwn DEF Ends
  <2>q. QED
    BY <2>1, <2>2, <2>3, SmfStepOwn
<1>q. QED
  BY <1>1, <1>2, <1>3, <1>4, <1>5, <1>6, <1>7, <1>8, <1>9, <1>10, <1>11, <1>12 DEF SmfStep

\* Every step of the heartbeat task.
LEMMA HeartbeatOwn ==
  ASSUME OInv, HeartbeatStep
  PROVE  OInv'
<1>0. "heartbeat" \in Tasks
  BY DEF Tasks
<1>1. CASE Heartbeat
  <2>1. Starts("heartbeat", [op |-> "heartbeat"], [type |-> "heartbeat"])
        /\ UNCHANGED <<sessions, nextSeid, contexts, late>>
    BY <1>1 DEF Heartbeat, smfVars, upfVars
  <2>2. ModifiesOwn([type |-> "heartbeat"]) /\ [op |-> "heartbeat"].op # "create"
    BY DEF ModifiesOwn
  <2>q. QED
    BY <1>0, <2>1, <2>2, StartsOwn
<1>2. CASE HeartbeatAnswered
  <2>0. UNCHANGED <<sessions, nextSeid, contexts, late>>
    BY <1>2 DEF HeartbeatAnswered, upfVars
  <2>1. CASE Ends("heartbeat")
    BY <1>0, <2>0, <2>1, EndsOwn DEF Live
  <2>2. CASE ~Ends("heartbeat")
    <3> PICK job : job = [op |-> "recover"]
      OBVIOUS
    <3> PICK q : q = [type |-> "associate"]
      OBVIOUS
    <3>1. /\ jobs' = [jobs EXCEPT !["heartbeat"] = job]
          /\ n4' = [n4 EXCEPT !["heartbeat"] = [request |-> q, answer |-> None]]
      BY <1>2, <2>2 DEF HeartbeatAnswered, Sent
    <3>2. job.op # "create" /\ ModifiesOwn(q)
      BY DEF ModifiesOwn
    <3>3. /\ DOMAIN jobs' = Tasks /\ DOMAIN n4' = Tasks
          /\ \A u \in Tasks : ExchangeOwn(u)'
      BY <1>0, <2>0, <3>1, <3>2, TaskOwn
    <3>4. \A r \in Live' : r \in Live /\ contexts'[r].seid = contexts[r].seid
                           /\ "seid" \in DOMAIN contexts'[r]
      BY <2>0 DEF OInv, Live
    <3>q. QED
      BY <2>0, <3>3, <3>4, SmfStepOwn
  <2>q. QED
    BY <2>1, <2>2
<1>3. CASE HeartbeatMissed
  <2>1. /\ Ends("heartbeat") /\ GivesUp("heartbeat", "heartbeat")
        /\ UNCHANGED <<sessions, nextSeid, contexts>>
    BY <1>3 DEF HeartbeatMissed, smfVars, upfVars
  <2>q. QED
    BY <1>0, <2>1, EndsOwn DEF GivesUp, Live
<1>4. CASE Recover
  <2>1. /\ Ends("heartbeat") /\ Live' = {}
        /\ UNCHANGED <<sessions, nextSeid, late>>
    BY <1>4 DEF Recover, DropContexts, Restrict, Live, upfVars
  <2>q. QED
    BY <1>0, <2>1, EndsOwn
<1>5. CASE RecoverUnassociated
  <2>1. /\ Ends("heartbeat") /\ Live' = {} /\ GivesUp("heartbeat", "recover")
        /\ UNCHANGED <<sessions, nextSeid>>
    BY <1>5 DEF RecoverUnassociated, DropContexts, Restrict, Live, upfVars
  <2>q. QED
    BY <1>0, <2>1, EndsOwn DEF GivesUp
<1>q. QED
  BY <1>1, <1>2, <1>3, <1>4, <1>5 DEF HeartbeatStep

\* Every step, as long as the UPF does not number its sessions from 1 again.
LEMMA NextOInv ==
  ASSUME MaxRestarts = 0, count["restart"] \in Nat, OInv, [Next]_vars
  PROVE  OInv'
<1>1. ASSUME NEW h \in Handlers, SmfStep(h)
      PROVE  OInv'
  BY <1>1, HandlerOwn
<1>2. ASSUME NEW t \in Tasks, FinishTeardown(t)
      PROVE  OInv'
  <2>1. /\ Ends(t) /\ contexts' = Restrict(contexts, Live \ {jobs[t].ref})
        /\ UNCHANGED <<sessions, nextSeid, late>>
    BY <1>2 DEF FinishTeardown, upfVars
  <2>q. QED
    BY <2>1, EndsOwn DEF Restrict, Live
<1>3. ASSUME NEW t \in Tasks, TeardownTimesOut(t)
      PROVE  OInv'
  <2>1. Ends(t) /\ GivesUp(t, "teardown") /\ UNCHANGED <<sessions, nextSeid, contexts>>
    BY <1>3 DEF TeardownTimesOut, smfVars, upfVars
  <2>q. QED
    BY <2>1, EndsOwn DEF GivesUp, Live
<1>4. CASE (\E t \in Tasks : UpfHandles(t)) \/ (\E q \in late : UpfHandlesLate(q))
  BY <1>4, UpfStepOwn
<1>5. ASSUME NEW r, QuotaSpent(r)
      PROVE  OInv'
  <2>1. Teardown("reports", r) /\ UNCHANGED <<sessions, nextSeid, contexts, late>>
    BY <1>5 DEF QuotaSpent, smfVars, upfVars
  <2>2. "reports" \in Tasks
    BY DEF Tasks
  <2>q. QED
    BY <2>1, <2>2, TeardownOwn
<1>6. ASSUME NEW r, NEW gbr, PcfDecides(r, gbr)
      PROVE  OInv'
  BY <1>6, StillOwn DEF PcfDecides, smfVars, taskVars, upfVars
<1>7. CASE HeartbeatStep
  BY <1>7, HeartbeatOwn
<1>8. CASE UpfRestarts
  <2>1. count["restart"] < 0
    BY <1>8 DEF UpfRestarts, Happens
  <2>q. QED
    BY <2>1
<1>9. CASE UNCHANGED vars
  BY <1>9, StillOwn DEF vars, smfVars, taskVars, upfVars
<1>q. QED
  BY <1>1, <1>2, <1>3, <1>4, <1>5, <1>6, <1>7, <1>8, <1>9 DEF Next, TeardownStep

\* The bounds' counters only count.
LEMMA CountsCount ==
  ASSUME [Next]_vars, count \in [Kinds -> Nat]
  PROVE  count' \in [Kinds -> Nat]
<1>0. \A k \in Kinds : [count EXCEPT ![k] = @ + 1] \in [Kinds -> Nat]
  OBVIOUS
<1>1. SUFFICES UNCHANGED count \/ \E k \in Kinds : count' = [count EXCEPT ![k] = @ + 1]
  BY <1>0
<1>2. {"timeout", "report", "change", "update", "restart"} = Kinds
  BY DEF Kinds
<1>3. ASSUME NEW h \in Tasks, SmfStep(h) \/ TeardownStep(h) \/ UpfHandles(h)
      PROVE  UNCHANGED count \/ \E k \in Kinds : count' = [count EXCEPT ![k] = @ + 1]
  <2>1. CASE CreateRejected(h) \/ CreateTimesOut(h)
    BY <1>2, <2>1 DEF CreateRejected, CreateTimesOut, GivesUp, Happens
  <2>2. CASE FinishUpdate(h) \/ UpdateTimesOut(h) \/ FinishRefresh(h)
    BY <1>2, <2>2 DEF FinishUpdate, UpdateTimesOut, FinishRefresh, GivesUp, Happens
  <2>3. CASE TeardownStep(h) \/ UpfHandles(h)
    BY <1>2, <2>3 DEF TeardownStep, FinishTeardown, TeardownTimesOut, UpfHandles, GivesUp, Happens
  <2>4. ASSUME NEW gbr, NEW fromPcf, NEW a,
               CreateSmContext(h, a, gbr, fromPcf) \/ RefuseSmContext(h, gbr, fromPcf)
        PROVE  UNCHANGED count
    BY <2>4 DEF CreateSmContext, RefuseSmContext
  <2>5. ASSUME NEW charged, FinishCreate(h, charged)
        PROVE  UNCHANGED count
    BY <2>5 DEF FinishCreate
  <2>6. ASSUME NEW r, ReleaseSmContext(h, r) \/ ReleaseUnknown(h, r) \/ RefreshSmPolicy(h, r)
        PROVE  UNCHANGED count
    BY <2>6 DEF ReleaseSmContext, ReleaseUnknown, RefreshSmPolicy
  <2>7. ASSUME NEW r, NEW active, UpdateSmContext(h, r, active)
        PROVE  \E k \in Kinds : count' = [count EXCEPT ![k] = @ + 1]
    BY <1>2, <2>7 DEF UpdateSmContext, Happens
  <2>q. QED
    BY <1>3, <2>1, <2>2, <2>3, <2>4, <2>5, <2>6, <2>7 DEF SmfStep
<1>4. CASE HeartbeatStep \/ UpfRestarts \/ UNCHANGED vars
  BY <1>2, <1>4 DEF HeartbeatStep, Heartbeat, HeartbeatAnswered, HeartbeatMissed, Recover,
     RecoverUnassociated, UpfRestarts, GivesUp, Happens, vars
<1>5. ASSUME NEW q, UpfHandlesLate(q)
      PROVE  UNCHANGED count
  BY <1>5 DEF UpfHandlesLate
<1>6. ASSUME NEW r, NEW gbr, QuotaSpent(r) \/ PcfDecides(r, gbr)
      PROVE  \E k \in Kinds : count' = [count EXCEPT ![k] = @ + 1]
  BY <1>2, <1>6 DEF QuotaSpent, PcfDecides, Happens
<1>q. QED
  BY <1>3, <1>4, <1>5, <1>6 DEF Next, Tasks

\* route_downlink and the AMF's updates: a session of the UPF forwards only to the
\* tunnel of the UE it is for, however many sessions, tasks, losses and late requests
\* there are, until the UPF restarts and numbers its sessions from 1 again.
THEOREM DownlinkGoesHome ==
  ASSUME MaxRestarts = 0
  PROVE  Spec => []DownlinkIsOwners
<1> DEFINE Counted == count \in [Kinds -> Nat]
<1>1. Init => OInv /\ Counted
  BY InitOInv DEF Init
<1>2. (OInv /\ Counted) /\ [Next]_vars => (OInv /\ Counted)'
  <2> SUFFICES ASSUME OInv, Counted, [Next]_vars
               PROVE  OInv' /\ Counted'
    OBVIOUS
  <2>1. count["restart"] \in Nat
    BY DEF Kinds
  <2>q. QED
    BY <2>1, NextOInv, CountsCount
<1>3. OInv => DownlinkIsOwners
  BY DEF OInv, DownlinkIsOwners
<1>q. QED
  BY <1>1, <1>2, <1>3, PTL DEF Spec

=============================================================================
