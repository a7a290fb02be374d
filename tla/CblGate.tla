------------------------------- MODULE CblGate -------------------------------
(***************************************************************************)
(* The AMF's "Come Back Later" admission gate (nf/nf-amf/src/cbl.rs).      *)
(*                                                                         *)
(* One handler per N2 association asks the gate, per InitialUEMessage,     *)
(* whether a new registration may start.  The gate is a set of independent *)
(* atomics, so a load, a store and a compare-exchange are steps of their   *)
(* own.  An admitted registration holds a slot (a unit of C(t)); the slot  *)
(* is given back by its holder's drop or by its decay lease, whichever     *)
(* wins the compare-exchange on SlotLease.released.                        *)
(***************************************************************************)
EXTENDS Integers, FiniteSets

CONSTANTS
    Handlers,       \* N2 association tasks that call CblState::admit
    Operators,      \* OAM requests served by CblState::apply_control
    Slots,          \* admission slots alive at one time (a bound)
    Thresholds,     \* values an operator may set M(t) to
    InitThreshold   \* RADIAN_AMF_CBL_THRESHOLD at start-up

ASSUME ThresholdsAssumption ==
    /\ Thresholds \subseteq Int
    /\ InitThreshold \in Int

ASSUME SlotsAssumption == IsFiniteSet(Slots)

VARIABLES
    enabled,        \* the gate is armed
    threshold,      \* M(t)
    ongoing,        \* C(t)
    maxOvershoot,   \* the largest C(t) - M(t) recorded
    decaying,       \* decay_ms > 0: slots reserved from now on get a lease
    pc,             \* where each handler is in admit()
    cur,            \* admit()'s local copy of ongoing
    seenM,          \* admit()'s local copy of threshold
    oam,            \* where each operator is in set_threshold()
    newM,           \* the threshold the operator asked for
    slot,           \* a slot's holder: free | reserved | held | dropped
    lease,          \* its decay timer: none | armed | done
    releaser,       \* who won SlotLease.released: none | drop | lease, and
                    \* "paid" once that releaser has done its fetch_sub
    highM           \* history: the highest threshold ever in force

gateVars == <<enabled, threshold, ongoing, maxOvershoot, decaying>>
handlerVars == <<pc, cur, seenM>>
oamVars == <<oam, newM>>
slotVars == <<slot, lease, releaser>>
cblVars == <<gateVars, handlerVars, oamVars, slotVars, highM>>

Larger(a, b) == IF a >= b THEN a ELSE b

\* The slots C(t) should be counting: reserved by a won CAS on ongoing, and not
\* yet subtracted by the releaser.
Counted == {s \in Slots : slot[s] # "free" /\ releaser[s] # "paid"}

\* Armed from the environment, or disabled with M = 0 until an OAM request.
CblInit ==
    /\ \/ enabled = TRUE  /\ threshold = InitThreshold
       \/ enabled = FALSE /\ threshold = 0
    /\ ongoing = 0
    /\ maxOvershoot = 0
    /\ decaying \in BOOLEAN
    /\ pc = [h \in Handlers |-> "idle"]
    /\ cur = [h \in Handlers |-> 0]
    /\ seenM = [h \in Handlers |-> 0]
    /\ oam = [o \in Operators |-> "idle"]
    /\ newM = [o \in Operators |-> 0]
    /\ slot = [s \in Slots |-> "free"]
    /\ lease = [s \in Slots |-> "none"]
    /\ releaser = [s \in Slots |-> "none"]
    /\ highM = threshold

-----------------------------------------------------------------------------
(* CblState::admit *)

\* A disabled gate admits without any accounting.
AdmitEnter(h) ==
    /\ pc[h] = "idle"
    /\ enabled
    /\ pc' = [pc EXCEPT ![h] = "loadC"]
    /\ UNCHANGED <<gateVars, cur, seenM, oamVars, slotVars, highM>>

AdmitLoadOngoing(h) ==
    /\ pc[h] = "loadC"
    /\ cur' = [cur EXCEPT ![h] = ongoing]
    /\ pc' = [pc EXCEPT ![h] = "loadM"]
    /\ UNCHANGED <<gateVars, seenM, oamVars, slotVars, highM>>

\* At the threshold the registration is deferred with a CBL indication.
AdmitLoadThreshold(h) ==
    /\ pc[h] = "loadM"
    /\ IF cur[h] >= threshold
       THEN /\ pc' = [pc EXCEPT ![h] = "idle"]
            /\ cur' = [cur EXCEPT ![h] = 0]
            /\ UNCHANGED seenM
       ELSE /\ pc' = [pc EXCEPT ![h] = "cas"]
            /\ seenM' = [seenM EXCEPT ![h] = threshold]
            /\ UNCHANGED cur
    /\ UNCHANGED <<gateVars, oamVars, slotVars, highM>>

\* Mutant: a load and a store in place of the compare-exchange.
AdmitReserveNoCas(h, s) ==
    /\ pc[h] = "cas"
    /\ slot[s] = "free"
    /\ ongoing' = ongoing + 1
    /\ slot' = [slot EXCEPT ![s] = "reserved"]
    /\ pc' = [pc EXCEPT ![h] = "arm"]
    /\ UNCHANGED <<enabled, threshold, maxOvershoot, decaying, cur, seenM,
                   oamVars, lease, releaser, highM>>

\* The compare-exchange on ongoing succeeds and reserves a unit of C(t).
AdmitReserve(h, s) ==
    /\ pc[h] = "cas"
    /\ ongoing = cur[h]
    /\ slot[s] = "free"
    /\ ongoing' = cur[h] + 1
    /\ slot' = [slot EXCEPT ![s] = "reserved"]
    /\ pc' = [pc EXCEPT ![h] = "arm"]
    /\ UNCHANGED <<enabled, threshold, maxOvershoot, decaying, cur, seenM,
                   oamVars, lease, releaser, highM>>

\* The compare-exchange lost to another step on ongoing: reload and retry.
AdmitRetry(h) ==
    /\ pc[h] = "cas"
    /\ ongoing # cur[h]
    /\ pc' = [pc EXCEPT ![h] = "loadC"]
    /\ cur' = [cur EXCEPT ![h] = 0]
    /\ seenM' = [seenM EXCEPT ![h] = 0]
    /\ UNCHANGED <<gateVars, oamVars, slotVars, highM>>

\* record_overshoot and CblSlot::arm: the reserved slot is bound to a UE context
\* and gets a decay timer when a lease is configured.  Reserved slots differ in
\* nothing, so which handler arms which of them is left open.
AdmitArm(h, s) ==
    /\ pc[h] = "arm"
    /\ slot[s] = "reserved"
    /\ maxOvershoot' = Larger(maxOvershoot, cur[h] + 1 - seenM[h])
    /\ slot' = [slot EXCEPT ![s] = "held"]
    /\ lease' = [lease EXCEPT ![s] = IF decaying THEN "armed" ELSE "none"]
    /\ pc' = [pc EXCEPT ![h] = "idle"]
    /\ cur' = [cur EXCEPT ![h] = 0]
    /\ seenM' = [seenM EXCEPT ![h] = 0]
    /\ UNCHANGED <<enabled, threshold, ongoing, decaying, oamVars, releaser,
                   highM>>

-----------------------------------------------------------------------------
(* CblState::apply_control and set_threshold *)

\* A control body with a threshold (and perhaps a decay_ms): swap M(t).
OamSwap(o, m, d) ==
    /\ oam[o] = "idle"
    /\ decaying' = d
    /\ threshold' = m
    /\ highM' = Larger(highM, m)
    /\ newM' = [newM EXCEPT ![o] = m]
    /\ oam' = [oam EXCEPT ![o] = "record"]
    /\ UNCHANGED <<enabled, ongoing, maxOvershoot, handlerVars, slotVars>>

\* Load C(t), record the overshoot against the new M(t), arm the gate.
OamRecord(o) ==
    /\ oam[o] = "record"
    /\ maxOvershoot' = Larger(maxOvershoot, ongoing - newM[o])
    /\ enabled' = TRUE
    /\ oam' = [oam EXCEPT ![o] = "idle"]
    /\ newM' = [newM EXCEPT ![o] = 0]
    /\ UNCHANGED <<threshold, ongoing, decaying, handlerVars, slotVars, highM>>

\* A control body with "enable" arms the gate or stands it down.
OamEnable(o, e) ==
    /\ oam[o] = "idle"
    /\ enabled # e
    /\ enabled' = e
    /\ UNCHANGED <<threshold, ongoing, maxOvershoot, decaying, handlerVars,
                   oamVars, slotVars, highM>>

-----------------------------------------------------------------------------
(* SlotLease::release *)

\* Mutant: release without the compare-exchange.
WinReleaseAlways(s, who) ==
    releaser' = [releaser EXCEPT ![s] = who]

\* The compare-exchange on SlotLease.released: only the first caller wins.
WinRelease(s, who) ==
    releaser' = [releaser EXCEPT ![s] = IF @ = "none" THEN who ELSE @]

\* The holder drops the slot: registration complete, or any teardown path.
DropSlot(s) ==
    /\ slot[s] = "held"
    /\ slot' = [slot EXCEPT ![s] = "dropped"]
    /\ WinRelease(s, "drop")
    /\ UNCHANGED <<gateVars, handlerVars, oamVars, lease, highM>>

\* Mutant: the timer task ends without releasing the slot.
LeaseExpiresKeepsSlot(s) ==
    /\ lease[s] = "armed"
    /\ lease' = [lease EXCEPT ![s] = "done"]
    /\ UNCHANGED <<gateVars, handlerVars, oamVars, slot, releaser, highM>>

\* The decay timer fires.
LeaseExpires(s) ==
    /\ lease[s] = "armed"
    /\ lease' = [lease EXCEPT ![s] = "done"]
    /\ WinRelease(s, "lease")
    /\ UNCHANGED <<gateVars, handlerVars, oamVars, slot, highM>>

\* The winner's fetch_sub on ongoing.
PayRelease(s) ==
    /\ releaser[s] \in {"drop", "lease"}
    /\ ongoing' = ongoing - 1
    /\ releaser' = [releaser EXCEPT ![s] = "paid"]
    /\ UNCHANGED <<enabled, threshold, maxOvershoot, decaying, handlerVars,
                   oamVars, slot, lease, highM>>

\* Both references are gone: the allocation is freed and may be used again.
FreeSlot(s) ==
    /\ slot[s] = "dropped"
    /\ lease[s] # "armed"
    /\ releaser[s] = "paid"
    /\ slot' = [slot EXCEPT ![s] = "free"]
    /\ lease' = [lease EXCEPT ![s] = "none"]
    /\ releaser' = [releaser EXCEPT ![s] = "none"]
    /\ UNCHANGED <<gateVars, handlerVars, oamVars, highM>>

-----------------------------------------------------------------------------

CblNext ==
    \/ \E h \in Handlers :
        \/ AdmitEnter(h)
        \/ AdmitLoadOngoing(h)
        \/ AdmitLoadThreshold(h)
        \/ \E s \in Slots : AdmitReserve(h, s)
        \/ AdmitRetry(h)
        \/ \E s \in Slots : AdmitArm(h, s)
    \/ \E o \in Operators :
        \/ \E m \in Thresholds, d \in BOOLEAN : OamSwap(o, m, d)
        \/ OamRecord(o)
        \/ \E e \in BOOLEAN : OamEnable(o, e)
    \/ \E s \in Slots :
        \/ DropSlot(s)
        \/ LeaseExpires(s)
        \/ PayRelease(s)
        \/ FreeSlot(s)

\* tokio polls a runnable task and fires a due timer; nothing obliges a UE to
\* complete its registration, so DropSlot has no fairness.
CblFairness ==
    /\ \A h \in Handlers : WF_cblVars(\E s \in Slots : AdmitArm(h, s))
    /\ \A s \in Slots : WF_cblVars(LeaseExpires(s)) /\ WF_cblVars(PayRelease(s))

CblSpec == CblInit /\ [][CblNext]_cblVars /\ CblFairness

-----------------------------------------------------------------------------
(* Properties *)

CblTypeOK ==
    /\ enabled \in BOOLEAN
    /\ threshold \in Int
    /\ ongoing \in Int
    /\ maxOvershoot \in Nat
    /\ decaying \in BOOLEAN
    /\ pc \in [Handlers -> {"idle", "loadC", "loadM", "cas", "arm"}]
    /\ cur \in [Handlers -> Int]
    /\ seenM \in [Handlers -> Int]
    /\ oam \in [Operators -> {"idle", "record"}]
    /\ newM \in [Operators -> Int]
    /\ slot \in [Slots -> {"free", "reserved", "held", "dropped"}]
    /\ lease \in [Slots -> {"none", "armed", "done"}]
    /\ releaser \in [Slots -> {"none", "drop", "lease", "paid"}]
    /\ highM \in Int

\* SlotLease::release subtracts exactly once per slot although the holder's
\* drop and the decay timer race for it: C(t) is always the number of slots
\* reserved and not yet given back, so it neither leaks nor goes negative.
OngoingCountsSlots == ongoing = Cardinality(Counted)

\* The CAS loop of admit() never takes C(t) past the largest M(t) the operator
\* has ever put in force, however handlers and set_threshold interleave.
WithinHighestThreshold == ongoing <= Larger(0, highM)

\* CblSlot::arm: a slot with a decay lease is given back even when its
\* registration never completes (no fairness on the holder's drop), so a
\* silent UE cannot throttle admissions for good.
LeaseReclaimsSlot ==
    \A s \in Slots : lease[s] = "armed" ~> releaser[s] = "paid"

\* cbl.rs says of admit(): "admit iff C(t) < M(t), reserving the slot in the
\* same CAS as the threshold check": a reservation happens only while the live
\* count is below the threshold in force.
AdmitsBelowThreshold == [][ongoing' > ongoing => ongoing < threshold]_cblVars
=============================================================================
