--------------------------- MODULE MobileReachable ---------------------------
(***************************************************************************)
(* The periodic registration of an idle UE and the sweep that deregisters  *)
(* the ones that stay silent (nf-amf/main.rs, crates/nas).                 *)
(*                                                                         *)
(* The Registration Accept tells the UE its T3512 as a GPRS timer 3.  From *)
(* the release of its connection the UE counts to what it was told, and    *)
(* the AMF to its own deadline, looking every SweepSecs.  Time passes in   *)
(* steps of Step seconds; a UE in coverage acts when its timer expires.    *)
(***************************************************************************)
EXTENDS GprsTimers

CONSTANTS
    T3512Secs,          \* T3512_SECS
    ImplicitDeregSecs,  \* IMPLICIT_DEREG_SECS or RADIAN_AMF_IMPLICIT_DEREG_SECS
    SweepSecs,          \* RETAINED_SWEEP_SECS
    Step

ASSUME TimesAssumption ==
    /\ T3512Secs \in Nat \ {0} /\ ImplicitDeregSecs \in Nat \ {0}
    /\ SweepSecs \in Nat \ {0} /\ Step \in Nat \ {0}

VARIABLES
    ue,         \* "connected", "idle" (in coverage) or "gone"
    told,       \* the T3512 octet of the Registration Accept
    ueClock,    \* seconds the UE has been idle
    ctx,        \* the AMF's context: "connected", "retained" or "none"
    idleFor,    \* retained_at.elapsed()
    sinceSweep  \* seconds since the last tick of the sweep

reachVars == <<ue, told, ueClock, ctx, idleFor, sinceSweep>>

T3512Octet == Octet(Units3, FromSecs(Units3, T3512Secs))

\* The registration that starts it all is accepted.
ReachInit ==
    /\ ue = "connected" /\ ctx = "connected" /\ told = T3512Octet
    /\ ueClock = 0 /\ idleFor = 0 /\ sinceSweep = 0

\* UE context release: the context is retained and its clock starts.
Release ==
    /\ ctx = "connected" /\ ue = "connected"
    /\ ue' = "idle" /\ ctx' = "retained" /\ ueClock' = 0 /\ idleFor' = 0
    /\ UNCHANGED <<told, sinceSweep>>

\* The UE comes back with a Service Request, or with the periodic registration
\* when T3512 expires.  The retained context is restored; without one the UE is
\* authenticated and registered again.  A Registration Accept tells T3512 anew.
Return ==
    /\ ue = "idle"
    /\ ue' = "connected" /\ ctx' = "connected"
    /\ told' = T3512Octet
    /\ UNCHANGED <<ueClock, idleFor, sinceSweep>>

\* A UE leaves coverage.
Vanish ==
    /\ ue = "idle"
    /\ ue' = "gone"
    /\ UNCHANGED <<told, ueClock, ctx, idleFor, sinceSweep>>

Expired == ue = "idle" /\ ueClock >= Seconds(Units3, told)

Elapse ==
    /\ ~Expired /\ sinceSweep + Step <= SweepSecs
    /\ ctx = "retained" \/ ue = "idle"
    /\ ueClock' = IF ue = "idle" THEN ueClock + Step ELSE ueClock
    /\ idleFor' = IF ctx = "retained" THEN idleFor + Step ELSE idleFor
    /\ sinceSweep' = sinceSweep + Step
    /\ UNCHANGED <<ue, told, ctx>>

\* Mutant: the sweep looks at every context it finds.
EvictWhoeverIsRetained == ctx = "retained"

\* Mutant: the deadline is counted from T3512's expiry and not from the release.
StaleAfterT3512 == ctx = "retained" /\ idleFor >= T3512Secs + ImplicitDeregSecs

\* evict_stale_retained.
Stale == ctx = "retained" /\ idleFor >= ImplicitDeregSecs

Sweep ==
    /\ sinceSweep + Step > SweepSecs
    /\ sinceSweep' = 0
    /\ ctx' = IF Stale THEN "none" ELSE ctx
    /\ UNCHANGED <<ue, told, ueClock, idleFor>>

Done == ctx = "none" /\ ue = "gone" /\ UNCHANGED reachVars

ReachNext == Release \/ Return \/ Vanish \/ Elapse \/ Sweep \/ Done

\* Time passes and the sweep's interval ticks.
ReachSpec == ReachInit /\ [][ReachNext]_reachVars /\ WF_reachVars(Elapse) /\ WF_reachVars(Sweep)

-----------------------------------------------------------------------------
(* Properties *)

\* Divergence: a UE that is in coverage and checks in when it was told to is not
\* deregistered behind its back: "a UE that neither resumes nor periodically
\* re-registers within this window is evicted" (main.rs), and no other.  The window is
\* T3512_SECS and four minutes (58 min); the octet has no unit for 54 min but tens of
\* minutes, and the UE is told 60.
ReachableUeIsKept == ue = "idle" => ctx = "retained"

\* What the AMF does keep: whoever comes back within the window finds its context, on
\* whichever side of a tick of the sweep.  The sweep's clock and the context's are not
\* the UE's, and none of them starts with another.
KeptForTheWindow == ue = "idle" /\ ueClock < ImplicitDeregSecs => ctx = "retained"

\* The context of a UE that is gone does not stay for ever: its sessions and its
\* policy association are released with it.
GoneIsEvicted == (ue = "gone") ~> (ctx = "none")

\* Nor longer than the deadline and one round of the sweep.
EvictedInTime == ctx = "retained" => idleFor <= ImplicitDeregSecs + SweepSecs

=============================================================================
