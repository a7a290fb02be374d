---------------------------- MODULE TokenBucket ----------------------------
(***************************************************************************)
(* The policer of a session's AMBR and of a flow's MFBR (crates/pfcp,      *)
(* TokenBucket).  Time is counted in ticks of the monotonic clock, Second  *)
(* of which make a second; sizes and levels are in bits.  earned is the    *)
(* rate integrated over the time that was polled, times Second.            *)
(***************************************************************************)
EXTENDS Integers

CONSTANTS Rates,      \* rates a control plane sets; 0 is unlimited
          MinBurst,   \* one jumbo frame
          Second,
          Sizes,      \* packet sizes, none above MinBurst
          Metered,    \* whether the history of volume is kept
          MaxGap, MaxVolume

ASSUME RatesAssumption == Rates \subseteq Nat
ASSUME SecondAssumption == Second \in Nat \ {0}
ASSUME SizesAssumption == MinBurst \in Nat /\ Sizes \subseteq 0..MinBurst
ASSUME BoundsAssumption == Metered \in BOOLEAN /\ MaxGap \in Nat /\ MaxVolume \in Nat

VARIABLES rate, burst, level,
          elapsed,    \* ticks since the last refill
          passed,     \* whether the last packet passed
          first, earned, admitted

bucketVars == <<rate, burst, level, elapsed, passed, first, earned, admitted>>

BurstOf(r) == IF r > MinBurst THEN r ELSE MinBurst

BucketInit ==
    /\ rate \in Rates /\ burst = BurstOf(rate) /\ level = burst /\ elapsed = 0
    /\ passed = FALSE /\ first = burst /\ earned = 0 /\ admitted = 0

Tick == elapsed < MaxGap /\ elapsed' = elapsed + 1 /\ UNCHANGED <<rate, burst, level, passed, first, earned, admitted>>

Refill(r, gap) == (r * gap) \div Second

Refilled == LET l == level + Refill(rate, elapsed) IN IF l > burst THEN burst ELSE l

InBounds == Metered => earned <= MaxVolume /\ admitted <= MaxVolume

Earn == earned' = IF Metered THEN earned + rate * elapsed ELSE earned
Admit(bits) == admitted' = IF Metered THEN admitted + bits ELSE admitted

\* Mutant: a packet that is refused leaves the refill timestamp where it was.
PollKeepsTime(bits) ==
    /\ InBounds /\ rate # 0
    /\ passed' = (Refilled >= bits)
    /\ level' = IF passed' THEN Refilled - bits ELSE Refilled
    /\ elapsed' = IF passed' THEN 0 ELSE elapsed
    /\ earned' = IF Metered /\ passed' THEN earned + rate * elapsed ELSE earned
    /\ Admit(IF passed' THEN bits ELSE 0)
    /\ UNCHANGED <<rate, burst, first>>

\* poll on a limited rate: refill for the time since the last poll, rounded down,
\* and take the packet's bits if they are there.
Poll(bits) ==
    /\ InBounds /\ rate # 0
    /\ passed' = (Refilled >= bits)
    /\ level' = IF Refilled >= bits THEN Refilled - bits ELSE Refilled
    /\ elapsed' = 0
    /\ Earn
    /\ Admit(IF Refilled >= bits THEN bits ELSE 0)
    /\ UNCHANGED <<rate, burst, first>>

\* An unlimited rate passes everything and touches nothing.
PollUnlimited == rate = 0 /\ passed' = TRUE /\ UNCHANGED <<rate, burst, level, elapsed, first, earned, admitted>>

\* set_rate: refill to now under the old rate, then clamp to the new capacity.
SetRate(r) ==
    /\ InBounds /\ r # rate
    /\ rate' = r /\ burst' = BurstOf(r)
    /\ level' = IF Refilled > BurstOf(r) THEN BurstOf(r) ELSE Refilled
    /\ elapsed' = 0 /\ Earn
    /\ UNCHANGED <<passed, first, admitted>>

Arrive == \E bits \in Sizes : Poll(bits)

BucketNext == Tick \/ Arrive \/ PollUnlimited \/ \E r \in Rates : SetRate(r)

\* Time passes, and packets keep arriving.
BucketSpec == BucketInit /\ [][BucketNext]_bucketVars /\ WF_bucketVars(Tick) /\ WF_bucketVars(Arrive)

-----------------------------------------------------------------------------

\* The level stays within the capacity of the rate in force.
BucketTypeOK ==
    /\ rate \in Rates /\ burst = BurstOf(rate) /\ level \in 0..burst
    /\ elapsed \in Nat /\ passed \in BOOLEAN
    /\ first \in Nat /\ earned \in Nat /\ admitted \in Nat

\* Over any stretch of traffic, rate changes included, what a policer lets pass is at
\* most the burst it started with and what the rate earned since: refills never overlap.
RateIsBounded == Metered => Second * admitted <= Second * first + earned

\* "floored at one jumbo frame so a single packet can always eventually pass".
PacketEventuallyPasses == []<>passed

=============================================================================
