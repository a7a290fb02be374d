----------------------------- MODULE GprsTimers -----------------------------
(***************************************************************************)
(* The one-octet timers of NAS (crates/nas, GprsTimer2 and GprsTimer3): a  *)
(* unit in the upper three bits, a multiple of it in the lower five.       *)
(***************************************************************************)
EXTENDS Integers, Sequences

\* A unit: its bits and the seconds of one step, finest first.
Units2 == << [bits |-> 0, step |-> 2], [bits |-> 1, step |-> 60], [bits |-> 2, step |-> 360] >>
Units3 == << [bits |-> 3, step |-> 2], [bits |-> 4, step |-> 30], [bits |-> 5, step |-> 60],
             [bits |-> 0, step |-> 600], [bits |-> 1, step |-> 3600], [bits |-> 2, step |-> 36000],
             [bits |-> 6, step |-> 1152000] >>

DivCeil(n, d) == (n + d - 1) \div d

Fits(units, secs) == {i \in DOMAIN units : DivCeil(secs, units[i].step) <= 31}

Finest(s) == CHOOSE i \in s : \A j \in s : i <= j

\* from_secs: the finest unit whose multiple fits, rounded up; else the longest timer.
FromSecs(units, secs) ==
    IF Fits(units, secs) = {} THEN [unit |-> Len(units), multiple |-> 31]
    ELSE LET i == Finest(Fits(units, secs)) IN [unit |-> i, multiple |-> DivCeil(secs, units[i].step)]

Octet(units, t) == units[t.unit].bits * 32 + t.multiple

\* What the UE makes of the octet (TS 24.008).
Seconds(units, octet) ==
    LET i == CHOOSE i \in DOMAIN units : units[i].bits = octet \div 32
    IN units[i].step * (octet % 32)
=============================================================================
