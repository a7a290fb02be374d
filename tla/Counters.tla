------------------------------ MODULE Counters ------------------------------
(***************************************************************************)
(* The counters and clocks that two ends keep without telling each other:  *)
(* the NAS COUNT, the PDCP COUNT of a bearer, the level of a policer and   *)
(* the idle clocks of a UE and its AMF.  They share no variable, so a      *)
(* behaviour that moves one of them at a time shows all that each can do:  *)
(* part says which one moves, the others stay as they started.             *)
(* The theorems are about each of them, for every value of its constants.  *)
(***************************************************************************)
EXTENDS SecurityCounts, TokenBucket, MobileReachable, TLAPS

VARIABLE part

countersVars == <<part, vars, bearerVars, bucketVars, reachVars>>

CountersInit ==
    /\ part \in {"nas", "bearer", "bucket", "reach"}
    /\ Init /\ BearerInit /\ BucketInit /\ ReachInit
    /\ part # "bucket" => rate = CHOOSE r \in Rates : TRUE

CountersNext ==
    \/ part = "nas" /\ Next /\ UNCHANGED <<part, bearerVars, bucketVars, reachVars>>
    \/ part = "bearer" /\ BearerNext /\ UNCHANGED <<part, vars, bucketVars, reachVars>>
    \/ part = "bucket" /\ BucketNext /\ UNCHANGED <<part, vars, bearerVars, reachVars>>
    \/ part = "reach" /\ ReachNext /\ UNCHANGED <<part, vars, bearerVars, bucketVars>>

CountersSpec == CountersInit /\ [][CountersNext]_countersVars

-----------------------------------------------------------------------------
(* The NAS COUNT, for every size of the SN space and any number of messages. *)

\* Division with remainder, for the SN space of any size.
LEMMA Quotient ==
  ASSUME NEW n \in Nat, NEW b \in Nat \ {0}
  PROVE  /\ n % b \in 0..(b - 1)
         /\ n \div b \in Nat
         /\ n = (b * (n \div b)) + (n % b)
  BY SMT

\* The remainder is unique.
LEMMA Remainder ==
  ASSUME NEW b \in Nat \ {0}, NEW q \in Nat, NEW r \in 0..(b - 1), NEW n \in Nat,
         n = (b * q) + r
  PROVE  n % b = r
  BY SMT

\* How multiples of a positive number compare.
LEMMA Multiples ==
  ASSUME NEW b \in Nat \ {0}, NEW q \in Nat, NEW p \in Nat
  PROVE  /\ b * q \in Nat /\ b * p \in Nat
         /\ q = p => b * q = b * p
         /\ q = p + 1 => b * q = b * p + b
         /\ q >= p + 2 => b * q >= b * p + 2 * b
         /\ q = 0 => b * q = 0
         /\ q >= 1 => b * q >= b
  BY SMT

-----------------------------------------------------------------------------

\* Which COUNTs unprotect() recovers and lets through when it expects e.
LEMMA NasWindow ==
  ASSUME NEW e \in Nat, NEW m \in Nat
  PROVE  Accepts(e, m) <=> /\ m >= e
                           /\ m < e + Half \/ (e < Block /\ m < Block)
  <1> DEFINE q == e \div Block
             p == m \div Block
             r == e % Block
             s == m % Block
  <1>1. Block \in Nat \ {0} /\ Block = 2 * Half /\ Half \in Nat \ {0}
    BY HalfAssumption DEF Block
  <1>2. q \in Nat /\ r \in 0..(Block - 1) /\ e = (Block * q) + r
    BY <1>1, Quotient
  <1>3. p \in Nat /\ s \in 0..(Block - 1) /\ m = (Block * p) + s
    BY <1>1, Quotient
  <1>4. Sn(e) = r /\ Sn(m) = s
    BY DEF Sn
  <1> HIDE DEF q, p, r, s
  <1> DEFINE x == Block * q
             y == Block * p
             c == x + s
  <1>5. x \in Nat /\ y \in Nat /\ e = x + r /\ m = y + s
    BY <1>1, <1>2, <1>3, Multiples
  <1>6. /\ q = p => x = y
        /\ q = p + 1 => x = y + Block
        /\ q >= p + 2 => x >= y + 2 * Block
        /\ p = q + 1 => y = x + Block
        /\ p >= q + 2 => y >= x + 2 * Block
        /\ q = 0 => x = 0
        /\ q >= 1 => x >= Block
    BY <1>1, <1>2, <1>3, Multiples
  <1> HIDE DEF x, y
  <1>7. Estimate(e, Sn(m)) = IF c + Half < e THEN c + Block
                             ELSE IF c >= e + Half /\ c >= Block THEN c - Block
                             ELSE c
    <2>1. r \in Nat /\ s \in Nat
      BY <1>1, <1>2, <1>3
    <2>2. (e - Sn(e)) + Sn(m) = c
      BY <1>4, <1>5, <2>1
    <2> QED
      BY <2>2, Zenon DEF Estimate
  <1>8. q = p \/ q = p + 1 \/ q >= p + 2 \/ p = q + 1 \/ p >= q + 2
    BY <1>2, <1>3
  <1>9. q = 0 \/ q >= 1
    BY <1>2
  <1>10. Accepts(e, m) <=> Estimate(e, Sn(m)) = m /\ m >= e
    BY DEF Accepts, Fresh
  <1>11. CASE q = p
    BY <1>1, <1>2, <1>3, <1>5, <1>6, <1>7, <1>9, <1>10, <1>11
  <1>12. CASE p = q + 1
    BY <1>1, <1>2, <1>3, <1>5, <1>6, <1>7, <1>9, <1>10, <1>12
  <1>13. CASE p >= q + 2
    BY <1>1, <1>2, <1>3, <1>5, <1>6, <1>7, <1>9, <1>10, <1>13
  <1>14. CASE q = p + 1
    BY <1>1, <1>2, <1>3, <1>5, <1>6, <1>7, <1>9, <1>10, <1>14
  <1>15. CASE q >= p + 2
    BY <1>1, <1>2, <1>3, <1>5, <1>6, <1>7, <1>9, <1>10, <1>15
  <1> QED
    BY <1>8, <1>11, <1>12, <1>13, <1>14, <1>15

\* The estimate has the SN that was received, and no COUNT with that SN is closer.
LEMMA Closest ==
  ASSUME NEW e \in Nat, NEW m \in Nat
  PROVE  LET c == Estimate(e, Sn(m))
         IN Sn(c) = Sn(m) /\ Distance(c, e) <= Distance(m, e)
  <1> DEFINE q == e \div Block
             p == m \div Block
             r == e % Block
             s == m % Block
             c == Estimate(e, Sn(m))
  <1>1. Block \in Nat \ {0} /\ Block = 2 * Half /\ Half \in Nat \ {0}
    BY HalfAssumption DEF Block
  <1>2. q \in Nat /\ r \in 0..(Block - 1) /\ e = (Block * q) + r
    BY <1>1, Quotient
  <1>3. p \in Nat /\ s \in 0..(Block - 1) /\ m = (Block * p) + s
    BY <1>1, Quotient
  <1>4. Sn(e) = r /\ Sn(m) = s
    BY DEF Sn
  <1> HIDE DEF q, p, r, s
  <1>5. Block * q \in Nat /\ Block * p \in Nat
    BY <1>1, <1>2, <1>3, Multiples
  <1>6. LET d == (Block * q) + s
        IN c = IF d + Half < e THEN d + Block
               ELSE IF d >= e + Half /\ d >= Block THEN d - Block
               ELSE d
    <2> DEFINE x == Block * q
    <2>1. x \in Nat /\ e = x + r
      BY <1>2, <1>5
    <2> HIDE DEF x
    <2>2. r \in Nat /\ s \in Nat
      BY <1>1, <1>2, <1>3
    <2>3. (e - Sn(e)) + Sn(m) = x + s
      BY <1>4, <2>1, <2>2
    <2>4. (e - Sn(e)) + Sn(m) = (Block * q) + s
      BY <2>3 DEF x
    <2> QED
      BY <2>4, Zenon DEF Estimate
  <1> HIDE DEF c
  <1>7. q = p \/ q = p + 1 \/ q >= p + 2 \/ p = q + 1 \/ p >= q + 2
    BY <1>2, <1>3
  <1>8. /\ q = p => Block * q = Block * p
        /\ q = p + 1 => Block * q = (Block * p) + Block
        /\ q >= p + 2 => Block * q >= (Block * p) + 2 * Block
        /\ p = q + 1 => Block * p = (Block * q) + Block
        /\ p >= q + 2 => Block * p >= (Block * q) + 2 * Block
        /\ q = 0 => Block * q = 0
        /\ q >= 1 => Block * q >= Block
    BY <1>1, <1>2, <1>3, Multiples
  <1>9. c \in Nat /\ Distance(c, e) <= Distance(m, e)
    <2> DEFINE x == Block * q
               y == Block * p
    <2>1. x \in Nat /\ y \in Nat /\ e = x + r /\ m = y + s
      BY <1>2, <1>3, <1>5
    <2>2. LET d == x + s
          IN c = IF d + Half < e THEN d + Block
                 ELSE IF d >= e + Half /\ d >= Block THEN d - Block
                 ELSE d
      BY <1>6
    <2>3. \/ x = y
          \/ x = y + Block
          \/ x >= y + 2 * Block
          \/ y = x + Block
          \/ y >= x + 2 * Block
      BY <1>7, <1>8
    <2>4. x = 0 \/ x >= Block
      BY <1>2, <1>8
    <2> HIDE DEF x, y
    <2> QED
      BY <1>1, <1>2, <1>3, <2>1, <2>2, <2>3, <2>4 DEF Distance
  <1>10. \E k \in Nat : c = (Block * k) + s
    <2>1. CASE c = (Block * q) + s
      BY <1>2, <2>1
    <2>2. CASE c = ((Block * q) + s) + Block
      <3>1. Block * (q + 1) = (Block * q) + Block /\ q + 1 \in Nat
        BY <1>1, <1>2, Multiples
      <3> QED
        BY <1>1, <1>3, <1>5, <2>2, <3>1
    <2>3. CASE c = ((Block * q) + s) - Block
      <3>1. q >= 1
        BY <1>1, <1>2, <1>3, <1>8, <1>9, <2>3
      <3>2. Block * q = (Block * (q - 1)) + Block /\ q - 1 \in Nat /\ Block * (q - 1) \in Nat
        BY <1>1, <1>2, <3>1, Multiples
      <3>3. c = (Block * (q - 1)) + s
        BY <1>1, <1>3, <1>5, <2>3, <3>2
      <3> QED
        BY <3>2, <3>3
    <2> QED
      BY <1>6, <2>1, <2>2, <2>3
  <1>11. Sn(c) = s
    <2>1. PICK k \in Nat : c = (Block * k) + s
      BY <1>10
    <2> QED
      BY <1>1, <1>3, <1>9, <2>1, Remainder DEF Sn
  <1> QED
    BY <1>4, <1>9, <1>11 DEF c

-----------------------------------------------------------------------------

\* What the receiver has accepted lies below what it expects, which is what makes
\* its replay check sound.
BelowExpected == \A i \in DOMAIN accepted : accepted[i] < expected

IInv == TypeOK /\ BelowExpected /\ AcceptedInOrder

\* Before any message nothing has been accepted.
LEMMA InitIInv == Init => IInv
  BY DEF Init, IInv, TypeOK, BelowExpected, AcceptedInOrder

\* protect() leaves the receiver alone; unprotect() accepts above what it expects and
\* then expects more than that.
LEMMA NextIInv == IInv /\ [Next]_vars => IInv'
  <1> SUFFICES ASSUME IInv, [Next]_vars PROVE IInv'
    OBVIOUS
  <1>1. TypeOK /\ BelowExpected /\ AcceptedInOrder
    BY DEF IInv
  <1>2. CASE Protect
    BY <1>1, <1>2 DEF Protect, IInv, TypeOK, BelowExpected, AcceptedInOrder
  <1>3. CASE Unprotect
    <2>1. PICK m \in 0..(tx - 1) : /\ m >= expected
                                   /\ expected' = m + 1
                                   /\ accepted' = Append(accepted, m)
                                   /\ tx' = tx
      BY <1>3 DEF Unprotect, Accepts, Fresh
    <2>2. m \in Nat /\ accepted \in Seq(Nat) /\ expected \in Nat /\ tx \in Nat
      BY <1>1, <2>1 DEF TypeOK
    <2>3. /\ accepted' \in Seq(Nat)
          /\ DOMAIN accepted' = 1..(Len(accepted) + 1)
          /\ DOMAIN accepted = 1..Len(accepted)
          /\ Len(accepted) \in Nat
          /\ \A i \in 1..Len(accepted) : accepted'[i] = accepted[i] /\ accepted[i] \in Nat
          /\ accepted'[Len(accepted) + 1] = m
      BY <2>1, <2>2
    <2>4. TypeOK'
      BY <2>1, <2>2, <2>3 DEF TypeOK
    <2>5. BelowExpected'
      BY <1>1, <2>1, <2>2, <2>3 DEF BelowExpected
    <2>6. AcceptedInOrder'
      BY <1>1, <2>1, <2>2, <2>3 DEF BelowExpected, AcceptedInOrder
    <2> QED
      BY <2>4, <2>5, <2>6 DEF IInv
  <1>4. CASE UNCHANGED vars
    BY <1>1, <1>4 DEF vars, IInv, TypeOK, BelowExpected, AcceptedInOrder
  <1> QED
    BY <1>2, <1>3, <1>4 DEF Next

\* The invariant the theorems below follow from.
LEMMA Invariance == Spec => []IInv
  BY InitIInv, NextIInv, PTL DEF Spec

\* Replay protection of unprotect(): whatever is lost, repeated or reordered, messages
\* are accepted in the order they were sent and none twice, for SNs of any width.
THEOREM NoReplay == Spec => []AcceptedInOrder
  <1>1. IInv => AcceptedInOrder
    BY DEF IInv
  <1> QED
    BY <1>1, Invariance, PTL

\* unprotect() accepts exactly the COUNTs of its window: no message less than Half
\* COUNTs ahead is refused at any block boundary, and no other is let through.
THEOREM WindowTheorem == Spec => []AcceptsExactlyTheWindow
  <1>1. IInv => AcceptsExactlyTheWindow
    <2> SUFFICES ASSUME IInv, NEW m \in 0..(tx - 1)
                 PROVE  Accepts(expected, m) <=>
                          /\ m >= expected
                          /\ m < expected + Half \/ (expected < Block /\ m < Block)
      BY DEF AcceptsExactlyTheWindow
    <2>1. expected \in Nat /\ m \in Nat
      BY DEF IInv, TypeOK
    <2> QED
      BY <2>1, NasWindow
  <1> QED
    BY <1>1, Invariance, PTL

\* The comment in unprotect(), for every COUNT and width: the estimate is the COUNT
\* with the received SN that is closest to the one expected.
THEOREM ClosestTheorem == Spec => []EstimateIsClosest
  <1>1. IInv => EstimateIsClosest
    <2> SUFFICES ASSUME IInv, NEW m \in 0..(tx - 1)
                 PROVE  LET c == Estimate(expected, Sn(m))
                        IN Sn(c) = Sn(m) /\ Distance(c, expected) <= Distance(m, expected)
      BY DEF EstimateIsClosest
    <2>1. expected \in Nat /\ m \in Nat
      BY DEF IInv, TypeOK
    <2> QED
      BY <2>1, Closest
  <1> QED
    BY <1>1, Invariance, PTL

-----------------------------------------------------------------------------
(* The PDCP COUNT, for every window, every number of hyper frames and every skew *)
(* below the window.                                                             *)


\* How the hyper frames of two COUNTs lie to each other.
LEMMA BearerFrames ==
  ASSUME NEW b \in Nat \ {0}, NEW q \in Nat, NEW p \in Nat
  PROVE  /\ b * q \in Nat /\ b * p \in Nat
         /\ q = p => b * q = b * p
         /\ q = p + 1 => b * q = b * p + b
         /\ q >= p + 2 => b * q >= b * p + 2 * b
         /\ q >= p + 1 => b * q >= b * p + b
  BY SMT

\* The remainder of a number in range is the number itself.
LEMMA BearerInRange ==
  ASSUME NEW b \in Nat \ {0}, NEW n \in 0 .. (b - 1)
  PROVE  n % b = n
  BY SMT

\* What the constants are.
LEMMA BearerSizes ==
  /\ SnSpace \in Nat \ {0} /\ SnSpace = 2 * Window /\ Window \in Nat \ {0}
  /\ Hfns \in Nat \ {0} /\ Skew \in Nat /\ Skew < Window
  /\ Counts \in Nat \ {0} /\ Counts = SnSpace * Hfns
  <1>1. SnSpace \in Nat \ {0} /\ SnSpace = 2 * Window
    BY BearerAssumption DEF SnSpace
  <1>2. Counts = SnSpace * Hfns
    BY DEF Counts
  <1>3. Counts \in Nat \ {0}
    BY <1>1, <1>2, BearerAssumption, SMT
  <1> QED
    BY <1>1, <1>2, <1>3, BearerAssumption

-----------------------------------------------------------------------------
\* Less than a window from the COUNT expected, the SN alone tells the COUNT.
THEOREM CountIsRecovered ==
  ASSUME NEW rx \in 0 .. Counts, NEW count \in 0 .. (Counts - 1),
         count - rx < Window, rx - count < Window
  PROVE  rx_count_for(rx, PdcpSn(count)) = count
  <1> DEFINE h == rx \div SnSpace
             r == rx % SnSpace
             q == count \div SnSpace
             s == count % SnSpace
  <1>a. rx \in Nat /\ count \in Nat /\ SnSpace \in Nat \ {0}
    BY BearerSizes
  <1>1. h \in Nat /\ r \in 0 .. (SnSpace - 1) /\ rx = (SnSpace * h) + r
    BY <1>a, Quotient, Zenon
  <1>2. q \in Nat /\ s \in 0 .. (SnSpace - 1) /\ count = (SnSpace * q) + s
    BY <1>a, Quotient, Zenon
  <1>3. PdcpSn(rx) = r /\ PdcpSn(count) = s /\ HfnOf(rx) = h
    BY DEF PdcpSn, HfnOf
  <1> HIDE DEF h, r, q, s
  <1>4. q < Hfns
    <2>1. SUFFICES ASSUME q >= Hfns PROVE FALSE
      BY <1>2, BearerSizes
    <2>2. SnSpace * q >= SnSpace * Hfns
      BY <1>2, <2>1, BearerSizes, SMT
    <2> QED
      BY <1>2, <2>2, BearerSizes, SMT
  <1> DEFINE x == SnSpace * h
             y == SnSpace * q
  <1>5. x \in Nat /\ y \in Nat /\ rx = x + r /\ count = y + s
    BY <1>1, <1>2, BearerSizes, BearerFrames
  <1>6. /\ h = q => x = y
        /\ h = q + 1 => x = y + SnSpace
        /\ h >= q + 2 => x >= y + 2 * SnSpace
        /\ q = h + 1 => y = x + SnSpace
        /\ q >= h + 2 => y >= x + 2 * SnSpace
    BY <1>1, <1>2, BearerSizes, BearerFrames
  <1> HIDE DEF x, y
  <1>7. h = q \/ h = q + 1 \/ q = h + 1
    BY <1>1, <1>2, <1>5, <1>6, BearerSizes
  <1> DEFINE hfn == IF s < r /\ r - s > Window THEN (h + 1) % Hfns
                    ELSE IF s > r /\ s - r > Window THEN (h - 1) % Hfns
                    ELSE h
  <1>8. rx_count_for(rx, PdcpSn(count)) = SnSpace * hfn + s
    BY <1>3 DEF rx_count_for
  <1>9. hfn = q
    <2>1. CASE h = q
      BY <1>1, <1>2, <1>5, <1>6, <2>1, BearerSizes
    <2>2. CASE q = h + 1
      <3>1. s < r /\ r - s > Window
        BY <1>1, <1>2, <1>5, <1>6, <2>2, BearerSizes
      <3>2. (h + 1) % Hfns = q
        BY <1>1, <1>2, <1>4, <2>2, BearerInRange, BearerSizes
      <3> QED
        BY <3>1, <3>2
    <2>3. CASE h = q + 1
      <3>1. s > r /\ s - r > Window
        BY <1>1, <1>2, <1>5, <1>6, <2>3, BearerSizes
      <3>2. ~(s < r)
        BY <3>1, <1>1, <1>2, BearerSizes
      <3>3. (h - 1) % Hfns = q
        BY <1>1, <1>2, <1>4, <2>3, BearerInRange, BearerSizes
      <3> QED
        BY <3>1, <3>2, <3>3
    <2> QED
      BY <1>7, <2>1, <2>2, <2>3
  <1> QED
    BY <1>8, <1>9, <1>2

-----------------------------------------------------------------------------
\* The types hold, and every PDU is opened with the COUNT it was sealed with.
BearerIInv == BearerTypeOK /\ OpenedAsSealed

LEMMA BearerInductive == BearerIInv /\ [BearerNext]_bearerVars => BearerIInv'
  <1> SUFFICES ASSUME BearerIInv, [BearerNext]_bearerVars PROVE BearerIInv'
    OBVIOUS
  <1> USE DEF BearerIInv, OpenedAsSealed
  <1>1. CASE TxSeal
    BY <1>1, BearerSizes DEF TxSeal, BearerTypeOK
  <1>2. CASE RxOpen
    <2>1. PICK count \in net :
            LET c == rx_count_for(rx_count, PdcpSn(count))
            IN /\ InStep(count)
               /\ net' \in {net, net \ {count}}
               /\ IF Integrity /\ c # count
                  THEN refused' = refused \cup {count} /\ UNCHANGED <<rx_count, opened>>
                  ELSE /\ rx_count' = c + 1
                       /\ opened' = [sealed |-> count, as |-> c]
                       /\ UNCHANGED refused
      BY <1>2 DEF RxOpen
    <2>2. count \in 0 .. (Counts - 1) /\ rx_count \in 0 .. Counts
      BY DEF BearerTypeOK
    <2>3. count - rx_count < Window /\ rx_count - count < Window
      BY <2>1, <2>2, BearerSizes DEF InStep
    <2>4. rx_count_for(rx_count, PdcpSn(count)) = count
      BY <2>2, <2>3, CountIsRecovered
    <2>5. /\ net' \in {net, net \ {count}} /\ rx_count' = count + 1
          /\ opened' = [sealed |-> count, as |-> count] /\ refused' = refused
      BY <2>1, <2>4
    <2>6. tx_count' = tx_count
      BY <1>2 DEF RxOpen
    <2> QED
      BY <2>2, <2>5, <2>6, BearerSizes DEF BearerTypeOK
  <1>3. CASE Lose
    BY <1>3 DEF Lose, BearerTypeOK
  <1>4. CASE UNCHANGED bearerVars
    BY <1>4 DEF bearerVars, BearerTypeOK
  <1> QED
    BY <1>1, <1>2, <1>3, <1>4 DEF BearerNext

\* Whatever is lost, late or repeated, a receiver less than a window away opens
\* every PDU with the COUNT its sender sealed it with.
THEOREM AlwaysOpenedAsSealed == BearerSpec => []OpenedAsSealed
  <1>1. BearerInit => BearerIInv
    BY BearerSizes DEF BearerInit, BearerIInv, BearerTypeOK, OpenedAsSealed
  <1>2. BearerIInv => OpenedAsSealed
    BY DEF BearerIInv
  <1> QED
    BY <1>1, <1>2, BearerInductive, PTL DEF BearerSpec
-----------------------------------------------------------------------------
(* The rate bound, for every rate, burst, packet size and timing.          *)
(* RateIsBounded alone is not inductive: what the bucket holds is volume it *)
(* may still let pass, so the invariant counts the level too.              *)

Conserved == Metered => Second * (level + admitted) <= Second * first + earned

BucketIInv == BucketTypeOK /\ Conserved

\* A refill, rounded down, is at most what the rate earned.
LEMMA RefillBounded ==
    ASSUME NEW r \in Nat, NEW g \in Nat
    PROVE  /\ Refill(r, g) \in Nat
           /\ r * g \in Nat
           /\ Second * Refill(r, g) <= r * g
<1>1. r * g \in Nat
    OBVIOUS
<1> DEFINE c == r * g
<1>2. c \in Nat
    BY <1>1
<1>3. Refill(r, g) = c \div Second
    BY DEF Refill
<1> HIDE DEF c
<1>4. /\ c \div Second \in Nat
      /\ Second * (c \div Second) <= c
    BY <1>2, SecondAssumption
<1>5. QED
    BY <1>1, <1>3, <1>4 DEF c

\* The product of Second with a sum, for the two places it is needed.
LEMMA BucketSpread ==
    ASSUME NEW a \in Int, NEW b \in Int
    PROVE  Second * (a + b) = Second * a + Second * b /\ Second * a \in Int /\ Second * b \in Int
BY SecondAssumption

LEMMA BucketMonotone ==
    ASSUME NEW a \in Int, NEW b \in Int, a <= b
    PROVE  Second * a <= Second * b
BY SecondAssumption

\* Refilling keeps the level within the capacity and adds at most what was earned.
LEMMA RefilledBounded ==
    ASSUME BucketTypeOK
    PROVE  /\ Refilled \in 0..burst
           /\ Second * Refilled <= Second * level + rate * elapsed
<1>1. rate \in Nat /\ elapsed \in Nat /\ level \in Nat /\ burst \in Nat /\ level <= burst
    BY RatesAssumption, SizesAssumption DEF BucketTypeOK, BurstOf
<1>2. /\ Refill(rate, elapsed) \in Nat /\ rate * elapsed \in Nat
      /\ Second * Refill(rate, elapsed) <= rate * elapsed
    BY <1>1, RefillBounded
<1>3. Refilled \in 0..burst /\ Refilled <= level + Refill(rate, elapsed)
    BY <1>1, <1>2 DEF Refilled
<1>4. Second * Refilled <= Second * (level + Refill(rate, elapsed))
    BY <1>1, <1>2, <1>3, BucketMonotone
<1>5. Second * (level + Refill(rate, elapsed)) = Second * level + Second * Refill(rate, elapsed)
    BY <1>1, <1>2, BucketSpread
<1>6. Second * Refilled \in Int /\ Second * level \in Int /\ Second * Refill(rate, elapsed) \in Int
    BY <1>1, <1>2, <1>3, BucketSpread
<1>7. QED
    BY <1>2, <1>3, <1>4, <1>5, <1>6

\* A bucket left with l of the refilled bits, after a packets' worth was admitted.
LEMMA Spent ==
    ASSUME BucketIInv, Metered, NEW l \in Nat, NEW a \in Nat, l + a <= Refilled
    PROVE  Second * (l + (admitted + a)) <= Second * first + (earned + rate * elapsed)
<1>1. /\ Refilled \in 0..burst
      /\ Second * Refilled <= Second * level + rate * elapsed
    BY RefilledBounded DEF BucketIInv
<1>2. /\ rate \in Nat /\ elapsed \in Nat /\ level \in Nat /\ burst \in Nat /\ admitted \in Nat
      /\ first \in Nat /\ earned \in Nat
    BY RatesAssumption, SizesAssumption DEF BucketIInv, BucketTypeOK, BurstOf
<1>3. rate * elapsed \in Nat
    BY <1>2
<1>4. l + (admitted + a) = (l + a) + admitted /\ l + a \in Int
    BY <1>2
<1>5. Second * ((l + a) + admitted) = Second * (l + a) + Second * admitted
    BY <1>2, <1>4, BucketSpread
<1>6. Second * (l + a) <= Second * Refilled
    BY <1>1, <1>2, <1>4, BucketMonotone
<1>7. Second * (level + admitted) = Second * level + Second * admitted
    BY <1>2, BucketSpread
<1>8. Second * (level + admitted) <= Second * first + earned
    BY DEF BucketIInv, Conserved
<1>9. /\ Second * (l + a) \in Int /\ Second * admitted \in Int /\ Second * Refilled \in Int
      /\ Second * level \in Int /\ Second * first \in Int
    BY <1>1, <1>2, <1>4, SecondAssumption
<1>10. QED
    BY <1>1, <1>2, <1>3, <1>4, <1>5, <1>6, <1>7, <1>8, <1>9

LEMMA BucketInitInv ==
    BucketInit => BucketIInv
<1> SUFFICES ASSUME BucketInit PROVE BucketIInv
    OBVIOUS
<1>1. BucketTypeOK
  <2>1. /\ rate \in Rates /\ burst = BurstOf(rate) /\ level \in 0..burst /\ elapsed \in Nat
        /\ first \in Nat /\ earned \in Nat /\ admitted \in Nat
      BY RatesAssumption, SizesAssumption DEF BucketInit, BurstOf
  <2>2. passed \in BOOLEAN
      BY Zenon DEF BucketInit
  <2>3. QED
      BY <2>1, <2>2 DEF BucketTypeOK
<1>2. Second * (level + admitted) <= Second * first + earned
    BY <1>1, SecondAssumption DEF BucketInit, BucketTypeOK, BurstOf
<1>3. QED
    BY <1>1, <1>2 DEF BucketIInv, Conserved

LEMMA PollInv ==
    ASSUME BucketIInv, NEW bits \in Sizes, Poll(bits)
    PROVE  BucketIInv'
<1>1. /\ rate \in Nat /\ elapsed \in Nat /\ level \in Nat /\ burst \in Nat /\ admitted \in Nat
      /\ first \in Nat /\ earned \in Nat /\ bits \in Nat
    BY RatesAssumption, SizesAssumption DEF BucketIInv, BucketTypeOK, BurstOf
<1>2. Refilled \in 0..burst
    BY RefilledBounded DEF BucketIInv
<1>3. rate * elapsed \in Nat
    BY <1>1
<1> DEFINE a == IF Refilled >= bits THEN bits ELSE 0
<1>4. a \in Nat /\ level' \in Nat /\ level' + a <= Refilled /\ level' <= burst
    BY <1>1, <1>2 DEF Poll
<1>5. /\ earned' = (IF Metered THEN earned + rate * elapsed ELSE earned)
      /\ admitted' = (IF Metered THEN admitted + a ELSE admitted)
      /\ rate' = rate /\ burst' = burst /\ first' = first /\ elapsed' = 0 /\ passed' = (Refilled >= bits)
    BY DEF Poll, Earn, Admit
<1>6. BucketTypeOK'
  <2>1. rate' \in Rates /\ burst' = BurstOf(rate')
      BY <1>5 DEF BucketIInv, BucketTypeOK, BurstOf
  <2>2. level' \in 0..burst'
      BY <1>1, <1>4, <1>5
  <2>3. passed' \in BOOLEAN
    <3>1. (Refilled >= bits) \in BOOLEAN
        BY <1>1, <1>2
    <3>2. QED
        BY <3>1, <1>5, Zenon
  <2>4. elapsed' \in Nat /\ first' \in Nat /\ earned' \in Nat /\ admitted' \in Nat
      BY <1>1, <1>3, <1>4, <1>5
  <2>5. QED
      BY <2>1, <2>2, <2>3, <2>4 DEF BucketTypeOK
<1>7. Conserved'
  <2>1. CASE Metered
    <3>1. Second * (level' + (admitted + a)) <= Second * first + (earned + rate * elapsed)
        BY <2>1, <1>4, Spent
    <3>2. QED
        BY <2>1, <3>1, <1>5 DEF Conserved
  <2>2. CASE ~Metered
      BY <2>2 DEF Conserved
  <2>3. QED
      BY <2>1, <2>2
<1>8. QED
    BY <1>6, <1>7 DEF BucketIInv

LEMMA SetRateInv ==
    ASSUME BucketIInv, NEW r \in Rates, SetRate(r)
    PROVE  BucketIInv'
<1>1. /\ rate \in Nat /\ elapsed \in Nat /\ level \in Nat /\ burst \in Nat /\ admitted \in Nat
      /\ first \in Nat /\ earned \in Nat /\ BurstOf(r) \in Nat
    BY RatesAssumption, SizesAssumption DEF BucketIInv, BucketTypeOK, BurstOf
<1>2. Refilled \in 0..burst
    BY RefilledBounded DEF BucketIInv
<1>3. rate * elapsed \in Nat
    BY <1>1
<1>4. level' \in Nat /\ level' + 0 <= Refilled /\ level' <= BurstOf(r)
    BY <1>1, <1>2 DEF SetRate
<1>5. /\ earned' = (IF Metered THEN earned + rate * elapsed ELSE earned)
      /\ rate' = r /\ burst' = BurstOf(r) /\ elapsed' = 0
      /\ passed' = passed /\ first' = first /\ admitted' = admitted
    BY DEF SetRate, Earn
<1>6. BucketTypeOK'
  <2>1. rate' \in Rates /\ burst' = BurstOf(rate')
      BY <1>5 DEF BurstOf
  <2>2. level' \in 0..burst'
      BY <1>1, <1>4, <1>5
  <2>3. passed' \in BOOLEAN
      BY <1>5 DEF BucketIInv, BucketTypeOK
  <2>4. elapsed' \in Nat /\ first' \in Nat /\ earned' \in Nat /\ admitted' \in Nat
      BY <1>1, <1>3, <1>5
  <2>5. QED
      BY <2>1, <2>2, <2>3, <2>4 DEF BucketTypeOK
<1>7. Conserved'
  <2>1. CASE Metered
    <3>1. Second * (level' + (admitted + 0)) <= Second * first + (earned + rate * elapsed)
        BY <2>1, <1>4, Spent
    <3>2. admitted + 0 = admitted
        BY <1>1
    <3>3. QED
        BY <2>1, <3>1, <3>2, <1>5 DEF Conserved
  <2>2. CASE ~Metered
      BY <2>2 DEF Conserved
  <2>3. QED
      BY <2>1, <2>2
<1>8. QED
    BY <1>6, <1>7 DEF BucketIInv

LEMMA BucketStepInv ==
    BucketIInv /\ [BucketNext]_bucketVars => BucketIInv'
<1> SUFFICES ASSUME BucketIInv, [BucketNext]_bucketVars PROVE BucketIInv'
    OBVIOUS
<1>1. CASE Tick
    BY <1>1 DEF Tick, BucketIInv, BucketTypeOK, Conserved, BurstOf
<1>2. ASSUME NEW bits \in Sizes, Poll(bits) PROVE BucketIInv'
    BY <1>2, PollInv
<1>3. CASE PollUnlimited
    BY <1>3 DEF PollUnlimited, BucketIInv, BucketTypeOK, Conserved, BurstOf
<1>4. ASSUME NEW r \in Rates, SetRate(r) PROVE BucketIInv'
    BY <1>4, SetRateInv
<1>5. CASE UNCHANGED bucketVars
    BY <1>5 DEF bucketVars, BucketIInv, BucketTypeOK, Conserved, BurstOf
<1>6. QED
    BY <1>1, <1>2, <1>3, <1>4, <1>5 DEF BucketNext, Arrive

\* The policer's level never leaves its capacity (TokenBucket::poll, set_rate).
THEOREM LevelWithinBurst ==
    BucketSpec => []BucketTypeOK
<1>1. BucketIInv => BucketTypeOK
    BY DEF BucketIInv
<1>2. QED
    BY BucketInitInv, BucketStepInv, <1>1, PTL DEF BucketSpec

\* A policer of any rate lets at most its first burst and what its rate earned pass,
\* through any sequence of packets and rate changes (TokenBucket::poll, set_rate).
THEOREM RateBound ==
    BucketSpec => []RateIsBounded
<1>1. BucketIInv => RateIsBounded
  <2> SUFFICES ASSUME BucketIInv, Metered PROVE Second * admitted <= Second * first + earned
      BY DEF RateIsBounded
  <2>1. level \in Nat /\ admitted \in Nat /\ first \in Nat /\ earned \in Nat
      BY RatesAssumption, SizesAssumption DEF BucketIInv, BucketTypeOK, BurstOf
  <2>2. Second * admitted <= Second * (level + admitted)
      BY <2>1, BucketMonotone
  <2>3. Second * (level + admitted) <= Second * first + earned
      BY DEF BucketIInv, Conserved
  <2>4. Second * admitted \in Int /\ Second * (level + admitted) \in Int /\ Second * first \in Int
      BY <2>1, SecondAssumption
  <2>5. QED
      BY <2>1, <2>2, <2>3, <2>4
<1>2. QED
    BY BucketInitInv, BucketStepInv, <1>1, PTL DEF BucketSpec
-----------------------------------------------------------------------------
(* For every T3512, deadline and sweep: what a GPRS timer is worth, when a *)
(* reachable UE is kept, and how long the context of a lost one stays.     *)

Longest3 == 31 * 1152000

\* DivCeil rounds up to a multiple that is not below n.
LEMMA DivCeilCovers ==
    ASSUME NEW n \in Nat, NEW d \in Nat \ {0}
    PROVE  DivCeil(n, d) \in Nat /\ d * DivCeil(n, d) >= n
<1> DEFINE q == (n + d - 1) \div d
           r == (n + d - 1) % d
<1>1. n + d - 1 \in Nat  OBVIOUS
<1>2. q \in Nat /\ r \in 0..(d - 1) /\ n + d - 1 = d * q + r  BY <1>1, SMT
<1>3. QED  BY <1>2, SMT DEF DivCeil

\* The longest timer has a multiple for every time up to 31 steps of 320 hours.
LEMMA LongestFits ==
    ASSUME NEW n \in Nat, n <= Longest3
    PROVE  DivCeil(n, 1152000) <= 31
BY SMT DEF DivCeil, Longest3

\* A non-empty set of units has a finest one.
LEMMA FinestIsOne ==
    ASSUME NEW s \in SUBSET (1..7), s # {}
    PROVE  Finest(s) \in s
<1>1. \E i \in s : \A j \in s : i <= j
  <2>1. PICK k \in s : TRUE  OBVIOUS
  <2>2. CASE 1 \in s  BY <2>2
  <2>3. CASE 1 \notin s /\ 2 \in s  BY <2>3
  <2>4. CASE s \cap 1..2 = {} /\ 3 \in s  BY <2>4
  <2>5. CASE s \cap 1..3 = {} /\ 4 \in s  BY <2>5
  <2>6. CASE s \cap 1..4 = {} /\ 5 \in s  BY <2>6
  <2>7. CASE s \cap 1..5 = {} /\ 6 \in s  BY <2>7
  <2>8. CASE s \cap 1..6 = {}  BY <2>8, <2>1
  <2>9. QED  BY <2>2, <2>3, <2>4, <2>5, <2>6, <2>7, <2>8
<1>2. QED  BY <1>1 DEF Finest

LEMMA Units3Facts ==
    /\ DOMAIN Units3 = 1..7 /\ Len(Units3) = 7
    /\ \A i \in 1..7 : /\ Units3[i].step \in Nat \ {0}
                       /\ Units3[i].bits \in 0..6
    /\ \A i, j \in 1..7 : Units3[i].bits = Units3[j].bits => i = j
    /\ Units3[7].step = 1152000
<1>1. \A i \in 1..7 : i = 1 \/ i = 2 \/ i = 3 \/ i = 4 \/ i = 5 \/ i = 6 \/ i = 7  OBVIOUS
<1>2. QED  BY <1>1, SMT DEF Units3

\* What the UE reads is the unit and the multiple that were written.
LEMMA OctetIsRead ==
    ASSUME NEW i \in 1..7, NEW m \in 0..31
    PROVE  Seconds(Units3, Octet(Units3, [unit |-> i, multiple |-> m])) = Units3[i].step * m
<1> DEFINE o == Octet(Units3, [unit |-> i, multiple |-> m])
<1>1. Units3[i].bits \in 0..6  BY Units3Facts
<1>2. o = Units3[i].bits * 32 + m  BY DEF Octet
<1>3. o \div 32 = Units3[i].bits /\ o % 32 = m  BY <1>1, <1>2, SMT
<1>4. (CHOOSE k \in DOMAIN Units3 : Units3[k].bits = o \div 32) = i
  BY <1>3, Units3Facts
<1>5. QED  BY <1>3, <1>4 DEF Seconds

\* A back-off or a period sent to a UE is never shorter than what was asked for
\* (GprsTimer3::from_secs: "the UE backs off at least secs"), up to the longest timer.
THEOREM TimerCovers ==
    \A secs \in Nat : secs <= Longest3 =>
        Seconds(Units3, Octet(Units3, FromSecs(Units3, secs))) >= secs
<1> SUFFICES ASSUME NEW secs \in Nat, secs <= Longest3
             PROVE  Seconds(Units3, Octet(Units3, FromSecs(Units3, secs))) >= secs
  BY Zenon
<1> DEFINE s == Fits(Units3, secs)
           i == Finest(s)
           d == Units3[i].step
<1>1. s \in SUBSET (1..7) /\ 7 \in s  BY Units3Facts, LongestFits, SMT DEF Fits
<1>2. i \in s  BY <1>1, FinestIsOne
<1>3. i \in 1..7 /\ DivCeil(secs, d) <= 31  BY <1>1, <1>2 DEF Fits
<1>4. d \in Nat \ {0}  BY <1>3, Units3Facts, SMT
<1>5. FromSecs(Units3, secs) = [unit |-> i, multiple |-> DivCeil(secs, d)]
  BY <1>1 DEF FromSecs
<1>6. DivCeil(secs, d) \in 0..31 => Seconds(Units3, Octet(Units3, FromSecs(Units3, secs))) = d * DivCeil(secs, d)
  BY <1>3, <1>5, OctetIsRead
<1> HIDE DEF d
<1>7. DivCeil(secs, d) \in Nat /\ d * DivCeil(secs, d) >= secs  BY <1>4, DivCeilCovers
<1>8. QED  BY <1>3, <1>6, <1>7

-----------------------------------------------------------------------------
ReachTypeOK ==
    /\ ue \in {"connected", "idle", "gone"} /\ ctx \in {"connected", "retained", "none"}
    /\ ueClock \in Nat /\ idleFor \in Nat

\* An idle UE and its context count from the same moment, and only what has counted to
\* the deadline is evicted.
ReachIInv ==
    /\ ReachTypeOK
    /\ ue = "connected" => ctx = "connected"
    /\ ue = "idle" /\ ctx = "retained" => idleFor = ueClock
    /\ ue = "idle" /\ ctx # "retained" => ctx = "none" /\ ueClock >= ImplicitDeregSecs

\* A UE that comes back within the AMF's window finds its context, for every deadline
\* and every T3512 the UE may be told.
THEOREM WindowIsKept == ReachSpec => []KeptForTheWindow
<1> USE TimesAssumption
<1>1. ReachInit => ReachIInv  BY DEF ReachInit, ReachIInv, ReachTypeOK
<1>2. ReachIInv /\ [ReachNext]_reachVars => ReachIInv'
  <2> SUFFICES ASSUME ReachIInv, [ReachNext]_reachVars PROVE ReachIInv'  OBVIOUS
  <2>1. CASE Release  BY <2>1 DEF ReachIInv, ReachTypeOK, Release
  <2>2. CASE Return  BY <2>2 DEF ReachIInv, ReachTypeOK, Return
  <2>3. CASE Vanish  BY <2>3 DEF ReachIInv, ReachTypeOK, Vanish
  <2>4. CASE Elapse  BY <2>4 DEF ReachIInv, ReachTypeOK, Elapse
  <2>5. CASE Sweep  BY <2>5 DEF ReachIInv, ReachTypeOK, Sweep, Stale
  <2>6. CASE Done \/ UNCHANGED reachVars  BY <2>6 DEF ReachIInv, ReachTypeOK, Done, reachVars
  <2>7. QED  BY <2>1, <2>2, <2>3, <2>4, <2>5, <2>6 DEF ReachNext
<1>3. ReachIInv => KeptForTheWindow  BY DEF ReachIInv, ReachTypeOK, KeptForTheWindow
<1>4. QED  BY <1>1, <1>2, <1>3, PTL DEF ReachSpec

\* Whatever the deadline, a context does not outlive it by more than a sweep.
LingerInv ==
    /\ idleFor \in Nat /\ sinceSweep \in 0..SweepSecs
    /\ ctx = "retained" => idleFor <= ImplicitDeregSecs + sinceSweep

\* The sweep evicts in time, for every value of the constants.
THEOREM LingersNoLonger == ReachSpec => []EvictedInTime
<1> USE TimesAssumption
<1>1. ReachInit => LingerInv  BY DEF ReachInit, LingerInv
<1>2. LingerInv /\ [ReachNext]_reachVars => LingerInv'
  <2> SUFFICES ASSUME LingerInv, [ReachNext]_reachVars PROVE LingerInv'  OBVIOUS
  <2>1. CASE Release  BY <2>1 DEF LingerInv, Release
  <2>2. CASE Return  BY <2>2 DEF LingerInv, Return
  <2>3. CASE Vanish  BY <2>3 DEF LingerInv, Vanish
  <2>4. CASE Elapse  BY <2>4 DEF LingerInv, Elapse
  <2>5. CASE Sweep  BY <2>5 DEF LingerInv, Sweep, Stale
  <2>6. CASE Done \/ UNCHANGED reachVars  BY <2>6 DEF LingerInv, Done, reachVars
  <2>7. QED  BY <2>1, <2>2, <2>3, <2>4, <2>5, <2>6 DEF ReachNext
<1>3. LingerInv => EvictedInTime  BY DEF LingerInv, EvictedInTime
<1>4. QED  BY <1>1, <1>2, <1>3, PTL DEF ReachSpec
=============================================================================
