--------------------------- MODULE SecurityCounts ---------------------------
(***************************************************************************)
(* The two COUNTs of which only a sequence number travels, and that the    *)
(* receiver has to guess: the NAS COUNT of one direction of a security     *)
(* context (NasSecurityContext in crates/nas/src/lib.rs) and the COUNT of  *)
(* one direction of a PDCP bearer (crates/pdcp).                           *)
(***************************************************************************)
EXTENDS Integers, Sequences, FiniteSets

(***************************************************************************)
(* NAS: protect() at one end, unprotect() at the other.                    *)
(*                                                                         *)
(* Only the low 8 bits of the COUNT (the SN) are on the wire.  The MAC is  *)
(* computed over the whole COUNT, so the receiver has to guess the rest:   *)
(* a message is named here by the COUNT it was protected with, and its MAC *)
(* verifies exactly when the guess is that COUNT.  What lies between the   *)
(* ends may lose, delay, duplicate and reorder messages.                   *)
(***************************************************************************)
CONSTANTS
    Half,       \* half of the SN space: 0x80 in the code
    MaxCount    \* bound: messages protected

ASSUME HalfAssumption == Half \in Nat \ {0}
ASSUME MaxCountAssumption == MaxCount \in Nat

VARIABLES
    tx,         \* the sender's *count: the COUNT of the next message
    expected,   \* the receiver's *count: one above the last COUNT accepted
    accepted    \* history: the COUNTs accepted, in order

vars == <<tx, expected, accepted>>

\* Values of the SN: 0x100 in the code.
Block == 2 * Half

\* The wire SN of a COUNT.
Sn(count) == count % Block

Init == tx = 0 /\ expected = 0 /\ accepted = <<>>

\* Mutant: the block boundary is taken one SN early.
EstimateEarly(e, sn) ==
    LET c == (e - Sn(e)) + sn
    IN CASE c + Half <= e -> c + Block
         [] c + Half > e /\ c >= e + Half /\ c >= Block -> c - Block
         [] OTHER -> c

\* Mutant: an SN of the previous block is not recognised.
EstimateForward(e, sn) ==
    LET c == (e - Sn(e)) + sn IN IF c + Half < e THEN c + Block ELSE c

\* The COUNT unprotect() guesses for a wire SN when it expects e.
Estimate(e, sn) ==
    LET c == (e - Sn(e)) + sn
    IN IF c + Half < e THEN c + Block
       ELSE IF c >= e + Half /\ c >= Block THEN c - Block
       ELSE c

\* Mutant: no replay check.
FreshAlways(c, e) == TRUE

\* unprotect()'s replay check.
Fresh(c, e) == c >= e

\* unprotect() returns the message protected with COUNT m.
Accepts(e, m) == Estimate(e, Sn(m)) = m /\ Fresh(m, e)

\* The sender puts its COUNT's SN and MAC on a message.
Protect ==
    /\ tx < MaxCount
    /\ tx' = tx + 1
    /\ UNCHANGED <<expected, accepted>>

\* Some message sent earlier arrives, for the first time or again.  A message that
\* is not fresh, or whose MAC fails, is dropped and leaves everything as it was.
Unprotect ==
    \E m \in 0..(tx - 1) :
      /\ Accepts(expected, m)
      /\ expected' = m + 1
      /\ accepted' = Append(accepted, m)
      /\ UNCHANGED tx

Next == Protect \/ Unprotect

Spec == Init /\ [][Next]_vars

-----------------------------------------------------------------------------
(* Properties *)

TypeOK ==
    /\ tx \in Nat
    /\ expected \in Nat
    /\ accepted \in Seq(Nat)

\* The replay protection of unprotect(): however messages are lost, repeated and
\* reordered on the way, they are accepted in the order they were sent and none
\* twice.
AcceptedInOrder ==
    \A i, j \in DOMAIN accepted : i < j => accepted[i] < accepted[j]

\* Which messages the estimate lets through: the next Half COUNTs, and in the first
\* block every later COUNT of the block.  So up to Half - 1 messages may be lost in
\* a row; a message that comes after Half losses is taken for an old one.
AcceptsExactlyTheWindow ==
    \A m \in 0..(tx - 1) :
      Accepts(expected, m) <=>
        /\ m >= expected
        /\ m < expected + Half \/ (expected < Block /\ m < Block)

Distance(a, b) == IF a >= b THEN a - b ELSE b - a

\* The comment in unprotect(): the estimate is "the COUNT congruent to the SN that is
\* closest to *count".
EstimateIsClosest ==
    \A m \in 0..(tx - 1) :
      LET c == Estimate(expected, Sn(m))
      IN Sn(c) = Sn(m) /\ Distance(c, expected) <= Distance(m, expected)

-----------------------------------------------------------------------------
(***************************************************************************)
(* PDCP: the sender's COUNT, the sequence number on the air, and the COUNT *)
(* the receiver reconstructs.  NEA and NIA are ideal: a PDU opens to what  *)
(* was sealed only with its COUNT; with integrity (SRBs) a PDU opened with *)
(* another COUNT is refused, without (DRBs) it is delivered as garbage.    *)
(***************************************************************************)
CONSTANTS
    Window,         \* half of the SN space: 2^11 on an SRB, 2^17 on a DRB
    Hfns,           \* values of the hyper frame number: 2^20 or 2^14
    Integrity,      \* BOOLEAN: activate_integrity was called
    Skew,           \* how far lower layers let the two ends drift apart
    MaxNet          \* PDUs under way

SnSpace == 2 * Window
Counts == SnSpace * Hfns

\* TS 38.323: no more than the window lies between two ends in step.
ASSUME BearerAssumption ==
    /\ Window \in Nat \ {0} /\ Hfns \in Nat \ {0} /\ Integrity \in BOOLEAN
    /\ Skew \in Nat /\ Skew < Window /\ MaxNet \in Nat

VARIABLES
    tx_count, rx_count,
    net,        \* COUNTs of the PDUs under way
    opened,     \* the last PDU opened: the COUNT it was sealed and opened with
    refused     \* PDUs of the peer that failed the integrity check

bearerVars == <<tx_count, rx_count, net, opened, refused>>

BearerTypeOK ==
    /\ tx_count \in 0 .. Counts /\ rx_count \in 0 .. Counts
    /\ net \subseteq 0 .. (Counts - 1)
    /\ opened \in [sealed : Nat, as : Int]
    /\ refused \subseteq Nat

-----------------------------------------------------------------------------
PdcpSn(count) == count % SnSpace
HfnOf(count) == count \div SnSpace

\* Mutant: a PDU from before the wrap of the SN is taken for one after it.
rx_count_forAhead(rx, sn) ==
    LET ref == PdcpSn(rx)
        hfn == IF sn < ref /\ ref - sn > Window THEN HfnOf(rx) + 1 ELSE HfnOf(rx)
    IN SnSpace * hfn + sn

\* The COUNT of a received SN, from the one expected next.  The HFN wraps in 32
\* bits less those of the SN.
rx_count_for(rx, sn) ==
    LET ref == PdcpSn(rx)
        hfn == IF sn < ref /\ ref - sn > Window THEN (HfnOf(rx) + 1) % Hfns
               ELSE IF sn > ref /\ sn - ref > Window THEN (HfnOf(rx) - 1) % Hfns
               ELSE HfnOf(rx)
    IN SnSpace * hfn + sn

-----------------------------------------------------------------------------
BearerInit ==
    /\ tx_count = 0 /\ rx_count = 0 /\ net = {}
    /\ opened = [sealed |-> 0, as |-> 0] /\ refused = {}

InStep(count) == count - rx_count <= Skew /\ rx_count - count <= Skew

\* protect: tx_seal.  One key does not outlive its COUNTs.
TxSeal ==
    /\ tx_count < Counts - 1 /\ InStep(tx_count) /\ Cardinality(net) < MaxNet
    /\ net' = net \cup {tx_count}
    /\ tx_count' = tx_count + 1
    /\ UNCHANGED <<rx_count, opened, refused>>

\* unprotect: rx_open.  A PDU may come late, or twice.
RxOpen ==
    /\ \E count \in net :
         LET c == rx_count_for(rx_count, PdcpSn(count))
         IN /\ InStep(count)
            /\ net' \in {net, net \ {count}}
            /\ IF Integrity /\ c # count
               THEN refused' = refused \cup {count} /\ UNCHANGED <<rx_count, opened>>
               ELSE /\ rx_count' = c + 1
                    /\ opened' = [sealed |-> count, as |-> c]
                    /\ UNCHANGED refused
    /\ UNCHANGED tx_count

\* The radio link loses a PDU.
Lose ==
    /\ \E count \in net : net' = net \ {count}
    /\ UNCHANGED <<tx_count, rx_count, opened, refused>>

BearerNext == TxSeal \/ RxOpen \/ Lose

BearerSpec == BearerInit /\ [][BearerNext]_bearerVars

-----------------------------------------------------------------------------
(* Properties *)

\* While the ends are less than a window apart every PDU is opened with the COUNT
\* it was sealed with, whatever is lost, late or repeated around the wrap of the
\* SN: no user packet becomes garbage and no signalling message is refused.
OpenedAsSealed == opened.as = opened.sealed /\ refused = {}

=============================================================================
