------------------------------- MODULE AkaSqn -------------------------------
(***************************************************************************)
(* 5G-AKA between a UE, the AMF, the AUSF, the UDM and the UDR, for one    *)
(* subscriber: who owns the sequence number, when it moves, and what the   *)
(* UE thinks of a challenge.                                               *)
(*                                                                         *)
(* A procedure is one registration that authenticates the subscriber       *)
(* (nf-amf/auth.rs).  Its calls reach the UDR one at a time but those of   *)
(* two procedures interleave.  Cryptography is ideal: a vector is its RAND *)
(* and its SQN, RES* and HXRES* name the RAND, AUTS names the RAND and the *)
(* SQN of the USIM, and K_AUSF is the vector itself.                       *)
(*                                                                         *)
(* The identity a procedure works with is the SUPI, or a SUCI when the UE  *)
(* conceals it with Profile A or B: the AMF cannot resolve that one        *)
(* (nas::suci_to_supi) and the UDM does when a vector is asked for.        *)
(***************************************************************************)
EXTENDS Integers, FiniteSets

CONSTANTS
    Procedures,     \* registrations of the subscriber
    Presents,       \* the identity each of them presents, "supi" or "suci"
    Drift,          \* how far the USIM is ahead of the UDR at first
    KekConfigured,  \* RADIAN_UDR_MASTER_KEY is set
    MaxFailures,    \* SBI calls that fail, and withdrawals
    MaxRestarts,    \* restarts of the UDR
    None

VARIABLES
    cred,       \* CREDENTIALS: "readable", or None when withdrawn
    sqn,        \* AUTH_STATE: the last SQN taken, or None
    usim,       \* the highest SQN the UE has accepted
    ctxs,       \* AUSF: the vectors that wait for their confirmation
    proc,       \* what each procedure does
    epoch,      \* how often a resynchronisation or a withdrawal has ended a count
    issued,     \* the SQN of every vector derived, and its epoch
    failures, restarts

vars == <<cred, sqn, usim, ctxs, proc, epoch, issued, failures, restarts>>

Vectors == [rand : Nat, sqn : Nat]
Ended == {"aborted", "success"}

\* A procedure that has not begun.
NotBegun(p) ==
    [at |-> "idle", id |-> Presents[p], vector |-> None, auts |-> None,
     resynced |-> FALSE, alone |-> TRUE, epoch |-> 0]

Init ==
    /\ cred = "readable" /\ sqn = 0
    /\ usim = Drift
    /\ ctxs = {} /\ issued = {} /\ epoch = 0
    /\ proc = [p \in Procedures |-> NotBegun(p)]
    /\ failures = 0 /\ restarts = 0

Active == {p \in Procedures : proc[p].at \notin Ended \cup {"idle"}}
Goes(p, at) == proc' = [proc EXCEPT ![p].at = at]

-----------------------------------------------------------------------------
(* The AMF and the AUSF: a challenge *)

\* AmfAuth::begin.  UDM generate_auth_data resolves a SUCI of either kind.
Begin(p) ==
    /\ proc[p].at = "idle"
    /\ proc' = [q \in Procedures |->
         IF q = p THEN [proc[q] EXCEPT !.at = "sqn", !.alone = Active = {}]
         ELSE IF q \in Active THEN [proc[q] EXCEPT !.alone = FALSE] ELSE proc[q]]
    /\ UNCHANGED <<cred, sqn, usim, ctxs, epoch, issued, failures, restarts>>

\* Mutant: the SQN that is handed out is not advanced.
TakeSqnOnly(p) ==
    /\ proc[p].at = "sqn"
    /\ IF cred = "readable" /\ sqn # None
       THEN proc' = [proc EXCEPT ![p].at = "derive", ![p].epoch = epoch,
                                 ![p].vector = [rand |-> 0, sqn |-> sqn + 1]]
       ELSE Goes(p, "aborted")
    /\ UNCHANGED <<cred, sqn, usim, ctxs, epoch, issued, failures, restarts>>

\* UDR generate_av, next_sqn: one transaction.  Unknown: 404.
TakeSqn(p) ==
    /\ proc[p].at = "sqn"
    /\ IF cred = "readable" /\ sqn # None
       THEN /\ sqn' = sqn + 1
            /\ proc' = [proc EXCEPT ![p].at = "derive", ![p].epoch = epoch,
                                    ![p].vector = [rand |-> 0, sqn |-> sqn + 1]]
       ELSE Goes(p, "aborted") /\ UNCHANGED sqn
    /\ UNCHANGED <<cred, usim, ctxs, epoch, issued, failures, restarts>>

\* UDR generate_av, generate_he_av: the key is read again, a fresh RAND drawn.
\* The AUSF keeps the vector under a new context id; the UE is challenged.
Derive(p) ==
    /\ proc[p].at = "derive"
    /\ IF cred = "readable"
       THEN LET v == [proc[p].vector EXCEPT !.rand = Cardinality(issued) + 1]
            IN /\ ctxs' = ctxs \cup {v}
               /\ proc' = [proc EXCEPT ![p].at = "challenge", ![p].vector = v]
               /\ issued' = issued \cup {[rand |-> v.rand, sqn |-> v.sqn, epoch |-> proc[p].epoch]}
       ELSE Goes(p, "aborted") /\ UNCHANGED <<ctxs, issued>>
    /\ UNCHANGED <<cred, sqn, usim, epoch, failures, restarts>>

-----------------------------------------------------------------------------
(* The UE *)

\* ue_recover_sqn, ue_authenticate: the SQN is ahead, the UE answers with RES*.
UeAccepts(p) ==
    /\ proc[p].at = "challenge"
    /\ proc[p].vector.sqn > usim
    /\ usim' = proc[p].vector.sqn
    /\ Goes(p, "response")
    /\ UNCHANGED <<cred, sqn, ctxs, epoch, issued, failures, restarts>>

\* compute_auts: it is not, the UE answers with the SQN it has.
UeSynchFailure(p) ==
    /\ proc[p].at = "challenge"
    /\ proc[p].vector.sqn <= usim
    /\ proc' = [proc EXCEPT ![p].at = "failure", ![p].auts = usim]
    /\ UNCHANGED <<cred, sqn, usim, ctxs, epoch, issued, failures, restarts>>

-----------------------------------------------------------------------------
(* Resynchronisation *)

\* on_authentication_failure: recoverable once.
SecondFailure(p) ==
    /\ proc[p].at = "failure" /\ proc[p].resynced
    /\ Goes(p, "aborted")
    /\ UNCHANGED <<cred, sqn, usim, ctxs, epoch, issued, failures, restarts>>

\* AmfAuth::resync with the identity of the context, AUSF authenticate, UDM
\* resync: the identity goes to the UDR as it is.  UDR resync_av, resync_sqn:
\* the subscriber exists and MAC-S verifies.
VerifyAuts(p) ==
    /\ proc[p].at = "failure" /\ ~proc[p].resynced
    /\ Goes(p, IF cred = "readable" /\ proc[p].id = "supi" THEN "adopt" ELSE "aborted")
    /\ UNCHANGED <<cred, sqn, usim, ctxs, epoch, issued, failures, restarts>>

\* RedbStore::resync_sqn, second transaction: the SQN is the UE's.  The AUSF
\* goes on to ask for a fresh vector.
Adopt(p) ==
    /\ proc[p].at = "adopt"
    /\ sqn' = proc[p].auts
    /\ epoch' = epoch + 1
    /\ proc' = [proc EXCEPT ![p].at = "sqn", ![p].resynced = TRUE]
    /\ UNCHANGED <<cred, usim, ctxs, issued, failures, restarts>>

-----------------------------------------------------------------------------
(* Confirmation *)

\* AmfAuth::finish and AUSF confirm: HRES* and RES* match, the context is used
\* up.  The AMF keeps working with the identity it has.
Confirm(p) ==
    /\ proc[p].at = "response"
    /\ ctxs' = ctxs \ {proc[p].vector}
    /\ Goes(p, IF proc[p].vector \in ctxs THEN "success" ELSE "aborted")
    /\ UNCHANGED <<cred, sqn, usim, epoch, issued, failures, restarts>>

-----------------------------------------------------------------------------
(* What else happens *)

\* A call between the functions fails: the procedure is given up.
CallFails(p) ==
    /\ p \in Active /\ failures < MaxFailures
    /\ failures' = failures + 1
    /\ Goes(p, "aborted")
    /\ UNCHANGED <<cred, sqn, usim, ctxs, epoch, issued, restarts>>

\* remove_subscriber
Withdraw ==
    /\ cred # None /\ failures < MaxFailures
    /\ failures' = failures + 1
    /\ cred' = None /\ sqn' = None /\ epoch' = epoch + 1
    /\ UNCHANGED <<usim, ctxs, proc, issued, restarts>>

\* The UDR starts again: calls to it fail, and provision_demo provisions the
\* subscriber unless its credentials decrypt under the key of this run.
UdrRestarts ==
    /\ restarts < MaxRestarts
    /\ restarts' = restarts + 1
    /\ IF cred = "readable" /\ KekConfigured
       THEN UNCHANGED <<cred, sqn>>
       ELSE cred' = "readable" /\ sqn' = 0
    /\ proc' = [p \in Procedures |->
         IF proc[p].at \in {"sqn", "derive", "adopt"}
         THEN [proc[p] EXCEPT !.at = "aborted", !.alone = FALSE]
         ELSE [proc[p] EXCEPT !.alone = FALSE]]
    /\ UNCHANGED <<usim, ctxs, epoch, issued, failures>>

\* One step of a procedure.
Step(p) ==
    \/ TakeSqn(p) \/ Derive(p)
    \/ UeAccepts(p) \/ UeSynchFailure(p)
    \/ SecondFailure(p) \/ VerifyAuts(p) \/ Adopt(p)
    \/ Confirm(p)

Next ==
    \/ \E p \in Procedures : Begin(p) \/ Step(p) \/ CallFails(p)
    \/ Withdraw \/ UdrRestarts
    \/ (\A p \in Procedures : proc[p].at \in Ended) /\ UNCHANGED vars

Spec == Init /\ [][Next]_vars

-----------------------------------------------------------------------------
(* Properties *)

TypeOK ==
    /\ cred \in {"readable", None} /\ sqn \in Nat \cup {None} /\ usim \in Nat
    /\ ctxs \subseteq Vectors
    /\ \A p \in Procedures :
         /\ proc[p].at \in Ended \cup {"idle", "sqn", "derive", "challenge", "response",
                                       "failure", "adopt"}
         /\ proc[p].at = "adopt" => proc[p].auts \in Nat

\* Two challenges out of the same counter have different SQNs, whatever
\* procedures take them at the same time: only a resynchronisation repeats one.
\* provision_demo "never resets a live SQN".
SqnNotReused ==
    \A v, w \in issued : v.epoch = w.epoch /\ v.sqn = w.sqn => v = w

\* "The AUSF relays it to the UDM to adopt the UE's SQN before fetching a fresh
\* 5G HE AV": however far the UE and the UDR are apart, a procedure that runs
\* alone is not given up unless a call fails.
OneResyncSuffices ==
    \A p \in Procedures :
      proc[p].at = "aborted" /\ failures = 0 => ~proc[p].alone

\* What the UE has accepted is confirmed: the vector it answers to is still with
\* the AUSF, whatever became of other procedures' vectors.
AcceptedIsConfirmable ==
    \A p \in Procedures : proc[p].at = "response" => proc[p].vector \in ctxs

\* UDM: "the AUSF/AMF key it by SUPI": an authenticated context is known by its
\* SUPI.
KeyedBySupi ==
    \A p \in Procedures : proc[p].at = "success" => proc[p].id = "supi"

\* "in-flight authentication contexts": a context belongs to a procedure that can
\* still confirm it.
ContextsInFlight ==
    \A v \in ctxs : \E p \in Active : proc[p].vector = v

\* Withdrawing removes the auth state too.
NoOrphanSqn == cred = None => sqn = None

=============================================================================
