----------------------------- MODULE PcfPolicy -----------------------------
(***************************************************************************)
(* The PCF and the function that acts on its decisions: SM policies with   *)
(* an SMF (npcf.rs) and, with the update pushed instead of pulled, AM      *)
(* policies with an AMF (npcf_am.rs).                                      *)
(*                                                                         *)
(* The PCF reads a subscriber's policy from the UDR each time it decides,  *)
(* folds the AF's influences in, and answers an update with what changed   *)
(* since the decision it has on record (DiffKeyed).  All sessions here     *)
(* are of one subscriber and DNN.                                          *)
(***************************************************************************)
EXTENDS Integers, FiniteSets

CONSTANTS
    Sessions,
    Updates,        \* update requests that can be under way together
    Influences,     \* AF requests (app-sessions)
    Policies,       \* the policy data a subscriber may have
    Default,        \* the decision of the local configuration
    UdrFails,       \* whether a read of the UDR may fail
    MaxChanges, MaxUpdates, MaxLosses,
    None, Null

Route == 9          \* the entry an influence adds

(* Partial updates (sbi-core policy.rs).  A decision is a set of keyed     *)
(* entries; an update names the entries that are new or changed, and with  *)
(* Null those that are gone.  An attribute of an AM policy is the same     *)
(* with one key: absent, null or a value on the wire are Keep, Clear, Set. *)

\* diff_keyed
DiffKeyed(prev, next) ==
    [id \in {i \in DOMAIN next : i \notin DOMAIN prev \/ prev[i] # next[i]}
              \cup (DOMAIN prev \ DOMAIN next)
       |-> IF id \in DOMAIN next THEN next[id] ELSE Null]

\* apply_keyed
ApplyKeyed(map, delta) ==
    [id \in {i \in DOMAIN map : i \notin DOMAIN delta}
              \cup {i \in DOMAIN delta : delta[i] # Null}
       |-> IF id \in DOMAIN delta THEN delta[id] ELSE map[id]]

\* FieldUpdate<T>, and its form on the wire: no key, null, or the value.
Keep == [is |-> "keep"]
Clear == [is |-> "clear"]
Set(v) == [is |-> "set", value |-> v]

\* FieldUpdate::diff over an Option: Null is None.
FieldDiff(prev, next) ==
    IF prev = next THEN Keep ELSE IF next = Null THEN Clear ELSE Set(next)

\* FieldUpdate::apply
FieldApply(u, current) ==
    IF u.is = "keep" THEN current ELSE IF u.is = "clear" THEN Null ELSE u.value

\* ser_field_update under skip_serializing_if, de_field_update under default.
Wire(u) ==
    IF u.is = "keep" THEN [present |-> FALSE, json |-> Null]
    ELSE [present |-> TRUE, json |-> IF u.is = "clear" THEN Null ELSE u.value]
FromWire(w) ==
    IF ~w.present THEN Keep ELSE IF w.json = Null THEN Clear ELSE Set(w.json)

VARIABLES
    base,       \* UDR: the subscriber's policy data
    infl,       \* PCF: the influences in effect
    assoc,      \* PCF: the decision on record for each association, or None
    held,       \* SMF: the decision each session works with, or None
    creating,   \* the decision of an association about to be made
    made,       \* the sessions that have had their association (ids are not reused)
    upd,        \* update requests
    af,         \* AF requests
    unsettled,  \* sessions whose updates overlapped, or one of them was lost
    count

vars == <<base, infl, assoc, held, creating, made, upd, af, unsettled, count>>

Bounds == [changes |-> MaxChanges, updates |-> MaxUpdates, losses |-> MaxLosses]
Counts(what) ==
    /\ count[what] < Bounds[what]
    /\ count' = [count EXCEPT ![what] = @ + 1]

Idle == [at |-> "idle", s |-> None, prev |-> None, fresh |-> None]

Init ==
    /\ base \in Policies /\ infl = {}
    /\ assoc = [s \in Sessions |-> None] /\ held = [s \in Sessions |-> None]
    /\ creating = [s \in Sessions |-> None] /\ made = {}
    /\ upd = [u \in Updates |-> Idle]
    /\ af = [i \in Influences |-> [at |-> "new", u |-> None]]
    /\ unsettled = {}
    /\ count = [what \in DOMAIN Bounds |-> 0]

\* base_decision_for: the UDR's policy data, or the local configuration when it
\* cannot be read.
BaseDecisions == {base} \cup {d \in {Default} : UdrFails}

\* decide_for: the base decision, then apply_influences and
\* apply_group_influences under keys of their own.
Decisions ==
    {[k \in DOMAIN b \cup infl |-> IF k \in infl THEN Route ELSE b[k]] : b \in BaseDecisions}

-----------------------------------------------------------------------------
(* Associations *)

\* put_sm_policy_data or put_am_policy_data at the UDR: the PCF is not told.
Provision ==
    /\ Counts("changes")
    /\ \E p \in Policies \ {base} : base' = p
    /\ UNCHANGED <<infl, assoc, held, creating, made, upd, af, unsettled>>

\* create_sm_policy: the decision ...
CreateDecide(s) ==
    /\ s \notin made /\ creating[s] = None
    /\ \E d \in Decisions : creating' = [creating EXCEPT ![s] = d]
    /\ UNCHANGED <<base, infl, assoc, held, made, upd, af, unsettled, count>>

\* ... is put on record and answered.
CreateInsert(s) ==
    /\ creating[s] # None
    /\ assoc' = [assoc EXCEPT ![s] = creating[s]]
    /\ held' = [held EXCEPT ![s] = creating[s]]
    /\ creating' = [creating EXCEPT ![s] = None]
    /\ made' = made \cup {s}
    /\ UNCHANGED <<base, infl, upd, af, unsettled, count>>

\* delete_sm_policy at the release of the session.
Delete(s) ==
    /\ held[s] # None
    /\ assoc' = [assoc EXCEPT ![s] = None]
    /\ held' = [held EXCEPT ![s] = None]
    /\ unsettled' = unsettled \ {s}
    /\ UNCHANGED <<base, infl, creating, made, upd, af, count>>

-----------------------------------------------------------------------------
(* Updates *)

Busy(s) == \E u \in Updates : upd[u].at # "idle" /\ upd[u].s = s

\* update_sm_policy: the decision on record is read ...
Begins(u, s) ==
    /\ upd[u].at = "idle" /\ assoc[s] # None
    /\ upd' = [upd EXCEPT ![u] = [at |-> "read", s |-> s, prev |-> assoc[s], fresh |-> None]]
    /\ unsettled' = IF Busy(s) THEN unsettled \cup {s} ELSE unsettled

\* The SMF re-authorises a session, or the operator an AM policy.
Refresh(u, s) ==
    /\ held[s] # None
    /\ Begins(u, s) /\ Counts("updates")
    /\ UNCHANGED <<base, infl, assoc, held, creating, made, af>>

\* ... a new one is made with nothing locked ...
UpdateDecide(u) ==
    /\ upd[u].at = "read"
    /\ \E d \in Decisions : upd' = [upd EXCEPT ![u].at = "decided", ![u].fresh = d]
    /\ UNCHANGED <<base, infl, assoc, held, creating, made, af, unsettled, count>>

\* ... and put on record unless the association has gone.
UpdateStore(u) ==
    /\ upd[u].at = "decided"
    /\ LET s == upd[u].s
       IN assoc' = [assoc EXCEPT ![s] = IF @ = None THEN None ELSE upd[u].fresh]
    /\ upd' = [upd EXCEPT ![u].at = "answered"]
    /\ UNCHANGED <<base, infl, held, creating, made, af, unsettled, count>>

\* The answer, or UpdateNotify, carries the difference: SmPolicyDecision::apply.
UpdateApply(u) ==
    /\ upd[u].at = "answered"
    /\ LET s == upd[u].s
       IN held' = [held EXCEPT ![s] =
                     IF @ = None THEN None
                     ELSE ApplyKeyed(@, DiffKeyed(upd[u].prev, upd[u].fresh))]
    /\ upd' = [upd EXCEPT ![u] = Idle]
    /\ UNCHANGED <<base, infl, assoc, creating, made, af, unsettled, count>>

\* It is lost: the caller logs an error.
UpdateLost(u) ==
    /\ upd[u].at = "answered" /\ Counts("losses")
    /\ upd' = [upd EXCEPT ![u] = Idle]
    /\ unsettled' = unsettled \cup {upd[u].s}
    /\ UNCHANGED <<base, infl, assoc, held, creating, made, af>>

-----------------------------------------------------------------------------
(* Npcf_PolicyAuthorization *)

\* create_app_session
AfCreate(i) ==
    /\ af[i].at = "new"
    /\ infl' = infl \cup {i}
    /\ af' = [af EXCEPT ![i].at = "notify"]
    /\ UNCHANGED <<base, assoc, held, creating, made, upd, unsettled, count>>

\* delete_app_session
AfDelete(i) ==
    /\ af[i].at = "answered" /\ i \in infl
    /\ infl' = infl \ {i}
    /\ af' = [af EXCEPT ![i].at = "notify"]
    /\ UNCHANGED <<base, assoc, held, creating, made, upd, unsettled, count>>

\* notify_uri_for: the first association found; the SMF updates that session.
AfNotify(i) ==
    /\ af[i].at = "notify"
    /\ \/ \E s \in Sessions, u \in Updates :
            Begins(u, s) /\ af' = [af EXCEPT ![i] = [at |-> "waits", u |-> u]]
       \/ /\ \A s \in Sessions : assoc[s] = None
          /\ af' = [af EXCEPT ![i].at = "answered"]
          /\ UNCHANGED <<upd, unsettled>>
    /\ UNCHANGED <<base, infl, assoc, held, creating, made, count>>

\* notify_smf is awaited.
AfAnswer(i) ==
    /\ af[i].at = "waits" /\ upd[af[i].u].at = "idle"
    /\ af' = [af EXCEPT ![i] = [at |-> "answered", u |-> None]]
    /\ UNCHANGED <<base, infl, assoc, held, creating, made, upd, unsettled, count>>

Next ==
    \/ Provision
    \/ \E s \in Sessions : CreateDecide(s) \/ CreateInsert(s) \/ Delete(s)
    \/ \E u \in Updates :
         \/ \E s \in Sessions : Refresh(u, s)
         \/ UpdateDecide(u) \/ UpdateStore(u) \/ UpdateApply(u) \/ UpdateLost(u)
    \/ \E i \in Influences : AfCreate(i) \/ AfDelete(i) \/ AfNotify(i) \/ AfAnswer(i)

Spec == Init /\ [][Next]_vars

-----------------------------------------------------------------------------
(* Properties *)

\* "The SMF merges it onto its stored policy": as long as a session's updates
\* come one at a time and none is lost, both sides have the same decision
\* whenever none is under way.
MergedIsOnRecord ==
    \A s \in Sessions :
      held[s] # None /\ s \notin unsettled /\ ~Busy(s) => held[s] = assoc[s]

\* "skip if the association was deleted meanwhile": a released session has no
\* association, whatever updates were under way.
DeletedStaysDeleted ==
    \A s \in Sessions : assoc[s] # None => held[s] # None

\* The same with updates that overlap.
OverlapAgrees ==
    \A s \in Sessions :
      held[s] # None /\ ~Busy(s) /\ count.losses = 0 => held[s] = assoc[s]

\* An update re-authorises "against the *current* policy ..., so a mid-session
\* policy change is reflected": when one has been applied, the session has the
\* decision the PCF has on record.
UpdateReflects ==
    [][\A u \in Updates :
         UpdateApply(u) /\ held[upd[u].s] # None /\ assoc[upd[u].s] = upd[u].fresh
           => held'[upd[u].s] = upd[u].fresh]_vars

\* "the AF's response means the influence has actually been applied"
InfluenceApplied ==
    \A i \in infl : af[i].at = "answered" /\ count.losses = 0 =>
      \A s \in Sessions : held[s] # None /\ ~Busy(s) => i \in DOMAIN held[s]

(* What they follow from *)

\* The decisions there may be: entries of the policy data and influences, none of them null.
Entries == Influences \cup UNION {DOMAIN p : p \in Policies \cup {Default}}
Values == {Route} \cup UNION {{p[k] : k \in DOMAIN p} : p \in Policies \cup {Default}}
Space == UNION {[D -> Values] : D \in SUBSET Entries}
PolicyData == Policies \cup {Default} \subseteq Space
PolicyNone == None \notin Space /\ Null \notin Values

PolicyTypes ==
    /\ base \in Policies /\ infl \subseteq Influences
    /\ {assoc, held, creating} \subseteq [Sessions -> Space \cup {None}]
    /\ upd \in [Updates -> [at : {"idle", "read", "decided", "answered"}, s : Sessions \cup {None},
                            prev : Space \cup {None}, fresh : Space \cup {None}]]
    /\ \A u \in Updates : upd[u].at # "idle" =>
         /\ upd[u].s \in made /\ upd[u].s \in Sessions /\ upd[u].prev # None
         /\ upd[u].at # "read" => upd[u].fresh # None

\* A session has one association in its life, which lasts as long as the SMF's decision.
OneLife ==
    \A s \in Sessions :
      /\ creating[s] # None => s \notin made
      /\ held[s] # None => s \in made
      /\ held[s] = None => assoc[s] = None

\* As long as a session's updates come one at a time, the one under way started from the
\* decision that the SMF has, and the PCF has that one until it has stored the next.
InStep ==
    \A s \in Sessions : held[s] # None /\ s \notin unsettled =>
      /\ ~Busy(s) => held[s] = assoc[s]
      /\ \A u \in Updates : upd[u].at # "idle" /\ upd[u].s = s =>
           /\ upd[u].prev = held[s]
           /\ assoc[s] = IF upd[u].at = "answered" THEN upd[u].fresh ELSE held[s]
           /\ \A w \in Updates : upd[w].at # "idle" /\ upd[w].s = s => w = u

PolicyIInv == PolicyTypes /\ OneLife /\ InStep
=============================================================================
