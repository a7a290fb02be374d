----------------------------- MODULE SdmNotify -----------------------------
(***************************************************************************)
(* Nudm_SDM: how a change of a subscriber's am-data in the UDR reaches the *)
(* AMF that has a copy of it.                                              *)
(*                                                                         *)
(* A PUT stores the document, asks the UDM to fan the change out and waits *)
(* (nudr.rs put_am_data).  The UDM calls the subscribed callbacks one      *)
(* after the other (nudm.rs sdm_notify_change).  The AMF's callback looks  *)
(* the UE up, reads the document again and hands it to the association's   *)
(* task (nf-amf sdm_notify, on_sdm_data_change).  The AMF subscribes and   *)
(* unsubscribes from tasks it spawns.  A document is its version.          *)
(***************************************************************************)
EXTENDS Integers, Sequences, FiniteSets

CONSTANTS
    Puts,               \* requests that change the am-data
    MaxRegistrations,   \* registrations of the UE
    MaxIdle,            \* times its connection is released
    MaxLosses,          \* calls that fail
    MaxUdmRestarts,
    None

VARIABLES
    doc,        \* UDR: the version of the am-data
    change,     \* the requests
    subs,       \* UDM, SdmStore: ids of the subscriptions, all of this AMF
    nextId,     \* UDM: next_id
    held,       \* AMF, SDM_SUBS: the id it knows, or None
    calls,      \* AMF: spawned subscribe and unsubscribe calls
    ue,         \* AMF: the context and its copy of the am-data
    queue,      \* commands to the association's task
    sent,       \* the highest version ever handed to the task for this context
    count

vars == <<doc, change, subs, nextId, held, calls, ue, queue, sent, count>>

Bounds == [registrations |-> MaxRegistrations, idle |-> MaxIdle,
           losses |-> MaxLosses, restarts |-> MaxUdmRestarts]
Counts(what) ==
    /\ count[what] < Bounds[what]
    /\ count' = [count EXCEPT ![what] = @ + 1]

Init ==
    /\ doc = 0
    /\ change = [p \in Puts |-> [at |-> "new", ver |-> 0, todo |-> 0, id |-> None,
                              got |-> None, owed |-> None]]
    /\ subs = {} /\ nextId = 0 /\ held = None /\ calls = {}
    /\ ue = [at |-> "none", id |-> 0, view |-> None]
    /\ queue = <<>> /\ sent = 0
    /\ count = [what \in DOMAIN Bounds |-> 0]

\* UE_DIRECTORY has an entry while the UE is connected.
Listed == ue.at \in {"registering", "registered"}

-----------------------------------------------------------------------------
(* AMF: registration *)

\* send_registration_accept reads the am-data with the registration half done.
\* A registered UE may register again: a new context takes the entry over.
Register ==
    /\ Counts("registrations")
    /\ ue' = [at |-> "registering", id |-> ue.id + 1, view |-> doc]
    /\ sent' = doc
    /\ UNCHANGED <<doc, change, subs, nextId, held, calls, queue>>

\* Registration Complete: spawn_sdm_subscribe.
Complete ==
    /\ ue.at = "registering"
    /\ ue' = [ue EXCEPT !.at = "registered"]
    /\ calls' = calls \cup {[op |-> "subscribe", ue |-> ue.id, sub |-> None]}
    /\ UNCHANGED <<doc, change, subs, nextId, held, queue, sent, count>>

\* Deregistration of any kind: spawn_sdm_unsubscribe.
Deregister ==
    /\ ue.at \in {"registering", "registered", "idle"}
    /\ ue' = [ue EXCEPT !.at = "none", !.view = None]
    /\ held' = None
    /\ calls' = IF held = None THEN calls
                ELSE calls \cup {[op |-> "unsubscribe", ue |-> ue.id, sub |-> held]}
    /\ UNCHANGED <<doc, change, subs, nextId, queue, sent, count>>

\* AN release takes the entry away; a service request brings it back.
GoIdle ==
    /\ ue.at = "registered" /\ Counts("idle")
    /\ ue' = [ue EXCEPT !.at = "idle"]
    /\ UNCHANGED <<doc, change, subs, nextId, held, calls, queue, sent>>

Resume ==
    /\ ue.at = "idle"
    /\ ue' = [ue EXCEPT !.at = "registered"]
    /\ UNCHANGED <<doc, change, subs, nextId, held, calls, queue, sent, count>>

-----------------------------------------------------------------------------
(* UDM: SdmStore *)

\* sdm_subscribe: a new entry, whatever the SUPI has already.
Subscribed(c) ==
    /\ c \in calls /\ c.op = "subscribe" /\ c.sub = None
    /\ nextId' = nextId + 1
    /\ subs' = subs \cup {nextId}
    /\ calls' = (calls \ {c}) \cup {[c EXCEPT !.sub = nextId]}
    /\ UNCHANGED <<doc, change, held, ue, queue, sent, count>>

\* The answer is back at the AMF.
Keep(c) ==
    /\ c \in calls /\ c.op = "subscribe" /\ c.sub # None
    /\ held' = c.sub
    /\ calls' = calls \ {c}
    /\ UNCHANGED <<doc, change, subs, nextId, ue, queue, sent, count>>

\* sdm_unsubscribe: 204 or 404.
Unsubscribed(c) ==
    /\ c \in calls /\ c.op = "unsubscribe"
    /\ subs' = subs \ {c.sub}
    /\ calls' = calls \ {c}
    /\ UNCHANGED <<doc, change, nextId, held, ue, queue, sent, count>>

CallFails(c) ==
    /\ c \in calls /\ Counts("losses")
    /\ calls' = calls \ {c}
    /\ UNCHANGED <<doc, change, subs, nextId, held, ue, queue, sent>>

\* The subscriptions are in memory.
UdmRestarts ==
    /\ Counts("restarts")
    /\ subs' = {} /\ nextId' = 0
    /\ UNCHANGED <<doc, change, held, calls, ue, queue, sent>>

-----------------------------------------------------------------------------
(* A change *)

\* put_doc: one transaction.
Store(p) ==
    /\ change[p].at = "new"
    /\ doc' = doc + 1
    /\ change' = [change EXCEPT ![p].at = "stored", ![p].ver = doc + 1]
    /\ UNCHANGED <<subs, nextId, held, calls, ue, queue, sent, count>>

\* notify_udm_data_change, sdm_notify_change: callbacks_for the SUPI.  With no
\* subscription the request is answered.  (owed: the context that has a right
\* to hear of it.)
FanOut(p) ==
    /\ change[p].at = "stored"
    /\ change' = [change EXCEPT
         ![p].at = IF subs = {} THEN "done" ELSE "calling",
         ![p].todo = Cardinality(subs),
         ![p].owed = IF subs # {} /\ ue.at = "registered" THEN ue.id ELSE None]
    /\ UNCHANGED <<doc, subs, nextId, held, calls, ue, queue, sent, count>>

\* The UDM, or a callback, cannot be reached: the next one, or the answer.
NotifyFails(p) ==
    /\ change[p].at \in {"stored", "calling"} /\ Counts("losses")
    /\ change' = [change EXCEPT
         ![p].at = IF change[p].todo > 1 THEN "calling" ELSE "done",
         ![p].todo = IF change[p].at = "calling" THEN @ - 1 ELSE 0]
    /\ UNCHANGED <<doc, subs, nextId, held, calls, ue, queue, sent>>

\* A callback is done: the next one, or the answer to the PUT.
CallbackDone(r) == [r EXCEPT !.todo = @ - 1, !.id = None, !.got = None,
                      !.at = IF r.todo > 1 THEN "calling" ELSE "done"]

\* sdm_notify: the entry of the UE.  None: 204, nothing to do.
Lookup(p) ==
    /\ change[p].at = "calling"
    /\ change' = [change EXCEPT ![p] = IF Listed THEN [@ EXCEPT !.at = "fetching", !.id = ue.id]
                                 ELSE CallbackDone(@)]
    /\ UNCHANGED <<doc, subs, nextId, held, calls, ue, queue, sent, count>>

\* fetch_am_data, through UDM sdm_fetch and UDR get_doc.
Fetch(p) ==
    /\ change[p].at = "fetching"
    /\ change' = [change EXCEPT ![p].at = "sending", ![p].got = doc]
    /\ UNCHANGED <<doc, subs, nextId, held, calls, ue, queue, sent, count>>

\* The task is sent UpdateSubscribedData.
Send(p) ==
    /\ change[p].at = "sending"
    /\ queue' = Append(queue, [id |-> change[p].id, ver |-> change[p].got])
    /\ sent' = IF change[p].id = ue.id /\ change[p].got > sent THEN change[p].got ELSE sent
    /\ change' = [change EXCEPT ![p] = CallbackDone(@)]
    /\ UNCHANGED <<doc, subs, nextId, held, calls, ue, count>>

\* on_sdm_data_change: the copy is what the command says.
Apply ==
    /\ queue # <<>>
    /\ queue' = Tail(queue)
    /\ ue' = IF Head(queue).id = ue.id /\ ue.at # "none"
             THEN [ue EXCEPT !.view = Head(queue).ver] ELSE ue
    /\ UNCHANGED <<doc, change, subs, nextId, held, calls, sent, count>>

Change(p) == Store(p) \/ FanOut(p) \/ Lookup(p) \/ Fetch(p) \/ Send(p)

Next ==
    \/ Register \/ Complete \/ Deregister \/ GoIdle \/ Resume
    \/ \E c \in calls : Subscribed(c) \/ Keep(c) \/ Unsubscribed(c) \/ CallFails(c)
    \/ UdmRestarts
    \/ \E p \in Puts : Change(p) \/ NotifyFails(p)
    \/ Apply

Spec == Init /\ [][Next]_vars

-----------------------------------------------------------------------------
(* Properties *)

Quiet == calls = {} /\ queue = <<>> /\ \A p \in Puts : change[p].at \in {"new", "done"}

TypeOK ==
    /\ doc \in Nat /\ nextId \in Nat /\ subs \subseteq 0..(nextId - 1)
    /\ ue.at \in {"none", "registering", "registered", "idle"}
    /\ (ue.at = "none") <=> (ue.view = None)
    /\ \A p \in Puts : change[p].at \in {"new", "stored", "calling", "fetching", "sending", "done"}

\* "awaited so the change is delivered before the PUT returns": when a PUT has
\* returned, the task of a UE that was registered and subscribed when the change
\* was fanned out has been handed that version or a later one, unless a call was
\* lost or the UE has gone.
DeliveredBeforeReturn ==
    \A p \in Puts :
      /\ change[p].at = "done" /\ change[p].owed # None
      /\ change[p].owed = ue.id /\ count.losses = 0 /\ count.idle = 0 /\ ue.at = "registered"
      => sent >= change[p].ver

\* "we re-read the authoritative data": the copy never goes back to an older
\* version.
ViewNeverGoesBack ==
    [][ue'.id = ue.id /\ ue.view # None /\ ue'.view # None => ue'.view >= ue.view]_vars

\* Subscription ids are "kept so a deregistration can unsubscribe at the UDM": a
\* subscription is one the AMF knows.
SubscriptionsAreHeld == Quiet => subs \subseteq {held}

\* The subscription is there "so a mid-registration change refreshes our cached
\* view": with nothing under way, the copy of a registered and subscribed UE is
\* what the UDR has.
ViewIsCurrent ==
    Quiet /\ ue.at = "registered" /\ held \in subs /\ count.losses = 0 => ue.view = doc
=============================================================================
