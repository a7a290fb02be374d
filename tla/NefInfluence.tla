---------------------------- MODULE NefInfluence ----------------------------
(***************************************************************************)
(* The NEF's traffic influence API (sbi-core nnef.rs): an AF subscribes,   *)
(* the NEF authorises the request against the AF's key and contract,       *)
(* applies it at the UDR (a group), the PCF (one UE) or, when no PCF is    *)
(* found, the SMF's breakout trigger, and records how, so that a delete    *)
(* can withdraw it.  One session of one UE stands for the SMF's side.      *)
(***************************************************************************)
EXTENDS Integers, Sequences, FiniteSets, Functions, SequencesExt

CONSTANTS
    Afs,
    Requests,       \* ids of the requests made
    Contents,       \* what they may ask for: [af, key, dnn, gid, anyUe, ues, prefix, dnais]
    Sla,            \* AF -> [dnns, dnais, ues, group], for the AFs with a contract
    MaxFailures,    \* calls that are lost, and discoveries that leave nobody to call
    MaxSessions,    \* times the UE's session is released and made again
    None

ContentAssumption == DOMAIN Sla \subseteq Afs

VARIABLES
    at,         \* what each request has come to
    applied,    \* and how it was applied
    subs,       \* NEF: the recorded subscriptions
    docs,       \* UDR: influence documents, and the request each was written for
    apps,       \* PCF: app-sessions
    breakout,   \* SMF: the request whose breakout the session has, or None
    withdrawing,\* subscriptions taken by a delete that has not finished
    failures, sessions,
    asked       \* what a request that was let through asks for

vars == <<at, applied, subs, docs, apps, breakout, withdrawing, failures, sessions, asked>>

Init ==
    /\ at = [r \in Requests |-> "new"] /\ applied = [r \in Requests |-> None]
    /\ subs = {} /\ docs = [k \in {} |-> None] /\ apps = {} /\ breakout = None
    /\ withdrawing = {} /\ failures = 0 /\ sessions = 0
    /\ asked = [r \in Requests |-> None]

-----------------------------------------------------------------------------
(* Authorisation, with keys and contracts configured (without, everything is let through) *)

\* authorize_af: the key presented is the one of the AF in the path.
AuthorizeAf(af, key) == key = af

\* AfSla::permits, permits_dnn: "*" permits everything, and only it a request without DNN.
Permits(set, v) == "*" \in set \/ v \in set
PermitsDnn(sla, dnn) == IF dnn = None THEN "*" \in sla.dnns ELSE Permits(sla.dnns, dnn)

\* permits_supi: identities are sequences, of which a contract lists prefixes.
PermitsSupi(sla, u) == <<"*">> \in sla.ues \/ \E s \in sla.ues : IsPrefix(s, u)

IsGroup(c) == c.anyUe \/ c.gid # None

\* Mutant: the contract's DNNs are not looked at.
AuthorizeAnyDnn(c) ==
    /\ c.af \in DOMAIN Sla
    /\ LET sla == Sla[c.af]
       IN /\ \A d \in c.dnais : Permits(sla.dnais, d)
          /\ IsGroup(c) => sla.group
          /\ ~c.anyUe => \A u \in c.ues : PermitsSupi(sla, u)

\* authorize_request: every route's DNAI, every member of a group that is not any UE, or
\* the one UE.
AuthorizeRequest(c) ==
    /\ c.af \in DOMAIN Sla
    /\ LET sla == Sla[c.af]
       IN /\ PermitsDnn(sla, c.dnn)
          /\ \A d \in c.dnais : Permits(sla.dnais, d)
          /\ IsGroup(c) => sla.group
          /\ ~c.anyUe => \A u \in c.ues : PermitsSupi(sla, u)

-----------------------------------------------------------------------------
(* create_subscription *)

\* A request without prefix, without route or, for one UE, without its identity is bad.
Authorise(r, c) ==
    /\ at[r] = "new"
    /\ IF /\ AuthorizeAf(c.af, c.key) /\ AuthorizeRequest(c)
          /\ c.prefix # None /\ c.dnais # {} /\ (IsGroup(c) \/ c.ues # {})
       THEN at' = [at EXCEPT ![r] = "authorised"] /\ asked' = [asked EXCEPT ![r] = c]
       ELSE at' = [at EXCEPT ![r] = "refused"] /\ UNCHANGED asked
    /\ UNCHANGED <<applied, subs, docs, apps, breakout, withdrawing, failures, sessions>>

Fails == failures < MaxFailures /\ failures' = failures + 1

\* store_group_influence: the document is keyed by the group and the prefix.
InfluenceId(r) == <<IF asked[r].gid = None THEN "any-ue" ELSE asked[r].gid, asked[r].prefix>>

Put(r) ==
    docs' = [k \in DOMAIN docs \cup {InfluenceId(r)} |-> IF k = InfluenceId(r) THEN r ELSE docs[k]]

ApplyGroup(r) ==
    /\ at[r] = "authorised" /\ IsGroup(asked[r])
    /\ Put(r)
    /\ at' = [at EXCEPT ![r] = "applied"] /\ applied' = [applied EXCEPT ![r] = "udr"]
    /\ UNCHANGED <<subs, apps, breakout, withdrawing, failures, sessions, asked>>

\* authorize_at_pcf
ApplyPcf(r) ==
    /\ at[r] = "authorised" /\ ~IsGroup(asked[r])
    /\ apps' = apps \cup {r}
    /\ at' = [at EXCEPT ![r] = "applied"] /\ applied' = [applied EXCEPT ![r] = "pcf"]
    /\ UNCHANGED <<subs, docs, breakout, withdrawing, failures, sessions, asked>>

\* steer_at_smf: no PCF is found, or deployed.  The SMF refuses a second breakout.
ApplySmf(r) ==
    /\ at[r] = "authorised" /\ ~IsGroup(asked[r])
    /\ IF breakout = None
       THEN /\ breakout' = r
            /\ at' = [at EXCEPT ![r] = "applied"] /\ applied' = [applied EXCEPT ![r] = "smf"]
       ELSE /\ at' = [at EXCEPT ![r] = "refused"] /\ UNCHANGED <<breakout, applied>>
    /\ UNCHANGED <<subs, docs, apps, withdrawing, failures, sessions, asked>>

\* Nothing is found or the call fails: 502.  The call may have been carried out.
ApplyFails(r) ==
    /\ at[r] = "authorised" /\ Fails
    /\ at' = [at EXCEPT ![r] = "refused"]
    /\ \/ UNCHANGED <<docs, apps>>
       \/ ~IsGroup(asked[r]) /\ apps' = apps \cup {r} /\ UNCHANGED docs
       \/ IsGroup(asked[r]) /\ Put(r) /\ UNCHANGED apps
    /\ UNCHANGED <<applied, subs, breakout, withdrawing, sessions, asked>>

\* record, and the answer with the subscription's id.
Record(r) ==
    /\ at[r] = "applied"
    /\ at' = [at EXCEPT ![r] = "live"] /\ subs' = subs \cup {r}
    /\ UNCHANGED <<applied, docs, apps, breakout, withdrawing, failures, sessions, asked>>

-----------------------------------------------------------------------------
(* delete_subscription *)

\* take_owned; somebody else's subscription is answered as if it were gone.
Take(af, key, r) ==
    /\ r \in subs /\ AuthorizeAf(af, key) /\ asked[r].af = af
    /\ subs' = subs \ {r} /\ withdrawing' = withdrawing \cup {r}
    /\ UNCHANGED <<at, applied, docs, apps, breakout, failures, sessions, asked>>

\* "Withdraw the way it was authorized"
Withdraw(r) ==
    /\ r \in withdrawing
    /\ CASE applied[r] = "udr" -> /\ docs' = Restrict(docs, DOMAIN docs \ {InfluenceId(r)})
                                  /\ UNCHANGED <<apps, breakout>>
         [] applied[r] = "pcf" -> apps' = apps \ {r} /\ UNCHANGED <<docs, breakout>>
         [] applied[r] = "smf" -> breakout' = None /\ UNCHANGED <<docs, apps>>
    /\ at' = [at EXCEPT ![r] = "deleted"] /\ withdrawing' = withdrawing \ {r}
    /\ UNCHANGED <<applied, subs, failures, sessions, asked>>

\* Nothing is discovered (502), or the call is lost and its result ignored (204).
WithdrawFails(r) ==
    /\ r \in withdrawing /\ Fails
    /\ at' = [at EXCEPT ![r] = "deleted"] /\ withdrawing' = withdrawing \ {r}
    /\ UNCHANGED <<applied, subs, docs, apps, breakout, sessions, asked>>

-----------------------------------------------------------------------------
\* The UE's session is released and established again, without a breakout.
RenewSession ==
    /\ sessions < MaxSessions /\ breakout # None
    /\ sessions' = sessions + 1 /\ breakout' = None
    /\ UNCHANGED <<at, applied, subs, docs, apps, withdrawing, failures, asked>>

Next ==
    \/ \E r \in Requests :
         \/ \E c \in Contents : Authorise(r, c)
         \/ ApplyGroup(r) \/ ApplyPcf(r) \/ ApplySmf(r) \/ ApplyFails(r)
         \/ Record(r) \/ Withdraw(r) \/ WithdrawFails(r)
         \/ \E af, key \in Afs : Take(af, key, r)
    \/ RenewSession

Spec == Init /\ [][Next]_vars

-----------------------------------------------------------------------------
(* Properties *)

TypeOK ==
    /\ at \in [Requests -> {"new", "refused", "authorised", "applied", "live", "deleted"}]
    /\ applied \in [Requests -> {None, "udr", "pcf", "smf"}]
    /\ subs \subseteq {r \in Requests : at[r] = "live"}
    /\ withdrawing \subseteq {r \in Requests : at[r] = "live"} /\ withdrawing \cap subs = {}
    /\ apps \subseteq Requests /\ breakout \in Requests \cup {None}

InEffect == apps \cup ({breakout} \ {None}) \cup {docs[k] : k \in DOMAIN docs}

\* "an AF cannot steer subscribers, DNNs, or edges outside its contract even with a
\* valid key": nothing that is in effect anywhere (UDR, PCF or SMF) is for a DNN, an edge,
\* a UE or a group outside the contract of the AF whose key asked for it.
WithinSla ==
    \A r \in InEffect :
      LET c == asked[r]
          sla == Sla[c.af]
      IN /\ c.key = c.af /\ c.af \in DOMAIN Sla
         /\ c.dnn \in sla.dnns \/ "*" \in sla.dnns
         /\ c.dnais # {} /\ (c.dnais \subseteq sla.dnais \/ "*" \in sla.dnais)
         /\ c.gid # None \/ c.anyUe => sla.group
         /\ ~c.anyUe => \A u \in c.ues : \E s \in sla.ues : s = <<"*">> \/ IsPrefix(s, u)

\* "tracks the subscription so a delete undoes the insert": as long as no call is lost and
\* no discovery leaves the NEF with nobody to call, nothing stays in effect once every
\* subscription has been deleted.  With a failure it may: DeleteCanBeRetried.
NothingLeftBehind ==
    failures = 0 /\ (\A r \in Requests : at[r] \in {"new", "refused", "deleted"}) => InEffect = {}

\* An influence by an app-session whose subscription nobody is deleting is in effect.  Of
\* one by a document or a breakout this is not so (the next two).
PcfInfluenceStands == \A r \in subs : applied[r] = "pcf" => r \in apps

\* Divergence: "a delete is honored only for the owning AF, so one AF cannot withdraw
\* another's influence": a subscribed group influence has its document.
GroupInfluenceStands ==
    \A r \in subs : applied[r] = "udr" => InfluenceId(r) \in DOMAIN docs /\ asked[docs[InfluenceId(r)]].af = asked[r].af

\* Divergence, the same of a breakout: it goes with a delete of its own AF, or with the
\* session.
DirectInfluenceStands ==
    [][breakout # None /\ breakout' # breakout =>
         \/ sessions' # sessions
         \/ \E r \in withdrawing \ withdrawing' : asked[r].af = asked[breakout].af]_vars

\* Divergence: what stays in effect belongs to a subscription that can be deleted.
DeleteCanBeRetried ==
    \A r \in InEffect : at[r] # "deleted"
=============================================================================
