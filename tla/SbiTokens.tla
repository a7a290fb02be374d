----------------------------- MODULE SbiTokens -----------------------------
(***************************************************************************)
(* OAuth2 on the SBI (crates/sbi-core/src/oauth.rs, access_token in        *)
(* nnrf.rs): the NRF issues access tokens, a client NF caches them per     *)
(* target (TokenSource), a protected NF verifies them against the NRF's    *)
(* public key, which it caches too (JwksCache).                            *)
(*                                                                         *)
(* A task of the client is one call of a protected service.  It and its    *)
(* verification at the target await the NRF twice or more; caches are      *)
(* locked only while they are read or written.  The NRF makes a key at     *)
(* start-up and forgets registrations when it restarts.  Times are what is *)
(* left of a lifetime.                                                     *)
(***************************************************************************)
EXTENDS Naturals, FiniteSets

CONSTANTS
    Tasks,        \* calls the client has under way at one time
    Services,     \* Services[target]: the services of each target NF type
    Allowed,      \* targets that authz_policy lets the client's type have
    Asymmetric,   \* ES256 with JWKS (TRUE) or a shared secret (FALSE)
    ScopeOf,      \* ScopeOf[s]: the scope a client of service s asks for
    Lifetime,     \* TOKEN_TTL_SECS
    Margin,       \* the 30 s before expiry in which token_for asks again
    MaxRestarts,  \* bound: restarts of the NRF
    MaxFailures,  \* bound: requests to the NRF that fail
    None

TokenAssumption ==
    /\ Lifetime \in Nat /\ Margin \in Nat /\ Margin < Lifetime
    /\ MaxRestarts \in Nat /\ MaxFailures \in Nat
    /\ Asymmetric \in BOOLEAN /\ Allowed \subseteq DOMAIN Services

VARIABLES
    key,         \* the NRF's signing key; grows with every restart
    registered,  \* whether the NRF knows the client
    cache,       \* cache[target]: TokenSource's token and what it thinks is left of it
    jwks,        \* jwks[target]: the key the target has cached, or None
    call,        \* call[t]: the call of task t, or None
    restarts, failures

vars == <<key, registered, cache, jwks, call, restarts, failures>>

Targets == DOMAIN Services

Init ==
    /\ key = 0 /\ registered = TRUE
    /\ cache = [g \in Targets |-> None]
    /\ jwks = [g \in Targets |-> None]
    /\ call = [t \in Tasks |-> None]
    /\ restarts = 0 /\ failures = 0

\* Where task t is.
At(t, at) == call[t] # None /\ call[t].at = at

Goes(t, at) == call' = [call EXCEPT ![t].at = at]

-----------------------------------------------------------------------------
(* TokenSource::token_for *)

\* now + 30 < exp
Usable(g) == cache[g] # None /\ cache[g].left > Margin

\* The call of a service begins; the cache is asked by target.
Call(t, g, s) ==
    /\ call[t] = None
    /\ call' = [call EXCEPT ![t] =
         [at |-> IF Usable(g) THEN "sent" ELSE "token", target |-> g, service |-> s,
          token |-> IF Usable(g) THEN cache[g].token ELSE None, took |-> 0, keys |-> None]]
    /\ UNCHANGED <<key, registered, cache, jwks, restarts, failures>>

\* access_token at the NRF: a registered client whose type may call the target.
\* cnf is the client's own certificate and always matches.
Issue(t) ==
    /\ At(t, "token")
    /\ registered /\ call[t].target \in Allowed
    /\ call' = [call EXCEPT ![t].at = "issued",
                            ![t].token = [key |-> key, aud |-> call[t].target,
                                          scope |-> ScopeOf[call[t].service],
                                          left |-> Lifetime]]
    /\ UNCHANGED <<key, registered, cache, jwks, restarts, failures>>

\* The token is cached from when it was asked for, and used.
TokenArrives(t) ==
    /\ At(t, "issued")
    /\ cache' = [cache EXCEPT ![call[t].target] =
                   [token |-> call[t].token, left |-> Lifetime - call[t].took]]
    /\ Goes(t, "sent")
    /\ UNCHANGED <<key, registered, jwks, restarts, failures>>

Fails ==
    /\ failures < MaxFailures
    /\ failures' = failures + 1

\* The NRF refuses, or does not answer: the call is made without a token.
NoToken(t) ==
    /\ At(t, "token")
    /\ \/ ~(registered /\ call[t].target \in Allowed) /\ UNCHANGED failures
       \/ Fails
    /\ Goes(t, "sent")
    /\ UNCHANGED <<key, registered, cache, jwks, restarts>>

-----------------------------------------------------------------------------
(* require_token *)

\* validate, validate_es256: the signature is the first thing looked at.
Genuine(tok, k) == ~Asymmetric \/ tok.key = k

\* The claims: expiry, audience, and a scope that covers the service.
Covers(tok, g, s) == tok.left > 0 /\ tok.aud = g /\ s \in tok.scope

Verdict(c, k) ==
    IF Genuine(c.token, k) /\ Covers(c.token, c.target, c.service)
    THEN "accepted" ELSE "refused"

\* TokenVerifier::verify up to its first await, or to the end: the key is in the
\* cache, or it is asked for.
Arrives(t) ==
    /\ At(t, "sent")
    /\ LET c == call[t]
           k == jwks[c.target]
       IN Goes(t, CASE c.token = None -> "refused"
                    [] c.token # None /\ Asymmetric /\ k = None -> "first fetch"
                    [] c.token # None /\ Asymmetric /\ k # None /\ ~Genuine(c.token, k) -> "fetch"
                    [] OTHER -> Verdict(c, k))
    /\ UNCHANGED <<key, registered, cache, jwks, restarts, failures>>

\* GET /oauth2/jwks at the NRF.
Publish(t) ==
    /\ At(t, "first fetch") \/ At(t, "fetch")
    /\ call' = [call EXCEPT ![t].at = IF @ = "fetch" THEN "keys" ELSE "first keys",
                            ![t].keys = key]
    /\ UNCHANGED <<key, registered, cache, jwks, restarts, failures>>

NoKeys(t) ==
    /\ At(t, "first fetch") \/ At(t, "fetch")
    /\ Fails
    /\ Goes(t, "refused")
    /\ UNCHANGED <<key, registered, cache, jwks, restarts>>

\* The keys are cached; a bad signature under the first ones makes the target
\* fetch them once more.
KeysArrive(t) ==
    /\ At(t, "first keys") \/ At(t, "keys")
    /\ LET c == call[t]
       IN /\ jwks' = [jwks EXCEPT ![c.target] = c.keys]
          /\ Goes(t, IF c.at = "first keys" /\ ~Genuine(c.token, c.keys) THEN "fetch"
                     ELSE Verdict(c, c.keys))
    /\ UNCHANGED <<key, registered, cache, restarts, failures>>

Done(t) ==
    /\ At(t, "accepted") \/ At(t, "refused")
    /\ call' = [call EXCEPT ![t] = None]
    /\ UNCHANGED <<key, registered, cache, jwks, restarts, failures>>

-----------------------------------------------------------------------------

\* The NRF comes up with another key and without registrations.
NrfRestarts ==
    /\ restarts < MaxRestarts
    /\ restarts' = restarts + 1
    /\ key' = key + 1
    /\ registered' = FALSE
    /\ UNCHANGED <<cache, jwks, call, failures>>

\* The client's heartbeat is answered 404 and it registers again.
Reregister ==
    /\ ~registered
    /\ registered' = TRUE
    /\ UNCHANGED <<key, cache, jwks, call, restarts, failures>>

Less(n) == IF n > 0 THEN n - 1 ELSE 0
Aged(tok) == IF tok = None THEN None ELSE [tok EXCEPT !.left = Less(@)]

\* A call takes at most Margin from token_for to the verdict.
Tick ==
    /\ \A t \in Tasks : call[t] # None => call[t].took < Margin
    /\ cache' = [g \in Targets |-> IF cache[g] = None THEN None
                   ELSE [token |-> Aged(cache[g].token), left |-> Less(cache[g].left)]]
    /\ call' = [t \in Tasks |-> IF call[t] = None THEN None
                  ELSE [call[t] EXCEPT !.token = Aged(@), !.took = @ + 1]]
    /\ UNCHANGED <<key, registered, jwks, restarts, failures>>

Step(t) ==
    \/ Issue(t) \/ TokenArrives(t) \/ NoToken(t)
    \/ Arrives(t) \/ Publish(t) \/ NoKeys(t) \/ KeysArrive(t) \/ Done(t)

Next ==
    \/ \E t \in Tasks, g \in Targets : \E s \in Services[g] : Call(t, g, s)
    \/ \E t \in Tasks : Step(t)
    \/ NrfRestarts \/ Reregister
    \/ Tick

\* Tasks run, timers fire, the heartbeat task registers the client again; the
\* client keeps calling every service it may call.
Fairness ==
    /\ WF_vars(Tick) /\ WF_vars(Reregister)
    /\ \A t \in Tasks : WF_vars(Step(t))
    /\ \A g \in Allowed : \A s \in Services[g] : SF_vars(\E t \in Tasks : Call(t, g, s))

Spec == Init /\ [][Next]_vars /\ Fairness

-----------------------------------------------------------------------------
(* Properties *)

TypeOK ==
    /\ key \in 0..MaxRestarts /\ registered \in BOOLEAN
    /\ \A g \in Targets : cache[g] # None => cache[g].left \in 0..Lifetime
    /\ \A t \in Tasks : call[t] # None => call[t].target \in Targets /\ call[t].took \in 0..Margin

\* What the cache thinks is left of a token is never more than what is left of
\* it, so a token taken from the cache lives through the call.
CacheIsConservative ==
    \A g \in Targets : cache[g] # None => cache[g].left <= cache[g].token.left

\* A token that was issued under the key in force is not refused, whatever keys
\* other calls have cached meanwhile and however old the target's copy is.
CurrentTokenAccepted ==
    \A t \in Tasks :
      /\ At(t, "refused") /\ call[t].token # None
      /\ failures = 0 /\ call[t].token.key = key
      => call[t].service \notin call[t].token.scope

\* TokenSource "caches a separate token per (target NF, scope)": the token of a
\* call is one that was asked for with the call's scope.
TokenHasScope ==
    \A t \in Tasks :
      call[t] # None /\ call[t].token # None =>
        call[t].token.scope = ScopeOf[call[t].service]

\* After restarts and failures every permitted service can be called again.
Served(s) == \E t \in Tasks : At(t, "accepted") /\ call[t].service = s
ServedAgain == \A g \in Allowed : \A s \in Services[g] : []<>Served(s)

=============================================================================
