# TLA+ models of radian-rs

radian-rs is a 5G core network in Rust: one process per network function (AMF,
SMF, UPF, NRF, UDM, UDR, AUSF, PCF, CHF, NSSF, NEF), SBI over HTTP/2 between them,
NGAP over SCTP to the gNBs, PFCP over UDP to the UPF, and a gNB with an optional
CU/DU split. This directory holds TLA+ modules that model its components, TLC
configurations that check them on small instances, and TLAPS proofs that hold for
every value of the parameters.

```
tlc   -workers 2 -config Registration.cfg AmfRegistration     # a run
tlapm SmfSessionProofs.tla                                    # a proof
```

`PROJECT.json` lists the components, the runs, what each definition models
(`map`), the hazards and the theorems.

## 1. Inventory

| Component | State it keeps | Operations | Talks to | What is hard |
|---|---|---|---|---|
| AMF, registration and mobility (`nf-amf/src/main.rs`) | per association a map of UE contexts; the global `UE_DIRECTORY`, `GUTI_DIRECTORY`, `RETAINED`; spawned timer tasks | NGAP/NAS handlers, retransmission timers, registration guard, AN release, service request, SBI callbacks | UEs through gNBs; AUSF, UDM, PCF, SMF over SBI | timers that carry an id and nothing else, contexts moving between maps, callbacks that look a UE up and message its task, answers that never come |
| AMF, handover (`main.rs`) | `HANDOVERS`, the TNGRELOC timers, the NH chain | Handover Required/Ack/Failure/Cancel/Notify, path switch, `TakeUe`, `Forward` | other association tasks, SMF | two tasks move one context; a 500 ms wait inside a handler that stops its task from answering others |
| AMF, PDU session leg (`main.rs`, `pdu_session.rs`) | `sm_refs`, `releasing`, release guards | establishment, modification, release, return with its PDU Session Status | SMF, gNB, UE | three copies of the set of sessions, each of which may change while the UE is away |
| AMF, paging (`main.rs`) | links with their TA lists, registration areas, T3513 loops | NG Setup, RAN Configuration Update, `page_ue`, `page_gnbs` | gNBs, SMF | the area changes while the UE moves in silence |
| AMF and NSSF, slices and AM policy | allowed NSSAI, UE-AMBR, RFSP, held policy | slice selection, SDM and policy changes | NSSF, UDM, PCF | two sources for one value, applied in either order, to a UE that may be idle |
| AMF, overload gate (`cbl.rs`) | atomics: C(t), M(t), overshoot, flags; one lease per slot | `admit`, drop of a slot, lease expiry, operator's changes | the registration path | lock-free code: loads apart from the compare-exchange, two parties that may give one slot back |
| NAS security, PDCP (`crates/nas`, `crates/pdcp`) | a COUNT per direction | `protect`, `unprotect` | UE, AMF, gNB | the COUNT is rebuilt from a few bits over a link that loses and reorders |
| SMF (`nf-smf/src/pdu_session.rs`) | SM contexts, address pools, GFBR ledger, N4 peers and their recovery stamps | create/update/release of SM contexts, quota teardown, policy refresh, heartbeats, restart recovery, chained paths, breakouts, forwarding tunnels | AMF, UPF (UDP), PCF, CHF, UDM | every handler awaits in the middle, holding copies of shared state |
| SMF, topology (`topology.rs`) | the graph of UPFs | validation, breadth-first search | SMF start-up, sessions | which path is nearest, when there is none |
| UPF (`crates/pfcp`, `crates/n6`, `nf-upf`) | sessions by UP-SEID and TEID, usage counters, policers, buffers | N4 handler, packet path, reports | SMF, gNBs | decided under the lock, sent after it; reports against releases |
| NRF and OAuth (`sbi-core/src/nnrf.rs`, `oauth.rs`) | NF profiles with their deadlines; tokens and keys cached by everyone else | register, heartbeat, eviction, discover, issue and verify tokens | all | expiry against a late heartbeat; caches that outlive a restart |
| UDM/UDR, subscriber-db | subscription data, serving-AMF/SMF registrations, SQN, change subscriptions | SDM, UECM, generate-auth-data, withdrawal, sweep | AMF, SMF, AUSF, `radian-dbctl` | several transactions per request, spawned calls in any order, crashes |
| AUSF, AKA | pending challenges | authenticate, resynchronise, confirm | AMF, UDM | one subscriber, several procedures |
| PCF (AM, SM), NEF | policy associations, influence subscriptions | create/update/delete and notify | AMF, SMF, AF | partial updates from a record that may be ahead of the peer |
| CHF, charging | charging sessions and their records | create, update, release | SMF | reports that race two kinds of release |
| gNB (`ran/gnb`) | UE contexts, peers, tunnels, the F1 mapping | N2, Uu, F1 and N3 handlers | AMF, UPF, UEs | identities on four interfaces that change at different times |
| Codecs (`crates/nas`, `ngap`, `rrc`, `f1ap`, `gtpu`) | - | builders and readers | both ends | two ends written separately; readers that scan |

What is hard in this code, at its line, is `hazards` in `PROJECT.json`, with the
properties that would catch it going wrong.

## 2. Modules

A component is one module. A step is a whole handler, or what a task does between
two awaits, as the code's locking makes it; every operation of the component that
changes state is an action. History variables are named as such where they are
declared.

| Module | Models | Checked by | Proved in |
|---|---|---|---|
| `CblGate` | `nf-amf/src/cbl.rs` | `cbl` | `AmfProofs` |
| `AmfRegistration` | registration, NAS timers, CM-IDLE, withdrawal, AM policy | `registration`, `mobility`, `progress` | `AmfRegistrationProofs` |
| `AmfHandover` | N2 handover and Xn path switch | `handover`, `progress` | `AmfProofs` |
| `AmfSessions` | the AMF's PDU session leg: N1/N2 procedures, AN release, NG Reset, return, SBI requests of the SMF | `mobility`, `progress` | `Mobility` |
| `AmfPaging` | gNB links and TA lists, registration areas, paging rounds | `mobility`, `progress` | `Mobility` |
| `SliceSelection` | NSSF and its availability table, am-data, AM policy, UE-AMBR and RFSP at the RAN | `mobility` | `Mobility` |
| `MobileReachable`, `GprsTimers` | T3512 as it is told, the sweep of silent UEs | `counters`, `progress` | `Counters` |
| `SecurityCounts` | `NasSecurityContext::protect/unprotect`; one direction of a PDCP bearer | `counters` | `Counters` |
| `GnbSplit` | the gNB's core, its F1 transport and the DU | `mobility`, `progress` | - |
| `SmfSession` | SM contexts, pools, GFBR, N4 and recovery on one UPF | `smf_*` | `SmfSessionProofs` |
| `SmfChain` | a session over several UPFs: chains, breakouts, forwarding | `sessions` | - |
| `Topology` | the graph of UPFs and the search in it | `sessions`, `progress` | - |
| `SessionAuthorization` | selection data, sm-data, type negotiation, the two pools | `sessions` | `SessionProofs` |
| `PolicyBinding` | PCC rules to QoS flows, the differences sent to UPF and AMF | `sessions` | `SessionProofs` |
| `PcfPolicy` | SM and AM policy associations; partial updates | `sessions` | `SessionProofs` |
| `UpfSession` | the UPF's table, N3/N6/N4/report tasks; implements `UsageLedger` | `sessions`, `progress` | - |
| `UsageLedger` | abstract: every unit carried is billed once | `sessions` | - |
| `TokenBucket` | the policers of AMBR and MFBR | `counters` | `Counters` |
| `Charging` | usage reports, SMF relay, CHF record and quota | `sessions`, `progress` | `SessionProofs` |
| `DownlinkWakeup` | downlink data for an idle UE across UPF, SMF and AMF | `progress` | - |
| `AkaSqn` | 5G-AKA over AMF, AUSF, UDM and UDR | `subscribers` | `SubscriberProofs`, `Subscribers` |
| `SdmNotify` | changes of am-data from the UDR to the AMF | `subscribers` | `SubscriberProofs`, `Subscribers` |
| `UecmRegistry` | serving-AMF/SMF registrations, withdrawal, sweep | `progress` | - |
| `RedbStore` | the persistent store, its two programs and their crashes; implements `SubscriberStore` | `subscribers` | `SubscriberProofs`, `Subscribers` |
| `SubscriberStore` | abstract: the traits' operations, one at a time | `subscribers` | refined: `RedbIsTheStore` |
| `NrfRegistry` | the registry and the task that keeps an entry alive | `subscribers`, `progress` | `SubscriberProofs`, `Subscribers` |
| `SbiTokens` | token issue, token and key caches, verification | `subscribers`, `progress` | `SubscriberProofs`, `Subscribers` |
| `NefInfluence` | traffic influence over UDR, PCF and SMF | `subscribers` | `SubscriberProofs`, `Subscribers` |
| `NgapCodec`, `NasCodec`, `SmContainer`, `RanCodec`, `GtpuCodec` | builders and readers of NGAP, 5GMM, 5GSM, F1AP with RRC, GTP-U | `codecs` | - |
| `N4Exchange` | PFCP answers and reports between the UPF's and the SMF's tasks: built, numbered, lost, doubled, reordered, read | `codecs` | - |

Each component module also has its
own `Spec` (`FairSpec` where it states fairness) and its type invariant, and can be
run by itself with a configuration of its constants. A module whose name ends in
`Proofs` adds no behaviour: it extends the module it is about, or the one that
instantiates it. `Charging`, `SessionAuthorization`, `PolicyBinding`, `PcfPolicy`, `AmfPaging`, `SliceSelection`
and `AmfSessions` end with the inductive invariants that `SessionProofs` and `Mobility` use, so
that TLC can be given them as well.

### The modules that compose

`Counters`, `Codecs`, `Mobility`, `Sessions`, `Subscribers` and `Progress`
instantiate the component modules with their bounds and check them side by side.
Their variable `part` names the component a behaviour is about; `part` never
changes and the components of one run share no variable, so the reachable states
are the disjoint union of those of the components, each explored in full for its
bounds, and a property holds of the union exactly when each of its conjuncts
(`part = "x" => X!Property`) holds of its component. A component that appears twice
(`"session"` and `"sessions"`) is the same module under other bounds: depth in one
respect at a time. `v1`, `v2`, ... are a component's variables in the order its
module declares them. Where a theorem is about a part, the values of the part's constants are
constants of the composing module too (`Sessions`; in `Mobility` one record of bounds per
part, with which `UeSessions(x)`, `Paging(x)` and `Selection(x)` are instantiated), or the theorem is stated in a module
that leaves them open and the composing module instantiates it (`SubscriberProofs` in
`Subscribers`, as `Plain` and, with more going wrong, `Faulty`; `AmfRegistrationProofs` in
`Mobility`, as `Registrations`, `Resync` and `Returns`). The constant `Parts`
narrows a run to some of them:
`Parts = {"paging"}` runs paging alone.

Components that do interact are modelled together in one module rather than
composed afterwards, since it is the interleaving of their steps that is at issue:
`DownlinkWakeup` (UPF, SMF, AMF), `Charging` (UPF, SMF, CHF), `AkaSqn` (UE, AMF,
AUSF, UDM, UDR), `SdmNotify` and `UecmRegistry` (UDR, UDM, AMF, SMF, NRF),
`SliceSelection` (UDM, PCF, NSSF, AMF, RAN, UE), `AmfSessions` (UE, gNB, AMF, SMF),
`GnbSplit` (UE, DU, CU, AMF, UPF), `PolicyBinding` (PCF, SMF, UPF, AMF).

### State and actions, module by module

**CblGate.** One step per atomic operation. `pc[h]` is where handler h is in
`admit()` (load C, load M, compare-exchange, arm the lease), `slot`, `lease` and
`releaser` follow one `CblSlot` from the reservation to the one release that
counts, `oam` splits `set_threshold` into its store and its bookkeeping. `highM`
is history. A slot's drop and its lease race through the compare-exchange of
`SlotLease::release`.

**AmfRegistration.** `ues[i]` is the context under AMF-UE-NGAP-ID i in whichever
association it lives (`at[i]`). A step is a whole handler: within an association
handlers do not interleave, and what they share with other tasks (the three
directories) is written under its lock. Timer tasks are counted per kind and
fire at any time, because their durations come from the environment. A UE
answers in order, late or never. SBI peers accept or refuse (`Refusals`). UECM
calls are spawned and complete in any order. Ids are never reused, so a timer or
an uplink of a context that is gone is dropped in the model as in the code. The sweep of
silent UEs takes a context out of `RETAINED` and then, without the lock, releases its
session and purges its entries (`evicted`): registrations come in between.

**AmfHandover.** Every gNB has an association task that handles one thing at a
time: an N2 message (`uplink[g]`), a command of another task (`inbox[g]`), or
the rest of a handler that awaits (`busy[g]`). `on_handover_notify` and
`on_path_switch` ask the other tasks for the context (`TakeUe`) and wait at most
500 ms; the answer may come later and is then lost. `handovers` is the global
map, released while `on_handover_request_ack` waits for the SMF. `timers` are the
spawned sleeps, which no code cancels. gNBs and UEs follow TS 38.413 as far as
the handlers can tell.

**AmfSessions.** `ctx` is the one UE context (connected under an id, or retained),
`smf` the SM contexts, `gnb` and `ue` the sessions these two believe in, `up` and
`down` the N2 messages under way, `cmds` the commands to the association, `guards`
the release guards, `sbi` the SMF's request in progress for an idle UE. `astray`
and `stale` record what the code is known to let go of, so that
`SmContextsAreOwned` says that there is nothing else.

**AmfPaging, SliceSelection, MobileReachable.** One UE each; gNBs and UE are
external and do what the standard has them do. Rates and RFSP are numbers, 0 stands for
none, which is an IE that is left out: the RAN keeps the value it has (`Took`). A
notification reads the subscription when it is handled.

**SecurityCounts.** One direction of each. The network delivers any message sent
so far (NAS), or loses and reorders within `Skew` (PDCP). The ciphers are ideal:
a message verifies exactly when the estimated COUNT is the one used. `Half`, or
`Window`, is half of the SN space.

**GnbSplit.** A UE is its Uu address, PDCP the level of protection. F1-C and N2
keep the order; Uu and N3 may lose, N3 and F1-U reorder. `Split` chooses the
transport.

**SmfSession.** `Handlers` are the SBI requests in progress at one time;
`"reports"` and `"heartbeat"` are the two background tasks. `jobs[t]` is what a
task copied before its await and uses after it, `n4[t]` its exchange with the
UPF: one datagram and an answer within 2 s; request or answer may be lost, or the
request handled after the SMF gave up (`late`). One address stands for the IPv4
address and the IPv6 /64, one rate for the two directions of the GFBR. The AMF
makes one request at a time about a session, because its association task awaits
the answer (`AmfMayAsk`). `owner` at the UPF is history.

**SmfChain.** Every request is a task with the copy of the context it took when
it began; a step is one N4 exchange or one visit to the context. Any exchange may fail,
establishments, deletions and the rollback included: its request is lost, or it is done and
the answer lost. `astray` is history: the N4 sessions that the code gives up without knowing
whether the UPF has them. `Serial` keeps the requests one after another, to tell faults from
interleavings.

**UpfSession.** The N4 task's requests go from the SMF's builder to the table
(`handle_session_*`), packets are decided under the lock (`n6`, `n3`) and sent
afterwards. `intent`, `carried`, `charged`, `paged` are history.

**RedbStore.** One step per transaction; `next_sqn` and `resync_sqn` are two. A
blob decrypts under its KEK and for its SUPI only. `holder` is the program that
has the file; a crash loses what is under way and nothing that was committed.

**Codecs.** Where a library does the bit layout (PER, `oxirush_nas`) a message is
the IEs its builder includes and its reader needs and returns; where the code
lays octets out by hand (GTP-U, 5GSM containers, NSSAI, timers, bitmaps) it is
the octets. A peer may leave an IE out, garble a transfer, cut a datagram or put
extension headers before the one that is looked for. `N4Exchange` adds the socket
the answers come through: a request waits under its sequence number, the reader task
sends a report to the report handler and any other datagram to whoever waits for its
number. The UPF numbers its reports by itself, so the numbers of both sides meet.
What a report leads to is in `Charging` and `DownlinkWakeup`.

The header of each module says the rest.

## 3. Runs

`CHECK_DEADLOCK FALSE` appears where the bounds on sessions, ids or messages let
the system come to rest; the gate has no such end and is checked for deadlock.

| Run | Shows | Bounds and why they suffice |
|---|---|---|
| `cbl` | `OngoingCountsSlots`, `WithinHighestThreshold`, `LeaseReclaimsSlot` | 2 handlers, 2 slots, 1 operator: two handlers are enough for every lost compare-exchange, two slots for a release that hits the wrong one. The safety part is proved for all sizes. |
| `registration` | `TmsisUnambiguous`, `RefsAreLive` | one registration, 3 ids, 2 associations, 2 AN releases, a withdrawal, a policy change, a lost association, an eviction in its three steps: each can hit each stage. `RefsAreLive` is about the registration's own paths (section 5 has a PDU session's). Both are proved without bounds. |
| `handover` | `SingleOwner`, `DirectoryFollowsOwner` | 3 gNBs, 2 handovers, a path switch, one slow call: the second handover meets timers, acknowledges and answers of the first. Both are proved without bounds. |
| `smf_sessions` | `AddressesDistinct`, `ReservedIsPromised`, `DownlinkIsOwners` | 2 handlers, 3 sessions, pool of 2, budget of 3, 2 lost or late datagrams, 2 updates: pool, budget and UPF all run out, addresses are reused. All three are proved for any number of each, under the restrictions below. |
| `smf_failures` | `NoAddressLost` | 2 handlers, 2 sessions, any 2 of: timeout, quota teardown, policy change, update, UPF restart; a UPF with room for one session. Proved without bounds. |
| `smf_double_release` | `AddressesDistinct` fails when a quota teardown meets the AMF's release | 1 quota report |
| `counters` | `AcceptedInOrder`, `AcceptsExactlyTheWindow`, `EstimateIsClosest` (NAS COUNT), `OpenedAsSealed` (PDCP), `RateIsBounded` (policers), `KeptForTheWindow`, `EvictedInTime` (the sweep of idle UEs) | SN space of 8, 18 NAS COUNTs and 24 PDCP COUNTs: every kind of block boundary occurs; rates below, at and above the burst; the AMF's own times (T3512 of 3240 s, a deadline of 3480 s, a sweep a minute). All seven are proved without bounds. |
| `codecs` | `ReadBack`, `NotMisread` | every message of the codecs, each optional IE and list absent, empty, one or more, values at both ends of their range, AMBRs that look like another IE among them, one fault; on N4 two requests of any kind and a report under way together, one datagram doubled, one IE bad |
| `mobility` | `SlotFollowsRegistration`, `SmContextsAreOwned`, `DownlinkFollowsRan`, `EntryAgrees`, `UeAreaIsPaged`, `SlicesAreEnforced`, `UesAreKeptApart` | 10 parts: two registrations with every refusal, and around an AN release and an eviction; one session made twice, two sessions; three TACs over two gNBs; two slices and two rates, set and withdrawn; two UEs over F1 and over the Uu. All but the last are proved for any bounds of their parts, under the hypotheses of section 6. |
| `sessions` | `PathIsSound`, `SessionsAreAuthorized`, `PolicyIsInForce`, `UpfHasWhatSmfAsked`, `NeverOverbilled`, `BilledOnce` | 10 parts: two other callers beside the AMF on one chained session, and one at a time with any two N4 exchanges failing; every graph of 4 nodes; two requests with one address in each pool; every decision over two rules; three N4 requests of every kind by two control planes; packets up to the buffer's cap and past the threshold. The second, third, fifth and sixth are proved for other values of their parts' constants. |
| `subscribers` | `VectorsAreFresh`, `ImplementsStore`, `WhatStandsIsWanted`, `WhoBehavesIsServed` | 9 parts: three authentications side by side, two with a fault; two clients of the store with crashes, two master keys; three requests of four AFs, each within its contract or with one thing in it wrong (key, DNN, edge, UE, group), one failure; two NFs with lost heartbeats and an NRF restart; two calls around a change of key. Proved for the parts' modules without bounds, and lifted to this run. |
| `progress` | `ProceduresEnd`, `ServiceReturns`, `TrafficGetsItsDue` | 13 parts, small instances of the above under fairness |

The reading of each property is in the comment above it. `SlotFollowsRegistration`
is checked without AN releases, `AddressesDistinct` without quota reports,
`ReservedIsPromised` without policy changes, `DownlinkIsOwners` without UPF
restarts, `ReadBack` for grants in which no other IE looks like an address, the half of
`PathIsSound` on which leg is named with callers one at a time, the half of
`WhatStandsIsWanted` on deletions with no failure: beyond that the code does not keep
them (section 5).

NAS messages are sent at most 5 times in the code; `MaxSends = 2` keeps the first
transmission, a retransmission and the give-up apart. Symmetry is used between
interchangeable callers, UEs, slices and gNBs in runs that check safety only;
`progress` has none.

The type invariants (`TypeOK`) are not among the runs' properties. The theorems of
section 6 prove the types they need with their invariants; the others are for
instances of one's own.

### Refinements

* `BilledOnce`: the session measurement of `UpfSession` implements `UsageLedger`.
  A session is open while it is in the table; what it carried since the last
  report is unbilled; a threshold report bills what is unbilled, the final report
  bills the rest and closes. Every other step (N4 changes, buffering, sends) is a
  stutter.
* `ImplementsStore`: `RedbStore` implements `SubscriberStore`. Credentials are those
  that decrypt under the key in force; a request between its two transactions has
  `taken` the credentials it read, as long as they are still there; provisioning,
  withdrawal, crash and restart map to the operation that commits, or to a stutter.

### Fairness

`progress` groups the fair actions of all parts (`Task1` .. `Task9`, `Call`), one of
each part to a group. A behaviour has one part throughout, so weak (strong)
fairness to the group is weak (strong) fairness to that part's member.

* **CblGate**: weak fairness on arming the lease, on its expiry and on the
  release's subtraction: the next instruction of a running task, or a
  `tokio::time::sleep`. None on the holder's drop: a UE may stay silent for ever.
* **AmfRegistration, AmfHandover**: timers, the association's `select!` loop. UEs,
  gNBs and SBI peers owe nothing.
* **AmfSessions**: the association's loop, the gNB's handling of N2, the SMF's
  request in progress, the guards. The UE owes nothing.
* **GnbSplit**: the loops of CU and DU and a UE that reads what reaches it; the AMF
  releases what it was asked to.
* **NrfRegistry, UecmRegistry, SbiTokens**: time passes, the maintaining task and
  the sweep go on, a stopped NRF is started again, calls end. Strong fairness for
  a client that goes on calling one service, which its other calls interrupt.
* **AmfPaging, DownlinkWakeup**: paging rounds, gNBs that reconnect and set up, a
  page on the air is heard or not; a UE without coverage moves or updates. A page
  need not be heard: `Reached` and `gap` say when it was not.
* **UpfSession, Charging, MobileReachable, Topology**: tasks run, calls end, time
  passes.
* The remaining modules state safety only.

## 4. Findings

`smf_double_release` (`findings` in `PROJECT.json`): `teardown_sm_context` gives back
what it read before the N4 deletion, whether or not another teardown has removed
the context meanwhile. `NoSharing` in `SmfSessionProofs` proves that without quota
teardowns and UPF restarts there is no such sharing.

## 5. Divergences

These properties are stated in the modules and the code does not satisfy them.
Each follows from the source line named; most contradict a comment, quoted in the
module beside the property. To reproduce one, run the module with the property and
the constants of its instance (in the runs' modules and configurations above),
changed as the third column says; a bound not named is 0, or as small as the
module allows.

| Module | Property | Instance | Source | What happens |
|---|---|---|---|---|
| `AmfHandover` | `ContextSurvives` | 2 UEs at home at 2 gNBs, 1 path switch each | `main.rs:3161` | two `on_path_switch` handlers wait for each other's command loop, both give up after 500 ms, both contexts are taken out for nobody |
| | `NoOrphanTunnel` | 1 handover | `main.rs:2966` | the handover ends while the SMF sets the forwarding tunnel up; nobody releases it |
| | `NoStrandedTarget` | 1 handover | `main.rs:2943` | an acknowledge after a cancel or an expiry finds no entry, the target's context is not released |
| | `AckIsFromTarget` | 3 gNBs, 2 handovers | `main.rs:2943` | the acknowledge of a cancelled handover fills the entry of the next one, whose target is another gNB |
| | `KeyPairsBurned` | 2 handovers | `main.rs:2855` | the chain advances on success only, a second attempt carries the same {NH, NCC} |
| | `TimerDropsOwnHandover` | 2 handovers | `main.rs:2762` | TNGRELOCprep of one attempt fails the next attempt |
| `AmfRegistration` | `RegistrationEnds` | `MaxAnReleases = 1`, `MaxIds = 2` | `main.rs:2268` | an AN release retains an unfinished registration; `on_service_request` restores it with neither guard nor T3550 |
| | `DirectoryIsLive` | `Refusals = {"synch"}` | `main.rs:4085` | an aborted authentication drops the context but not its `UE_DIRECTORY` entry |
| | `ServedIsListed` | 2 registrations, 1 AN release | `main.rs:2271` | the AN release of a context left behind removes the entry of the UE's new registration |
| | `PolicyIsOwned` | `MaxLosses = 1` | `main.rs:1086` | an association is lost; the AM policy association stays at the PCF |
| | `SmContextIsOwned` | `MaxWithdrawals = 1` | `main.rs:3983` | a PDU session request that crosses a Deregistration Request leaves an SM context without owner |
| | `ResendsPendingChallenge` | `Refusals = {"synch"}`, `MaxSends = 2` | `main.rs:1917` | after a resynchronisation T3560 may resend the older challenge |
| | `NoStaleT3555` | `MaxUpdates = 2` | `main.rs:1854` | a second configuration update meets the first one's timer |
| | `UpdateReachesUe` | 1 update, 1 AN release | `main.rs:1341` | a policy change answered 204 is dropped when the UE has just gone CM-IDLE |
| | `UdmKnowsServingAmf` | 2 registrations | `main.rs:260` | the purge for the old context overtakes the register for the new one |
| `AmfSessions` | `NoStrandedRelease` | 2 connections, `MaxLost = 1` | `main.rs:1766` | the guard names the old connection; the mark in `releasing` survives and nothing finishes the release |
| | `ReleasedIsForgotten` | 2 connections, `MaxNetwork = 1` | `main.rs:1272` | the UE returns while its session is released at the SMF; the context keeps the reference |
| | `NoneOverwritten` | `UeMay = {"modified"}` | `main.rs:3983` | a Modification Complete is taken for an establishment request; a second SM context replaces the first |
| | `DownlinkFollowsRan` | `UeMay = {"repeat"}` | `main.rs:3983` | a release crosses a repeated establishment; its setup reaches the gNB last, which keeps a session the AMF has forgotten |
| | `OwnGuard` | 2 sessions made, `MaxNetwork = 2` | `main.rs:597` | the guard of one release finalises the next one of the same PSI |
| `AmfPaging` | `StaysReachable` | `AreaCap` reached | `main.rs:2462` | push then truncate removes the TAC just added |
| | `PagingStopsOnResume` | as in `mobility` | `main.rs:466` | a UE that resumed and was released again within T3513 is paged on |
| `DownlinkWakeup` | `BufferedIsFlushed` | 1 packet, 1 release | `main.rs:2259` | data between the deactivation and the retention: the one report of the idle period is refused |
| `SliceSelection` | `AllowedIsDeployed` | `MaxProvisions = 1` | `main.rs:1609` | an am-data change makes the whole subscribed NSSAI the allowed one, without the NSSF |
| | `RefetchedAtRegistration` | + `MaxIdle = 1` | `main.rs:1124` | a registration update from CM-IDLE reads no am-data |
| | `HeldPolicyIsApplied` | `MaxPolicies = 2`, `MaxIdle = 1` | `main.rs:1357` | two partial changes for an idle UE: the second replaces the first |
| | `WithdrawnIsLifted` | `MaxPolicies = 1` | `main.rs:1547`, `ngap/src/lib.rs:2031` | the PCF withdraws an RFSP or a rate: the message to the RAN leaves the IE out, and the RAN keeps the old value |
| | `ViewIsCurrent` | `MaxProvisions = 2` | `main.rs:1120` | of two notifications the one that read first may be applied last |
| `CblGate` | `AdmitsBelowThreshold` | 1 handler, 1 operator | `cbl.rs:128` | the threshold is lowered between its load and the compare-exchange |
| `MobileReachable` | `ReachableUeIsKept` | as in `counters` | `main.rs:72` | the UE is told 60 min for 54, the AMF's deadline is 58 |
| `SmfSession` | `UpfAddressesDistinct` | `MaxTimeouts = 1` | `pdu_session.rs:1166` | the UPF carries out an establishment the SMF gave up; its address is another session's |
| | `ContextHasSession` | `MaxRestarts = 1` | `pdu_session.rs:740` | a session under way when its UPF restarts is stored after the recovery |
| | `DownlinkIsOwners` | `MaxRestarts = 1`, `MaxUpdates = 1` | `pfcp/src/lib.rs:834` | a restarted UPF reuses UP-SEIDs; a stale modification reaches another UE's session |
| | `PolicyIsReleasable` | `MaxRestarts = 1` | `pdu_session.rs:729` | after recovery the AMF's release gets 404, the PCF association stays |
| | `PolicyIsCurrent` | `MaxChanges = 2` | `pdu_session.rs:2582` | two refreshes finish in the opposite order of their answers |
| | `ReservedIsPromised` | `MaxChanges = 1` | `pdu_session.rs:2283` | a refresh changes the reservation while a teardown holds the old value |
| `SmfChain` | `NoHalfBuiltChain` | `MaxFaults = 1`, static route | `pdu_session.rs:1202` | a failed `establish_chain` rolls the anchor back only |
| | `AddressGoesUnused` | `MaxFaults = 1` | `pdu_session.rs:1166`, `:1208` | the anchor's establishment, or its rollback, is not answered: the address goes back to the pool, the anchor's session stays |
| | `IdleIsParked` | `Serial`, `MaxFaults = 0` | `pdu_session.rs:2115` | a breakout inserted while the UE is idle opens towards the released tunnel |
| | `DirectIsLeftAlone` | `Serial`, `MaxFaults = 0` | `pdu_session.rs:2480` | policy's breakout replaced directly: the end of the influence takes the direct one out |
| | `BreakoutFollowsPolicy` | `MaxFaults = 0`, 2 routes | `pdu_session.rs:2489` | a decision that names another prefix or DNAI is taken for already in force |
| | `BreakoutIsNamed` | 2 other callers, not `Serial` | `pdu_session.rs:2135` | two inserts, or an insert and the release, overlap: a breakout anchor's session nobody names |
| | `ForwardingIsNamed` | `Forwarding` | `pdu_session.rs:1980` | a second tunnel overwrites the first; the release deletes every leg but this one |
| | `BranchIsServed` without `astray` | `Serial`, `MaxFaults = 1` | `pdu_session.rs:2121` | a branch whose answer is lost is in place, its anchor rolled back |
| `Topology` | `PathIsUpfs` | two access networks | `topology.rs:200` | the search walks through an access network; the DNN is then refused |
| `SessionAuthorization` | `ProvisionedIsServed` | `Typed` with capitals | `radian-dbctl/src/main.rs:147` | the SD is stored as typed and looked up in lower case |
| | `PairIsAuthorized` | a request without slice | `pdu_session.rs:1579` | any slice that lists the DNN passes, the first sm-data entry is taken |
| | `BothInForce` | `MaxChanges = 3` | `pdu_session.rs:1562` | the two documents are read at two times |
| `PolicyBinding` | `ChargedAsBound` | every decision | `npcf.rs:472` | usage is charged as whichever bound rule the map yields first |
| | `ReleasedIsGone` | `MaxChanges = 1` | `pdu_session.rs:2568` | a flow that loses its guarantee or its filter is sent as released and as a flow |
| | `RefreshRepairs` | `MaxLosses = 1` | `pdu_session.rs:2582` | the decision is stored although the UPF did not take it |
| `PcfPolicy` | `UpdateReflects` | `MaxLosses = 1` | `npcf.rs:936` | a delta whose answer is lost is never sent again |
| | `OverlapAgrees` | 2 updates | `npcf.rs:919` | two updates overlap; the deltas are applied in the other order |
| | `InfluenceApplied` | 2 sessions | `npcf.rs:808` | one association of SUPI and DNN is notified |
| `UpfSession` | `ChargedIsCarried` | kinds `qos` or `idle` | `pfcp/src/lib.rs:1332`, `:1145` | a removed flow takes its volume with it; flushed packets are not counted |
| | `EndMarkerIsLast` | 2 tunnels | `nf-upf/src/main.rs:390` | a packet addressed before the End Marker is sent after it |
| | `ReportsReachOwner` | 2 peers | `nf-upf/src/main.rs:270` | a report goes to the peer that spoke last |
| `TokenBucket` | `PacketEventuallyPasses` | one rate | `pfcp/src/lib.rs:588` | polled often enough, every refill is rounded down to nothing |
| `Charging` | `CdrIsComplete` | as in `sessions` | `pdu_session.rs:2344` | a report in the channel when its session is torn down is dropped |
| `AkaSqn` | `OneResyncSuffices` | `Presents` a concealed SUCI | `nausf.rs:132` | the resynchronisation is relayed under the SUCI, which the UDR does not know |
| | `KeyedBySupi` | the same | `nf-amf/src/main.rs:4176` | the context keeps the SUCI |
| | `SqnNotReused` | `KekConfigured = FALSE`, 1 restart | `nf-udr/src/main.rs:122` | the demo subscriber is provisioned again over its live SQN |
| | `ContextsInFlight`, `NoOrphanSqn` | 1 procedure, 1 failure | `nausf.rs:21`, `subscriber-db/src/lib.rs:632` | a challenge nobody answers stays; an SQN row outlives a withdrawal |
| `SdmNotify` | `ViewNeverGoesBack` | 2 changes | `nf-amf/src/main.rs:1135` | the older document is applied last |
| | `SubscriptionsAreHeld` | 2 registrations | `nf-amf/src/main.rs:320` | each registration subscribes, the older id is forgotten |
| | `ViewIsCurrent` | 1 change | `nf-amf/src/main.rs:3816` | a change between the read and the subscription |
| `UecmRegistry` | `WipedIsNotified` | 1 withdrawal | `nudr.rs:179` | an AMF that registers between the two transactions is removed and not told |
| | `SweepSparesLive` | `MaxNrfStops = 1` | `nudr.rs:216` | after an NRF restart the sweep evicts live functions |
| | `NoOrphanRegistration` | 1 withdrawal | `nudm.rs:292` | a spawned registration arrives after the withdrawal |
| `RedbStore` | `AuthStateHasCredentials` | 2 clients | `subscriber-db/src/lib.rs:624` | a withdrawal between the transactions of `resync_sqn` |
| | `ProfileIsWhole` | `radian-dbctl` killed | `radian-dbctl/src/main.rs:113` | credentials without the profile's documents |
| `NrfRegistry` | `OneMissTolerated` | as in `subscribers` | `nnrf.rs:282` | one missed heartbeat evicts: two periods and a request exceed the lifetime |
| `SbiTokens` | `TokenHasScope` | two scopes of one target | `oauth.rs:575` | the cache is keyed by target alone |
| `NefInfluence` | `GroupInfluenceStands` | two AFs, one target | `nnef.rs:580` | the document is keyed by group and prefix, not by AF |
| | `DirectInfluenceStands` | `MaxFailures = 2`, 1 session | `nnef.rs:687` | the removal names UE and DNN only |
| | `DeleteCanBeRetried` | `MaxFailures = 1` | `nnef.rs:671` | a failed delete has already taken the subscription |
| `GnbSplit` | `OneContextPerUe` | `Split` | `ran/gnb/src/lib.rs:352` | over F1 a new connection is a new peer |
| | `CampedArePaged` | 2 associations | `lib.rs:336` | a new N2 association forgets who camps |
| | `NasInOrder` | not `Split`, `MaxNas = 2` | `lib.rs:930` | a Downlink NAS Transport overtakes the NAS held back with the context setup |
| | `UplinkIsCurrent` | `MaxSessions = 2` | `lib.rs:882` | a session set up again is appended; uplink goes on to the tunnel of the first |
| | `DataIsItsOwn` | 2 associations, or `CuIds = 1` | `lib.rs:43`, `f1.rs:41` | TEIDs start again with the association; F1-U TEIDs drop the upper bits of the identity |
| `SmContainer` | `AddressIsUnambiguous` | an AMBR of 10501 units, or 10509 Gbps | `nas/src/lib.rs:1233` | the scan for 0x29 meets it, with a length and a type behind it, in the Session-AMBR |
| | `CauseIsUnambiguous` | an AMBR of 89 Mbps | `nas/src/lib.rs:1263` | the scan for 0x59 meets it in the Session-AMBR |
| | `DnsOnlyIfReturned` | a UE address x.0.3.16 | `nas/src/lib.rs:1403` | the scan for 00 03 10 meets it in the address |
| | `SameFlows`, `AmbrIsTold` | rates over 65 535 Kbps | `nf-amf/src/pdu_session.rs:157`, `nas/src/lib.rs:1028` | the UE is told of no guarantee, or of 10 Mbps; gNB and UPF enforce the subscribed rate |
| `NgapCodec` | `ContextIsReadBack` | every message | `ngap/src/lib.rs:895` | the reader of an Initial Context Setup has no arm for PDU sessions |
| | `Encodable` | every message | `ngap/src/lib.rs:1275` | an answer without any session is an empty list the encoder refuses |

## 6. Proofs

Every theorem is for all values of the constants, under the modules' `ASSUME`s
(types of the parameters, `Half > 0`, `Skew < Window`, handler names that differ from
the SMF's two background tasks) and the hypotheses in its statement. TLC evaluates the
`ASSUME`s for the values of every run, those of `Sessions` and `Subscribers` with all
that their parts' theorems take for granted. A hypothesis `XNone` says that the value
`None` is none of the things it stands beside; the configurations have a model value
for it.

Each proof is the same argument: an inductive invariant that holds of `Init`, one lemma
per action (or group of actions with one effect) for its preservation, and a last step
that reads the property off it. What follows says what the invariant adds to the
property, and why the property needs it.

* **AmfRegistrationProofs** (`RegIInv`): `NamesAreUnambiguous`, `ReferencesAreLive`.
  Neither property is inductive alone: a new context takes its number as 5G-TMSI, as
  policy association and as SM context, so the invariant has to say that no context
  anywhere, connected or retained, holds a number not handed out yet (`RegShape`), that
  while a connection lasts its number is nobody else's (`RegOwn`), and that a retained
  context is filed under its own 5G-TMSI. `RegUnique` is then both properties'
  disjointness at once, for the three kinds of reference.
  `OneSlotIsEnough` (`SlotIInv`, for `MaxAnReleases = 0`) is `SlotFollowsRegistration`.
  What the slot holds depends on which answers may still come: at most one Security Mode
  Complete is on its way and only while no 5G-TMSI is given (the UE discards a copy of a
  protected message), a Registration Complete only after the accept (`SlotReplies`); and a
  timer is armed once per message because it was not armed before (`SlotContext`: no T3560
  before a challenge, none for the Security Mode Command before NAS security). After an AN
  release a context comes back with its slot and without its timers, so the hypothesis
  cannot go.
* **AmfProofs** (`HoIInv`, `HoNone`): `OneAssociationServes`,
  `DirectoryNamesOwner`. A context may be in one map or in one answer to a `TakeUe`
  (`HoOne`); that no second handler comes to hold it rests on who may be answered: a
  live ask stands for a handler that still waits and asked once (`HoAsked`), and a
  handler after a Handover Notify asks the source alone, for a context it does not have
  (`HoHandlers`). `DirectoryFollowsOwner` is then inductive.
  The admission gate: `SlotAccounting`, `AdmissionBound`. The
  invariant (`CblIInv`) adds to the types and to `OngoingCountsSlots` what each handler
  knows at its program point: the C it read is below the M it read, and that M is
  at most `highM`. Without this a won compare-exchange says nothing about the
  threshold. Two lemmas say how the counted set grows and shrinks by one.
* **Counters** (`SecurityCounts`, `TokenBucket`, `MobileReachable`): `NoReplay`,
  `WindowTheorem`, `ClosestTheorem`. The last two
  are arithmetic: lemmas on quotient, remainder and multiples for a divisor of any
  size, then a case split on the three branches of the estimate. `NoReplay` needs
  one strengthening: everything accepted is below what is expected next.
  `CountIsRecovered` (less than a window from the expected COUNT
  the SN determines the COUNT, hyper frame 0 included) and `AlwaysOpenedAsSealed`,
  from the invariant that what is on the air is within `Skew` of what is expected.
  `LevelWithinBurst`, and `RateBound` from the invariant that what
  passed and what is left is at most the first burst and what the rate earned.
  `TimerCovers` (a GPRS timer 3 is never shorter than asked,
  by cases on its units). `WindowIsKept`: the AMF's clock of an idle UE is the UE's own while
  the context is there, and once it is gone both are past the deadline; no relation between
  deadline and T3512 is assumed. `LingersNoLonger` with the sweep's own clock in the
  invariant.
* **SmfSessionProofs**: four theorems, in three layers.
  `NothingLost` (`IInv`): `NoAddressLost` is not
  inductive: a created context could overwrite another, and a teardown could free
  an address other than the one it drops. The invariant adds that references are
  numbered (`RefsBelow`), that a session is created by one task and is not torn
  down before (`CreatedOnce`), and that a teardown's copy of the address is the
  context's while there is one (`TearsOwnAddress`).
  `NoSharing` (`DInv`) proves
  `AddressesDistinct` under `MaxReports = 0` and `MaxRestarts = 0`. It needs, on
  top, that every address in use was handed out (`HandedOut`), that a session
  being torn down is still there and has one task doing it (`TornDownOnce`), and
  that the background tasks neither tear down nor recover (`Calm`).
  `LedgerBalances` (`LInv`) proves `ReservedIsPromised` under the same and
  `MaxChanges = 0`: the rate a teardown gives back is the context's (`RatesOwned`). The
  property is an equation between a number and a sum over a set; lemmas say
  what the sum of a function becomes when an element is added, removed or changed, and
  they are proved from the definition of the fold by a least counterexample.
  `DownlinkGoesHome` (`OInv`) proves `DownlinkIsOwners` under `MaxRestarts = 0` alone:
  UP-SEIDs are handed out in order, so whoever holds one (a context, a job between two
  awaits, an exchange under way or late) names the session it was given for. Each
  excluded case is a divergence of section 4 or 5.
* **SessionProofs** (parts of `Sessions`, under `SessionsAssumption`):
  * `AuthorizedSessions` (`AuthorizationIInv`): for each stage a request has reached,
    what it has read and been granted by then (`Sound`, `Fits`); the two documents agree
    while a profile is in force (`ProfileInForce`); a pool's free addresses and its
    leases are a partition, counted (`Leased`). `AuthorizationInputs` has
    operators spell a slice as UEs' requests do: capitals are the divergence
    `ProvisionedIsServed`.
  * `DecisionsAreInForce`. Partial updates are an algebra, for any keys and values:
    `DiffThenApply`, `DiffIsEmptyIffEqual`, `FieldUpdateRoundTrip`. With the first,
    `PolicyIInv` says that the update under way started from the decision the SMF
    has, while updates come one at a time (`InStep`), and that a session has one
    association in its life (`OneLife`). That flows do not depend on the order in
    which a map is read needs that every order places every rule (a pigeonhole) and that
    the representative is the least one. `BindingIInv` takes the decisions for well
    formed (rules of one flow differ in precedence, flows in QFI): from an ill-formed one the
    UPF may have followed another order of the map than the difference is computed from.
  * `BilledAtMostOnce` (`ChargingIInv`): what is billed, in hand and under way never
    exceeds what was carried. The reports queued are a sum over a sequence; instead of
    a recursion the invariant asks for a running total r (`RunsUp`): a witness that each
    step extends, shifts or keeps. The flows' group is billed by the final usage
    alone, and that comes once (`OneFinal`).
  * `MeteringIsALedger`: the refinement of `UsageLedger`, for any number of sessions, flows,
    branches, packets and requests. `MeteringIInv` says that a session's record has the two
    counters and that an id comes from the counter of ids, so that it was not used before.
    Each step is then one of the ledger's actions or none (`LedgerStep`): what a
    modification or a packet of a flow changes are not the session's counters
    (`ModifiedUncounted`, `CountedOnce`).
* **SubscriberProofs**: seven theorems about the functions behind the SBI.
  * `UnreadableStays` (`RedbAssumption`, `RedbNone`): `CredentialsHaveSqn`, and the action
    property that a sequence number does not move while its credentials cannot
    be read, whichever keys the programs are started with.
    `RedbIsTheStore` (and `OneKek`): the refinement of `SubscriberStore`, each action to an
    action or a stutter. A request between its two transactions needs the
    invariant `RedbRequests`: its credentials were readable, or are withdrawn since.
  * `AkaSound` (`AkaAssumption`): `SqnNotReused` and `AcceptedIsConfirmable`, and
    `OneResyncSuffices` when every UE presents its SUPI (`AllSupi`; a concealed
    identity is the divergence). `AkaTaken` keeps the vector being made apart from all
    that were, `AkaKept` its RAND from all other challenges.
  * `HeardIsListed` (`NrfAssumption`, `Latency <= Period`): an entry's age and the time to
    its next heartbeat add up to the period (`NrfHeard`).
  * `TokensAreAccepted` (`TokenAssumption`, `TokNone`): a call's token outlives it, keys are
    fetched after the token was issued (`TokCall`).
  * `InfluenceIsPermitted` (`NefNone`): only what passed the checks of key, DNN, edge, UE and
    group is in effect (`NefChecked`; a call that failed may have been carried out, so the
    invariant is about what is let through and not about what is recorded), and with nothing
    lost it is there the way it was applied (`NefWhole`).
  * `ChangesAreDelivered` (no hypothesis): while the UE that is owed a change stays
    registered and subscribed, the change is on its way to its task or handed over.
* **Subscribers**: `VectorsStayFresh`, `StoreIsImplemented`, `WantedStands` and `Served`
  conclude from these for the properties that the run checks: `part` never changes, and
  while it names a component the steps are the component's. The parts of
  `SessionProofs` are lifted in the same way.
* **Mobility** (parts of the composition, under `MobilityAssumption`): the lemmas are about
  the parametric instances `Paging(B)`, `Selection(B)` and `UeSessions(B)` for any record of
  bounds `B`, so that a part that appears twice is proved once.
  * `SilentUesArePaged` (`PagingIInv`): the area on record grows by a TAC at a time. That
    capping it never drops what the UE was told needs that the list was no longer than the
    cap before, and that what gNBs announce are lists of TACs, never empty.
  * `RanIsToldInForce` (`SelectionIInv`): the property is about rest, so the invariant
    follows the queue to the RAN. The last message in it that the RAN hears says what the
    context has, where it has one, and with none in it the RAN has it (`RanFollows`;
    `UeFollows` for the allowed slices). A session outside the allowed slices is one being released.
  * `SmContextsStayOwned`: `SmContextsAreOwned` is inductive with the types
    (`SessionTypes`), in which two entries of a context never share a reference: without
    that, dropping one entry would disown the SM context of another. A step of the AMF is one
    of three things to the SMF's contexts (drop, release, update), each with a lemma
    (`SmfDrops`, `SmfReleases`, `SmfUpdates`), and `finalize_release` is proved once for the
    three handlers that call it.
  * `DownlinkIsRight` and `EntryIsAgreed` (`PathIInv`, at the end of `AmfSessions`, which TLC
    checks too): both properties are about rest, or about the last message of an exchange, so
    the invariant says what every message on its way will do to its reader. The two
    ends of the N2 connection are `Together`, or the gNB has reset it and the AMF has yet to
    learn (`Cut`), or the AMF has released it (`Released`), or has resumed it and its context
    setup is under way (`Resuming`); a connection's messages come after the
    previous one's (`Connections`). Only while they are together do sessions have a path,
    and `ThePath` has, for each, what context, SMF, gNB and UE hold of it as a function
    of what is in the two queues: an answer excludes a request, a setup that has become wrong
    has a release behind it, the tunnel the SMF will have is the one the last report
    tells. That a guard of this connection will still finalise a release (`Due`) counts as the
    release. Every action has a lemma; those that leave a session's messages and entries alone
    go through one (`PathStays`, `OthersStay`). `UeMay` is empty in
    these instances: with a repeated request the property fails (section 5).
  * `SlotIsAlwaysRight`: `OneSlotIsEnough` for the two registration parts whose bounds have
    no AN release (the theorem's hypotheses, which the configuration satisfies).

Checked by TLC and not proved: liveness and `ENABLED`; what a
recursive function computes (`Topology`, so `PathIsSound`; the codecs' walks, so `ReadBack` and
`NotMisread`); `UpfHasWhatSmfAsked` (the rules of a request are applied by folds over its IEs);
`LeaseReclaimsSlot` (a liveness property of the gate); and of `mobility`
`UesAreKeptApart` (its sequences are read by a recursive fold).

## 7. Plan

Every component with state of its own is a module. Left to prove: `UpfHasWhatSmfAsked`, a
builder and the table it is read into, field by field, once the rules of a request are
applied by something other than a fold.

## 8. Not modelled

Cryptography (ideal wherever it appears), the bit layout of PER and of the
generated ASN.1 types, `oxirush_nas`'s framing, HTTP/2 and SCTP beyond order and
loss, TLS, the SDAP header, opening the TUN device, configuration, logging and
telemetry, the operator tools other than what they store, the BDD harness and the
fuzz targets: I/O, or functions with no state of their own to interleave. The
COUNT's wrap at 24 bits and payloads over 65 527 octets do not occur in the
models. At the SMF a session of `SmfSession` runs on one UPF (several are
`SmfChain`'s, with one session); at the AMF, CBL admission is not composed with
the registration path. `PROJECT.json` gives the reason for each component.
