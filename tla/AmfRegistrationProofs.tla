----------------------- MODULE AmfRegistrationProofs -----------------------
(***************************************************************************)
(* A 5G-TMSI names one context, and no policy association or SM context    *)
(* has two owners, for any UEs and associations, through registrations,    *)
(* withdrawals, lost associations and the NAS timers; and one slot for the *)
(* NAS message to be repeated is enough.                                   *)
(***************************************************************************)
EXTENDS AmfRegistration, FiniteSetTheorems, TLAPS

\* The fields of a UE context.
RegFields == {"state", "supi", "auth", "sec", "resynced", "progress", "retx", "dereg", "cfg",
              "policy", "sm", "tmsi", "held"}

\* What a context owns by number: its 5G-TMSI, its policy association, its SM context.
RegRefs == {"tmsi", "policy", "sm"}

\* The context in place i of the associations' maps, of RETAINED or of the eviction sweep.
RegCtx(p, i) == IF p = "cm" THEN ues[i] ELSE IF p = "idle" THEN retained[i] ELSE evicted[i]
RegPlaces == {"cm", "idle", "leaving"}

\* Contexts are whole, and every number in them has been handed out (NEXT_AMF_UE_ID).
RegShape ==
    /\ nextId \in Nat \ {0} /\ pcf \subseteq Nat /\ smf \subseteq Nat
    /\ DOMAIN ues = Ids /\ DOMAIN retained = Ids /\ DOMAIN evicted = Ids /\ DOMAIN guti = Ids
    /\ \A p \in RegPlaces, i \in Ids : RegCtx(p, i) # None =>
         /\ DOMAIN RegCtx(p, i) = RegFields /\ i < nextId
         /\ \A f \in RegRefs : RegCtx(p, i)[f] # None => RegCtx(p, i)[f] \in Ids /\ RegCtx(p, i)[f] < nextId
    /\ \A t \in Ids : retained[t] # None => retained[t]["tmsi"] = t

\* No two contexts own the same thing.
RegUnique ==
    \A f \in RegRefs, p, q \in RegPlaces, i, j \in Ids :
      RegCtx(p, i) # None /\ RegCtx(q, j) # None /\ RegCtx(p, i)[f] # None
        /\ RegCtx(p, i)[f] = RegCtx(q, j)[f] => p = q /\ i = j

\* While connection i lasts, what is numbered i is its own.
RegOwn ==
    \A f \in RegRefs, q \in RegPlaces, i, j \in Ids :
      ues[i] # None /\ RegCtx(q, j) # None /\ RegCtx(q, j)[f] = i => q = "cm" /\ j = i

\* What a context refers to exists at the PCF and the SMF.
RegLive ==
    \A p \in RegPlaces, i \in Ids : RegCtx(p, i) # None =>
      /\ RegCtx(p, i)["policy"] # None => RegCtx(p, i)["policy"] \in pcf
      /\ RegCtx(p, i)["sm"] # None => RegCtx(p, i)["sm"] \in smf

\* A SUPI has one 5G-GUTI in GUTI_DIRECTORY.
RegGutis == \A t, u \in Ids : guti[t] # None /\ guti[t] = guti[u] => t = u

\* The inductive invariant.
RegIInv == RegShape /\ RegUnique /\ RegOwn /\ RegLive /\ RegGutis

\* At start-up the AMF has no context.
LEMMA RegInitIInv == ASSUME RegistrationAssumption PROVE Init => RegIInv
<1> SUFFICES ASSUME Init PROVE RegIInv
  OBVIOUS
<1>1. \A p \in RegPlaces, i \in Ids : RegCtx(p, i) = None
  BY DEF Init, RegCtx
<1>2. RegShape
  BY <1>1 DEF RegShape, Init, RegPlaces, RegCtx
<1>3. RegUnique /\ RegLive
  BY <1>1 DEF RegUnique, RegLive
<1>4. RegOwn
  BY DEF RegOwn, Init
<1>5. RegGutis
  BY DEF RegGutis, Init
<1>6. QED
  BY <1>2, <1>3, <1>4, <1>5 DEF RegIInv

\* Every context stays where it was, with what it owned or less, or goes.
RegStays ==
    \A p \in RegPlaces, i \in Ids : RegCtx(p, i)' # None =>
      /\ RegCtx(p, i) # None /\ DOMAIN (RegCtx(p, i)') = RegFields
      /\ RegCtx(p, i)'["tmsi"] = RegCtx(p, i)["tmsi"]
      /\ RegCtx(p, i)'["policy"] = RegCtx(p, i)["policy"]
      /\ RegCtx(p, i)'["sm"] \in {RegCtx(p, i)["sm"], None}

\* The maps keep their keys.
RegSizes ==
    /\ DOMAIN ues' = Ids /\ DOMAIN retained' = Ids /\ DOMAIN evicted' = Ids /\ DOMAIN guti' = Ids
    /\ pcf' \subseteq Nat /\ smf' \subseteq Nat

\* A step in which contexts stay, lose or go keeps the invariant.
LEMMA RegKeeps ==
    ASSUME RegistrationAssumption, RegIInv, RegStays, RegSizes, RegLive', RegGutis',
           nextId' \in {nextId, nextId + 1}
    PROVE  RegIInv'
<1> USE DEF RegIInv
<1>1. ASSUME NEW p \in RegPlaces, NEW i \in Ids, NEW f \in RegRefs, RegCtx(p, i)' # None
      PROVE  RegCtx(p, i) # None /\ RegCtx(p, i)'[f] \in {RegCtx(p, i)[f], None}
  BY <1>1 DEF RegStays, RegRefs
<1>2. RegShape'
  <2>1. nextId' \in Nat \ {0} /\ nextId' >= nextId /\ nextId \in Nat
    BY DEF RegShape
  <2>2. ASSUME NEW p \in RegPlaces, NEW i \in Ids, RegCtx(p, i)' # None
        PROVE  /\ DOMAIN (RegCtx(p, i)') = RegFields /\ i < nextId'
               /\ \A f \in RegRefs : RegCtx(p, i)'[f] # None =>
                    RegCtx(p, i)'[f] \in Ids /\ RegCtx(p, i)'[f] < nextId'
    <3>1. i < nextId /\ i \in Int /\ DOMAIN (RegCtx(p, i)') = RegFields
      BY <2>2 DEF RegShape, RegStays, Ids
    <3>2. ASSUME NEW f \in RegRefs, RegCtx(p, i)'[f] # None
          PROVE  RegCtx(p, i)'[f] \in Ids /\ RegCtx(p, i)'[f] < nextId'
      <4>1. PICK n \in Ids : n = RegCtx(p, i)'[f] /\ n < nextId
        BY <1>1, <2>2, <3>2 DEF RegShape
      <4>2. n \in Int
        BY DEF Ids
      <4>3. QED
        BY <2>1, <4>1, <4>2
    <3>3. QED
      BY <2>1, <3>1, <3>2
  <2>3. ASSUME NEW t \in Ids, retained'[t] # None PROVE retained'[t]["tmsi"] = t
    BY <2>3 DEF RegShape, RegStays, RegPlaces, RegCtx
  <2>4. QED
    BY <2>1, <2>2, <2>3 DEF RegShape, RegSizes, RegCtx
<1>3. RegUnique'
  <2>1. ASSUME NEW f \in RegRefs, NEW p \in RegPlaces, NEW q \in RegPlaces, NEW i \in Ids, NEW j \in Ids,
               RegCtx(p, i)' # None, RegCtx(q, j)' # None, RegCtx(p, i)'[f] # None, RegCtx(p, i)'[f] = RegCtx(q, j)'[f]
        PROVE  p = q /\ i = j
    BY <2>1, <1>1 DEF RegUnique
  <2>2. QED
    BY <2>1 DEF RegUnique, RegCtx
<1>4. RegOwn'
  <2>1. ASSUME NEW f \in RegRefs, NEW q \in RegPlaces, NEW i \in Ids, NEW j \in Ids,
               ues'[i] # None, RegCtx(q, j)' # None, RegCtx(q, j)'[f] = i
        PROVE  q = "cm" /\ j = i
    <3>1. ues[i] # None
      BY <2>1, <1>1 DEF RegCtx, RegPlaces, RegRefs
    <3>2. i # None
      BY DEF RegistrationAssumption, Ids
    <3>3. RegCtx(q, j) # None /\ RegCtx(q, j)[f] = i
      BY <1>1, <2>1, <3>2
    <3>4. QED
      BY <3>1, <3>3 DEF RegOwn
  <2>2. QED
    BY <2>1 DEF RegOwn, RegCtx
<1>5. QED
  BY <1>2, <1>3, <1>4

\* What a step releases is what a context that goes, or its stripped sm_refs, owned.
LEMMA RegLivesOn ==
    ASSUME RegIInv, RegStays, NEW p \in RegPlaces, NEW i \in Ids,
           \A n \in pcf \ pcf' : RegCtx(p, i) # None /\ n = RegCtx(p, i)["policy"] /\ n # None /\ RegCtx(p, i)' = None,
           \A n \in smf \ smf' : /\ RegCtx(p, i) # None /\ n = RegCtx(p, i)["sm"] /\ n # None
                                 /\ RegCtx(p, i)' = None \/ RegCtx(p, i)'["sm"] = None
    PROVE  RegLive'
<1> USE DEF RegIInv
<1>1. ASSUME NEW q \in RegPlaces, NEW j \in Ids, RegCtx(q, j)' # None
      PROVE  /\ RegCtx(q, j)'["policy"] # None => RegCtx(q, j)'["policy"] \in pcf'
             /\ RegCtx(q, j)'["sm"] # None => RegCtx(q, j)'["sm"] \in smf'
  <2>1. /\ RegCtx(q, j) # None /\ RegCtx(q, j)'["policy"] = RegCtx(q, j)["policy"]
        /\ RegCtx(q, j)'["sm"] \in {RegCtx(q, j)["sm"], None}
    BY <1>1 DEF RegStays
  <2>2. ASSUME RegCtx(q, j)["policy"] # None, RegCtx(q, j)["policy"] \notin pcf' PROVE FALSE
    <3>1. RegCtx(q, j)["policy"] \in pcf
      BY <2>1, <2>2 DEF RegLive
    <3>2. /\ RegCtx(p, i) # None /\ RegCtx(p, i)["policy"] = RegCtx(q, j)["policy"] /\ RegCtx(p, i)' = None
      BY <2>2, <3>1
    <3>3. p = q /\ i = j
      BY <2>1, <2>2, <3>2 DEF RegUnique, RegRefs
    <3>4. QED
      BY <1>1, <3>2, <3>3
  <2>3. ASSUME RegCtx(q, j)'["sm"] # None, RegCtx(q, j)["sm"] \notin smf' PROVE FALSE
    <3>1. RegCtx(q, j)["sm"] \in smf /\ RegCtx(q, j)["sm"] # None
      BY <2>1, <2>3 DEF RegLive
    <3>2. /\ RegCtx(p, i) # None /\ RegCtx(p, i)["sm"] = RegCtx(q, j)["sm"]
          /\ RegCtx(p, i)' = None \/ RegCtx(p, i)'["sm"] = None
      BY <2>3, <3>1
    <3>3. p = q /\ i = j
      BY <2>1, <3>1, <3>2 DEF RegUnique, RegRefs
    <3>4. QED
      BY <1>1, <2>3, <3>2, <3>3
  <2>4. QED
    BY <2>1, <2>2, <2>3
<1>2. QED
  BY <1>1 DEF RegLive, RegCtx

\* GUTI_DIRECTORY is re-keyed in one critical section.
LEMMA RegRekeys ==
    ASSUME RegIInv, NEW s,
           \/ guti' = guti
           \/ guti' = GutiPurged(s)
           \/ \E i \in Ids : guti' = [GutiPurged(s) EXCEPT ![i] = s]
    PROVE  RegGutis' /\ DOMAIN guti' = Ids
<1> USE DEF RegIInv, RegShape, RegGutis
<1>1. CASE guti' = guti
  BY <1>1
<1> DEFINE g == GutiPurged(s)
<1>2. /\ DOMAIN g = Ids
      /\ \A t \in Ids : g[t] = IF guti[t] = s /\ s # None THEN None ELSE guti[t]
  BY DEF GutiPurged
<1> HIDE DEF g
<1>3. CASE guti' = g
  BY <1>2, <1>3
<1>4. ASSUME NEW i \in Ids, guti' = [g EXCEPT ![i] = s] PROVE RegGutis' /\ DOMAIN guti' = Ids
  <2>1. /\ DOMAIN guti' = Ids /\ guti'[i] = s
        /\ \A t \in Ids \ {i} : guti'[t] = IF guti[t] = s /\ s # None THEN None ELSE guti[t]
    BY <1>2, <1>4
  <2>2. QED
    BY <2>1
<1>5. QED
  BY <1>1, <1>3, <1>4 DEF g

\* A context is edited in place.
LEMMA RegEdits ==
    ASSUME RegistrationAssumption, RegIInv, NEW i \in Ids, ues[i] # None, NEW x, DOMAIN x = RegFields,
           x["tmsi"] = ues[i]["tmsi"], x["policy"] = ues[i]["policy"],
           \/ x["sm"] = ues[i]["sm"] /\ UNCHANGED smf
           \/ x["sm"] = None /\ smf' = smf \ Owned(ues[i]["sm"]),
           ues' = [ues EXCEPT ![i] = x], UNCHANGED <<retained, evicted, guti, nextId, pcf>>
    PROVE  RegIInv'
<1> USE DEF RegIInv
<1>1. DOMAIN ues' = Ids /\ ues'[i] = x /\ \A j \in Ids \ {i} : ues'[j] = ues[j]
  BY DEF RegShape
<1>2. RegStays
  <2>1. ASSUME NEW p \in RegPlaces, NEW j \in Ids, RegCtx(p, j)' # None
        PROVE  /\ RegCtx(p, j) # None /\ DOMAIN (RegCtx(p, j)') = RegFields
               /\ RegCtx(p, j)'["tmsi"] = RegCtx(p, j)["tmsi"]
               /\ RegCtx(p, j)'["policy"] = RegCtx(p, j)["policy"]
               /\ RegCtx(p, j)'["sm"] \in {RegCtx(p, j)["sm"], None}
    <3>1. CASE p = "cm" /\ j = i
      BY <1>1, <3>1 DEF RegCtx
    <3>2. CASE ~(p = "cm" /\ j = i)
      <4>1. RegCtx(p, j)' = RegCtx(p, j)
        BY <1>1, <3>2 DEF RegCtx
      <4>2. QED
        BY <2>1, <4>1 DEF RegShape
    <3>3. QED
      BY <3>1, <3>2
  <2>2. QED
    BY <2>1 DEF RegStays
<1>3. RegSizes
  BY <1>1 DEF RegSizes, RegShape
<1>4. RegLive'
  <2>1. \A n \in smf \ smf' : n = ues[i]["sm"] /\ n # None /\ x["sm"] = None
    BY DEF Owned
  <2>2. RegCtx("cm", i) = ues[i] /\ RegCtx("cm", i)' = x /\ "cm" \in RegPlaces
    BY <1>1 DEF RegCtx, RegPlaces
  <2>3. pcf \ pcf' = {}
    OBVIOUS
  <2>4. QED
    BY <1>2, <2>1, <2>2, <2>3, RegLivesOn
<1>5. RegGutis'
  BY DEF RegGutis
<1>6. QED
  BY <1>2, <1>3, <1>4, <1>5, RegKeeps

\* A context goes, and what it owned may be released with it.
LEMMA RegDrops ==
    ASSUME RegistrationAssumption, RegIInv, NEW i \in Ids, ues[i] # None,
           ues' = Removed(i), UNCHANGED <<retained, evicted, nextId>>,
           pcf' \in SUBSET Nat, pcf \ Owned(ues[i]["policy"]) \subseteq pcf',
           smf' \in {smf, smf \ Owned(ues[i]["sm"])}, NEW s, guti' \in {guti, GutiPurged(s)}
    PROVE  RegIInv'
<1> USE DEF RegIInv
<1>1. DOMAIN ues' = Ids /\ ues'[i] = None /\ \A j \in Ids \ {i} : ues'[j] = ues[j]
  BY DEF RegShape, Removed
<1>2. RegStays
  <2>1. ASSUME NEW p \in RegPlaces, NEW j \in Ids, RegCtx(p, j)' # None
        PROVE  /\ RegCtx(p, j) # None /\ DOMAIN (RegCtx(p, j)') = RegFields
               /\ RegCtx(p, j)'["tmsi"] = RegCtx(p, j)["tmsi"]
               /\ RegCtx(p, j)'["policy"] = RegCtx(p, j)["policy"]
               /\ RegCtx(p, j)'["sm"] \in {RegCtx(p, j)["sm"], None}
    <3>1. RegCtx(p, j)' = RegCtx(p, j)
      BY <1>1, <2>1 DEF RegCtx
    <3>2. QED
      BY <2>1, <3>1 DEF RegShape
  <2>2. QED
    BY <2>1 DEF RegStays
<1>3. RegGutis' /\ DOMAIN guti' = Ids
  BY RegRekeys
<1>4. RegSizes
  BY <1>1, <1>3 DEF RegSizes, RegShape
<1>5. RegLive'
  <2>1. /\ \A n \in smf \ smf' : n = ues[i]["sm"] /\ n # None
        /\ \A n \in pcf \ pcf' : n = ues[i]["policy"] /\ n # None
    BY DEF Owned
  <2>2. RegCtx("cm", i) = ues[i] /\ RegCtx("cm", i)' = None /\ "cm" \in RegPlaces
    BY <1>1 DEF RegCtx, RegPlaces
  <2>3. QED
    BY <1>2, <2>1, <2>2, RegLivesOn
<1>6. QED
  BY <1>2, <1>3, <1>4, <1>5, RegKeeps

\* The contexts, the 5G-GUTIs and what the other functions hold stay as they are.
LEMMA RegNothing ==
    ASSUME RegIInv, UNCHANGED <<ues, retained, evicted, guti, nextId, pcf, smf>>
    PROVE  RegIInv'
BY DEF RegIInv, RegShape, RegUnique, RegOwn, RegLive, RegGutis, RegCtx

\* A number is not None.
LEMMA RegIdNotNone == ASSUME RegistrationAssumption PROVE \A i \in Nat : i # None
BY DEF RegistrationAssumption

\* A connection opens, under the next number.
LEMMA RegOpens ==
    ASSUME RegistrationAssumption, RegIInv, nextId \in Ids, NEW x, DOMAIN x = RegFields,
           x["tmsi"] = None, x["policy"] = None, x["sm"] = None,
           ues' = [ues EXCEPT ![nextId] = x], nextId' = nextId + 1,
           UNCHANGED <<retained, evicted, guti, pcf, smf>>
    PROVE  RegIInv'
<1> USE DEF RegIInv
<1>0. PICK n \in Ids : n = nextId
  OBVIOUS
<1>1. DOMAIN ues' = Ids /\ ues'[n] = x /\ \A j \in Ids \ {n} : ues'[j] = ues[j]
  BY <1>0 DEF RegShape
<1>2. ASSUME NEW p \in RegPlaces, NEW j \in Ids, RegCtx(p, j)' # None
      PROVE  \/ RegCtx(p, j)' = RegCtx(p, j) /\ ~(p = "cm" /\ j = n)
             \/ RegCtx(p, j)' = x /\ p = "cm" /\ j = n
  BY <1>1, <1>2 DEF RegCtx
<1>3. \A f \in RegRefs : x[f] = None
  BY DEF RegRefs
<1>4. n \in Nat /\ n # None /\ nextId' \in Nat \ {0} /\ nextId' = n + 1
  BY <1>0, RegIdNotNone DEF Ids, RegShape
<1>5. \A p \in RegPlaces, j \in Ids, f \in RegRefs : RegCtx(p, j) # None => RegCtx(p, j)[f] # n
  BY <1>0, <1>4 DEF RegShape
<1>6. RegShape'
  <2>1. ASSUME NEW p \in RegPlaces, NEW i \in Ids, RegCtx(p, i)' # None
        PROVE  /\ DOMAIN (RegCtx(p, i)') = RegFields /\ i < nextId'
               /\ \A f \in RegRefs : RegCtx(p, i)'[f] # None =>
                    RegCtx(p, i)'[f] \in Ids /\ RegCtx(p, i)'[f] < nextId'
    <3>1. CASE RegCtx(p, i)' = x /\ p = "cm" /\ i = n
      BY <1>3, <1>4, <3>1
    <3>2. CASE RegCtx(p, i)' = RegCtx(p, i)
      <4>1. i < n /\ i \in Nat /\ DOMAIN (RegCtx(p, i)') = RegFields
        BY <1>0, <2>1, <3>2 DEF RegShape, Ids
      <4>2. ASSUME NEW f \in RegRefs, RegCtx(p, i)[f] # None
            PROVE  RegCtx(p, i)[f] \in Ids /\ RegCtx(p, i)[f] < n + 1
        <5>1. PICK m \in Ids : m = RegCtx(p, i)[f] /\ m < n
          BY <1>0, <2>1, <3>2, <4>2 DEF RegShape
        <5>2. QED
          BY <1>4, <5>1 DEF Ids
      <4>3. QED
        BY <1>4, <3>2, <4>1, <4>2
    <3>3. QED
      BY <1>2, <2>1, <3>1, <3>2
  <2>2. QED
    BY <1>1, <1>4, <2>1 DEF RegShape, RegCtx
<1>7. RegUnique'
  <2>1. ASSUME NEW f \in RegRefs, NEW p \in RegPlaces, NEW q \in RegPlaces, NEW i \in Ids, NEW j \in Ids,
               RegCtx(p, i)' # None, RegCtx(q, j)' # None, RegCtx(p, i)'[f] # None, RegCtx(p, i)'[f] = RegCtx(q, j)'[f]
        PROVE  p = q /\ i = j
    BY <2>1, <1>2, <1>3 DEF RegUnique
  <2>2. QED
    BY <2>1 DEF RegUnique, RegCtx
<1>8. RegOwn'
  <2>1. ASSUME NEW f \in RegRefs, NEW q \in RegPlaces, NEW i \in Ids, NEW j \in Ids,
               ues'[i] # None, RegCtx(q, j)' # None, RegCtx(q, j)'[f] = i
        PROVE  q = "cm" /\ j = i
    <3>1. i # None
      BY RegIdNotNone DEF Ids
    <3>2. RegCtx(q, j)' = RegCtx(q, j) /\ ~(q = "cm" /\ j = n) /\ RegCtx(q, j) # None
      BY <2>1, <1>2, <1>3, <3>1
    <3>3. i # n
      BY <1>5, <2>1, <3>2
    <3>4. QED
      BY <1>1, <2>1, <3>2, <3>3 DEF RegOwn
  <2>2. QED
    BY <2>1 DEF RegOwn, RegCtx
<1>9. RegLive'
  <2>1. ASSUME NEW p \in RegPlaces, NEW i \in Ids, RegCtx(p, i)' # None
        PROVE  /\ RegCtx(p, i)'["policy"] # None => RegCtx(p, i)'["policy"] \in pcf'
               /\ RegCtx(p, i)'["sm"] # None => RegCtx(p, i)'["sm"] \in smf'
    BY <1>2, <2>1 DEF RegLive
  <2>2. QED
    BY <2>1 DEF RegLive, RegCtx
<1>10. RegGutis'
  BY DEF RegGutis
<1>11. QED
  BY <1>6, <1>7, <1>8, <1>9, <1>10

\* Context i comes to own what is numbered i.
LEMMA RegGains ==
    ASSUME RegistrationAssumption, RegIInv, NEW i \in Ids, ues[i] # None, NEW x, DOMAIN x = RegFields,
           \A f \in RegRefs : x[f] \in {ues[i][f], i},
           x["policy"] = ues[i]["policy"] \/ x["policy"] \in pcf',
           x["sm"] = ues[i]["sm"] \/ x["sm"] \in smf',
           pcf \subseteq pcf', smf \subseteq smf', pcf' \subseteq Nat, smf' \subseteq Nat,
           ues' = [ues EXCEPT ![i] = x], UNCHANGED <<retained, evicted, nextId>>, RegGutis', DOMAIN guti' = Ids
    PROVE  RegIInv'
<1> USE DEF RegIInv
<1>1. DOMAIN ues' = Ids /\ ues'[i] = x /\ \A j \in Ids \ {i} : ues'[j] = ues[j]
  BY DEF RegShape
<1>2. ASSUME NEW p \in RegPlaces, NEW j \in Ids, RegCtx(p, j)' # None
      PROVE  /\ RegCtx(p, j) # None /\ DOMAIN (RegCtx(p, j)') = RegFields
             /\ \A f \in RegRefs : \/ RegCtx(p, j)'[f] = RegCtx(p, j)[f]
                                   \/ RegCtx(p, j)'[f] = i /\ p = "cm" /\ j = i
  <2>1. CASE p = "cm" /\ j = i
    BY <1>1, <2>1 DEF RegCtx
  <2>2. CASE ~(p = "cm" /\ j = i)
    <3>1. RegCtx(p, j)' = RegCtx(p, j)
      BY <1>1, <2>2 DEF RegCtx
    <3>2. QED
      BY <1>2, <3>1 DEF RegShape
  <2>3. QED
    BY <2>1, <2>2
<1>3. i \in Nat /\ i # None /\ i < nextId
  BY RegIdNotNone DEF Ids, RegShape, RegPlaces, RegCtx
<1>4. RegShape'
  <2>1. ASSUME NEW p \in RegPlaces, NEW j \in Ids, RegCtx(p, j)' # None
        PROVE  /\ DOMAIN (RegCtx(p, j)') = RegFields /\ j < nextId'
               /\ \A f \in RegRefs : RegCtx(p, j)'[f] # None =>
                    RegCtx(p, j)'[f] \in Ids /\ RegCtx(p, j)'[f] < nextId'
    BY <1>2, <1>3, <2>1 DEF RegShape
  <2>2. QED
    BY <1>1, <2>1 DEF RegShape, RegCtx
<1>5. RegUnique'
  <2>1. ASSUME NEW f \in RegRefs, NEW p \in RegPlaces, NEW q \in RegPlaces, NEW j \in Ids, NEW k \in Ids,
               RegCtx(p, j)' # None, RegCtx(q, k)' # None, RegCtx(p, j)'[f] # None, RegCtx(p, j)'[f] = RegCtx(q, k)'[f]
        PROVE  p = q /\ j = k
    <3>0. /\ RegCtx(p, j) # None /\ RegCtx(q, k) # None
          /\ RegCtx(p, j)'[f] = RegCtx(p, j)[f] \/ (RegCtx(p, j)'[f] = i /\ p = "cm" /\ j = i)
          /\ RegCtx(q, k)'[f] = RegCtx(q, k)[f] \/ (RegCtx(q, k)'[f] = i /\ q = "cm" /\ k = i)
      BY <1>2, <2>1
    <3>1. CASE RegCtx(p, j)'[f] = RegCtx(p, j)[f] /\ RegCtx(q, k)'[f] = RegCtx(q, k)[f]
      <4>1. RegCtx(p, j)[f] # None /\ RegCtx(p, j)[f] = RegCtx(q, k)[f]
        BY <2>1, <3>1
      <4>2. QED
        BY <3>0, <4>1 DEF RegUnique
    <3>2. CASE RegCtx(p, j)'[f] = i
      <4>1. /\ RegCtx(p, j)[f] = i => p = "cm" /\ j = i
            /\ RegCtx(q, k)[f] = i => q = "cm" /\ k = i
        BY <3>0 DEF RegOwn
      <4>2. RegCtx(q, k)'[f] = i
        BY <2>1, <3>2
      <4>3. QED
        BY <3>0, <3>2, <4>1, <4>2
    <3>3. CASE RegCtx(q, k)'[f] = i
      BY <2>1, <3>2, <3>3
    <3>4. QED
      BY <3>0, <3>1, <3>2, <3>3
  <2>2. QED
    BY <2>1 DEF RegUnique, RegCtx
<1>6. RegOwn'
  <2>1. ASSUME NEW f \in RegRefs, NEW q \in RegPlaces, NEW k \in Ids, NEW j \in Ids,
               ues'[k] # None, RegCtx(q, j)' # None, RegCtx(q, j)'[f] = k
        PROVE  q = "cm" /\ j = k
    <3>1. ues[k] # None
      BY <1>1, <2>1
    <3>2. QED
      BY <1>2, <2>1, <3>1 DEF RegOwn
  <2>2. QED
    BY <2>1 DEF RegOwn, RegCtx
<1>7. RegLive'
  <2>1. ASSUME NEW p \in RegPlaces, NEW j \in Ids, RegCtx(p, j)' # None
        PROVE  /\ RegCtx(p, j)'["policy"] # None => RegCtx(p, j)'["policy"] \in pcf'
               /\ RegCtx(p, j)'["sm"] # None => RegCtx(p, j)'["sm"] \in smf'
    <3>1. CASE p = "cm" /\ j = i
      <4>1. RegCtx(p, j)' = x /\ RegCtx(p, j) = ues[i]
        BY <1>1, <3>1 DEF RegCtx
      <4>2. QED
        BY <4>1, <2>1, <3>1 DEF RegLive
    <3>2. CASE ~(p = "cm" /\ j = i)
      <4>1. RegCtx(p, j)' = RegCtx(p, j)
        BY <1>1, <3>2 DEF RegCtx
      <4>2. QED
        BY <4>1, <2>1 DEF RegLive
    <3>3. QED
      BY <3>1, <3>2
  <2>2. QED
    BY <2>1 DEF RegLive, RegCtx
<1>8. QED
  BY <1>4, <1>5, <1>6, <1>7

\* A context moves from a connection to RETAINED, under its 5G-TMSI.
LEMMA RegParks ==
    ASSUME RegistrationAssumption, RegIInv, NEW i \in Ids, ues[i] # None,
           NEW t \in Ids, t = ues[i]["tmsi"],
           ues' = Removed(i), retained' = [retained EXCEPT ![t] = ues[i]],
           UNCHANGED <<evicted, nextId, guti, pcf, smf>>
    PROVE  RegIInv'
<1> USE DEF RegIInv
<1>1. /\ DOMAIN ues' = Ids /\ ues'[i] = None /\ \A j \in Ids \ {i} : ues'[j] = ues[j]
      /\ DOMAIN retained' = Ids /\ retained'[t] = ues[i] /\ \A j \in Ids \ {t} : retained'[j] = retained[j]
  BY DEF RegShape, Removed
<1>2. i \in Nat /\ i # None /\ i < nextId /\ t \in Nat /\ t # None /\ t < nextId
  BY RegIdNotNone DEF Ids, RegShape, RegPlaces, RegCtx, RegRefs
<1>3. ASSUME NEW p \in RegPlaces, NEW j \in Ids, RegCtx(p, j)' # None
      PROVE  \/ p = "idle" /\ j = t /\ RegCtx(p, j)' = RegCtx("cm", i)
             \/ /\ ~(p = "idle" /\ j = t) /\ ~(p = "cm" /\ j = i)
                /\ RegCtx(p, j)' = RegCtx(p, j) /\ RegCtx(p, j) # None
  <2>1. CASE p = "idle" /\ j = t
    BY <1>1, <2>1 DEF RegCtx
  <2>2. CASE p = "idle" /\ j # t
    BY <1>1, <1>3, <2>2 DEF RegCtx
  <2>3. CASE p \in {"cm", "leaving"}
    BY <1>1, <1>3, <2>3 DEF RegCtx
  <2>4. QED
    BY <2>1, <2>2, <2>3 DEF RegPlaces
<1>4. RegCtx("cm", i) # None /\ "cm" \in RegPlaces
  BY DEF RegCtx, RegPlaces
<1>5. RegShape'
  <2>1. ASSUME NEW p \in RegPlaces, NEW j \in Ids, RegCtx(p, j)' # None
        PROVE  /\ DOMAIN (RegCtx(p, j)') = RegFields /\ j < nextId'
               /\ \A f \in RegRefs : RegCtx(p, j)'[f] # None =>
                    RegCtx(p, j)'[f] \in Ids /\ RegCtx(p, j)'[f] < nextId'
    BY <1>2, <1>3, <1>4, <2>1 DEF RegShape
  <2>2. \A j \in Ids : retained'[j] # None => retained'[j]["tmsi"] = j
    BY <1>1 DEF RegShape
  <2>3. QED
    BY <1>1, <2>1, <2>2 DEF RegShape, RegCtx
<1>6. RegUnique'
  <2>1. ASSUME NEW f \in RegRefs, NEW p \in RegPlaces, NEW q \in RegPlaces, NEW j \in Ids, NEW k \in Ids,
               RegCtx(p, j)' # None, RegCtx(q, k)' # None, RegCtx(p, j)'[f] # None, RegCtx(p, j)'[f] = RegCtx(q, k)'[f]
        PROVE  p = q /\ j = k
    <3>1. \/ p = "idle" /\ j = t /\ RegCtx(p, j)' = RegCtx("cm", i)
          \/ /\ ~(p = "idle" /\ j = t) /\ ~(p = "cm" /\ j = i)
             /\ RegCtx(p, j)' = RegCtx(p, j) /\ RegCtx(p, j) # None
      BY <1>3, <2>1
    <3>2. \/ q = "idle" /\ k = t /\ RegCtx(q, k)' = RegCtx("cm", i)
          \/ /\ ~(q = "idle" /\ k = t) /\ ~(q = "cm" /\ k = i)
             /\ RegCtx(q, k)' = RegCtx(q, k) /\ RegCtx(q, k) # None
      BY <1>3, <2>1
    <3>3. QED
      BY <1>4, <2>1, <3>1, <3>2 DEF RegUnique
  <2>2. QED
    BY <2>1 DEF RegUnique, RegCtx
<1>7. RegOwn'
  <2>1. ASSUME NEW f \in RegRefs, NEW q \in RegPlaces, NEW k \in Ids, NEW j \in Ids,
               ues'[k] # None, RegCtx(q, j)' # None, RegCtx(q, j)'[f] = k
        PROVE  q = "cm" /\ j = k
    <3>1. ues[k] # None /\ k # i
      BY <1>1, <2>1
    <3>2. \/ q = "idle" /\ j = t /\ RegCtx(q, j)' = RegCtx("cm", i)
          \/ RegCtx(q, j)' = RegCtx(q, j) /\ RegCtx(q, j) # None
      BY <1>3, <2>1
    <3>3. QED
      BY <1>4, <2>1, <3>1, <3>2 DEF RegOwn
  <2>2. QED
    BY <2>1 DEF RegOwn, RegCtx
<1>8. RegLive'
  <2>1. ASSUME NEW p \in RegPlaces, NEW j \in Ids, RegCtx(p, j)' # None
        PROVE  /\ RegCtx(p, j)'["policy"] # None => RegCtx(p, j)'["policy"] \in pcf'
               /\ RegCtx(p, j)'["sm"] # None => RegCtx(p, j)'["sm"] \in smf'
    BY <1>3, <1>4, <2>1 DEF RegLive
  <2>2. QED
    BY <2>1 DEF RegLive, RegCtx
<1>9. RegGutis'
  BY DEF RegGutis
<1>10. QED
  BY <1>5, <1>6, <1>7, <1>8, <1>9

\* A context moves from RETAINED to a new connection, under its 5G-TMSI or a new one.
LEMMA RegReturns ==
    ASSUME RegistrationAssumption, RegIInv, nextId \in Ids, NEW t \in Ids, retained[t] # None,
           NEW x, DOMAIN x = RegFields,
           x["tmsi"] \in {t, nextId}, x["policy"] = retained[t]["policy"], x["sm"] = retained[t]["sm"],
           ues' = [ues EXCEPT ![nextId] = x], retained' = TakenFromRetained(t), nextId' = nextId + 1,
           RegGutis', DOMAIN guti' = Ids, UNCHANGED <<evicted, pcf, smf>>
    PROVE  RegIInv'
<1> USE DEF RegIInv
<1>0. PICK n \in Ids : n = nextId
  OBVIOUS
<1>1. /\ DOMAIN ues' = Ids /\ ues'[n] = x /\ \A j \in Ids \ {n} : ues'[j] = ues[j]
      /\ DOMAIN retained' = Ids /\ retained'[t] = None /\ \A j \in Ids \ {t} : retained'[j] = retained[j]
  BY <1>0 DEF RegShape, TakenFromRetained
<1>2. n \in Nat /\ n # None /\ nextId' \in Nat \ {0} /\ nextId' = n + 1 /\ t \in Nat /\ t # None
  BY <1>0, RegIdNotNone DEF Ids, RegShape
<1>3. ASSUME NEW p \in RegPlaces, NEW j \in Ids, RegCtx(p, j)' # None
      PROVE  \/ p = "cm" /\ j = n /\ RegCtx(p, j)' = x
             \/ /\ ~(p = "idle" /\ j = t) /\ ~(p = "cm" /\ j = n)
                /\ RegCtx(p, j)' = RegCtx(p, j) /\ RegCtx(p, j) # None
  <2>1. CASE p \in {"idle", "leaving"}
    BY <1>1, <1>3, <2>1 DEF RegCtx
  <2>2. CASE p = "cm" /\ j # n
    BY <1>1, <1>3, <2>2 DEF RegCtx
  <2>3. CASE p = "cm" /\ j = n
    BY <1>1, <1>3, <2>3 DEF RegCtx
  <2>4. QED
    BY <2>1, <2>2, <2>3 DEF RegPlaces
<1>4. /\ RegCtx("idle", t) # None /\ "idle" \in RegPlaces /\ RegCtx("idle", t)["tmsi"] = t
      /\ \A f \in RegRefs : x[f] = RegCtx("idle", t)[f] \/ x[f] = n
  BY <1>0 DEF RegCtx, RegPlaces, RegRefs, RegShape
<1>5. \A p \in RegPlaces, j \in Ids, f \in RegRefs : RegCtx(p, j) # None => RegCtx(p, j)[f] # n
  BY <1>0, <1>2 DEF RegShape
<1>6. RegShape'
  <2>1. ASSUME NEW p \in RegPlaces, NEW j \in Ids, RegCtx(p, j)' # None
        PROVE  /\ DOMAIN (RegCtx(p, j)') = RegFields /\ j < nextId'
               /\ \A f \in RegRefs : RegCtx(p, j)'[f] # None =>
                    RegCtx(p, j)'[f] \in Ids /\ RegCtx(p, j)'[f] < nextId'
    <3>1. \A q \in RegPlaces, k \in Ids, f \in RegRefs : RegCtx(q, k) # None /\ RegCtx(q, k)[f] # None =>
             RegCtx(q, k)[f] \in Ids /\ RegCtx(q, k)[f] < n + 1
      <4> SUFFICES ASSUME NEW q \in RegPlaces, NEW k \in Ids, NEW f \in RegRefs, RegCtx(q, k) # None,
                          RegCtx(q, k)[f] # None
                   PROVE  RegCtx(q, k)[f] \in Ids /\ RegCtx(q, k)[f] < n + 1
        OBVIOUS
      <4>1. PICK m \in Ids : m = RegCtx(q, k)[f] /\ m < n
        BY <1>0 DEF RegShape
      <4>2. QED
        BY <1>2, <4>1 DEF Ids
    <3>2. CASE p = "cm" /\ j = n /\ RegCtx(p, j)' = x
      <4>1. ASSUME NEW f \in RegRefs, x[f] # None PROVE x[f] \in Ids /\ x[f] < n + 1
        BY <1>2, <1>4, <3>1, <4>1
      <4>2. QED
        BY <1>2, <3>2, <4>1
    <3>3. CASE RegCtx(p, j)' = RegCtx(p, j) /\ RegCtx(p, j) # None
      <4>1. j < n /\ j \in Nat /\ DOMAIN (RegCtx(p, j)') = RegFields
        BY <1>0, <3>3 DEF RegShape, Ids
      <4>2. QED
        BY <1>2, <3>1, <3>3, <4>1
    <3>4. QED
      BY <1>3, <2>1, <3>2, <3>3
  <2>2. \A j \in Ids : retained'[j] # None => retained'[j]["tmsi"] = j
    BY <1>1 DEF RegShape
  <2>3. QED
    BY <1>1, <1>2, <2>1, <2>2 DEF RegShape, RegCtx
<1>7. RegUnique'
  <2>1. ASSUME NEW f \in RegRefs, NEW p \in RegPlaces, NEW q \in RegPlaces, NEW j \in Ids, NEW k \in Ids,
               RegCtx(p, j)' # None, RegCtx(q, k)' # None, RegCtx(p, j)'[f] # None, RegCtx(p, j)'[f] = RegCtx(q, k)'[f]
        PROVE  p = q /\ j = k
    <3>1. \/ p = "cm" /\ j = n /\ RegCtx(p, j)' = x
          \/ /\ ~(p = "idle" /\ j = t) /\ ~(p = "cm" /\ j = n)
             /\ RegCtx(p, j)' = RegCtx(p, j) /\ RegCtx(p, j) # None
      BY <1>3, <2>1
    <3>2. \/ q = "cm" /\ k = n /\ RegCtx(q, k)' = x
          \/ /\ ~(q = "idle" /\ k = t) /\ ~(q = "cm" /\ k = n)
             /\ RegCtx(q, k)' = RegCtx(q, k) /\ RegCtx(q, k) # None
      BY <1>3, <2>1
    <3>3. QED
      BY <1>4, <1>5, <2>1, <3>1, <3>2 DEF RegUnique
  <2>2. QED
    BY <2>1 DEF RegUnique, RegCtx
<1>8. RegOwn'
  <2>1. ASSUME NEW f \in RegRefs, NEW q \in RegPlaces, NEW k \in Ids, NEW j \in Ids,
               ues'[k] # None, RegCtx(q, j)' # None, RegCtx(q, j)'[f] = k
        PROVE  q = "cm" /\ j = k
    <3>1. \/ q = "cm" /\ j = n /\ RegCtx(q, j)' = x
          \/ RegCtx(q, j)' = RegCtx(q, j) /\ RegCtx(q, j) # None
      BY <1>3, <2>1
    <3>2. k = n \/ ues[k] # None
      BY <1>1, <2>1
    <3>3. QED
      BY <1>4, <1>5, <2>1, <3>1, <3>2 DEF RegOwn
  <2>2. QED
    BY <2>1 DEF RegOwn, RegCtx
<1>9. RegLive'
  <2>1. ASSUME NEW p \in RegPlaces, NEW j \in Ids, RegCtx(p, j)' # None
        PROVE  /\ RegCtx(p, j)'["policy"] # None => RegCtx(p, j)'["policy"] \in pcf'
               /\ RegCtx(p, j)'["sm"] # None => RegCtx(p, j)'["sm"] \in smf'
    <3>1. x["policy"] = RegCtx("idle", t)["policy"] /\ x["sm"] = RegCtx("idle", t)["sm"]
      BY DEF RegCtx
    <3>2. QED
      BY <1>3, <1>4, <2>1, <3>1 DEF RegLive
  <2>2. QED
    BY <2>1 DEF RegLive, RegCtx
<1>10. QED
  BY <1>6, <1>7, <1>8, <1>9

\* A context moves from RETAINED to the eviction sweep.
LEMMA RegLeaves ==
    ASSUME RegistrationAssumption, RegIInv, NEW t \in Ids, retained[t] # None,
           retained' = TakenFromRetained(t), evicted' = [evicted EXCEPT ![t] = retained[t]],
           UNCHANGED <<ues, nextId, guti, pcf, smf>>
    PROVE  RegIInv'
<1> USE DEF RegIInv
<1>1. /\ DOMAIN retained' = Ids /\ retained'[t] = None /\ \A j \in Ids \ {t} : retained'[j] = retained[j]
      /\ DOMAIN evicted' = Ids /\ evicted'[t] = retained[t] /\ \A j \in Ids \ {t} : evicted'[j] = evicted[j]
      /\ DOMAIN ues = Ids
  BY DEF RegShape, TakenFromRetained
<1>2. t \in Nat /\ t # None /\ t < nextId
  BY RegIdNotNone DEF Ids, RegShape, RegPlaces, RegCtx
<1>3. ASSUME NEW p \in RegPlaces, NEW j \in Ids, RegCtx(p, j)' # None
      PROVE  \/ p = "leaving" /\ j = t /\ RegCtx(p, j)' = RegCtx("idle", t)
             \/ /\ ~(p = "leaving" /\ j = t) /\ ~(p = "idle" /\ j = t)
                /\ RegCtx(p, j)' = RegCtx(p, j) /\ RegCtx(p, j) # None
  <2>1. CASE p = "leaving" /\ j = t
    BY <1>1, <2>1 DEF RegCtx
  <2>2. CASE p = "leaving" /\ j # t
    BY <1>1, <1>3, <2>2 DEF RegCtx
  <2>3. CASE p \in {"cm", "idle"}
    BY <1>1, <1>3, <2>3 DEF RegCtx
  <2>4. QED
    BY <2>1, <2>2, <2>3 DEF RegPlaces
<1>4. RegCtx("idle", t) # None /\ "idle" \in RegPlaces
  BY DEF RegCtx, RegPlaces
<1>5. RegShape'
  <2>1. ASSUME NEW p \in RegPlaces, NEW j \in Ids, RegCtx(p, j)' # None
        PROVE  /\ DOMAIN (RegCtx(p, j)') = RegFields /\ j < nextId'
               /\ \A f \in RegRefs : RegCtx(p, j)'[f] # None =>
                    RegCtx(p, j)'[f] \in Ids /\ RegCtx(p, j)'[f] < nextId'
    BY <1>2, <1>3, <1>4, <2>1 DEF RegShape
  <2>2. \A j \in Ids : retained'[j] # None => retained'[j]["tmsi"] = j
    BY <1>1 DEF RegShape
  <2>3. QED
    BY <1>1, <2>1, <2>2 DEF RegShape, RegCtx
<1>6. RegUnique'
  <2>1. ASSUME NEW f \in RegRefs, NEW p \in RegPlaces, NEW q \in RegPlaces, NEW j \in Ids, NEW k \in Ids,
               RegCtx(p, j)' # None, RegCtx(q, k)' # None, RegCtx(p, j)'[f] # None, RegCtx(p, j)'[f] = RegCtx(q, k)'[f]
        PROVE  p = q /\ j = k
    <3>1. \/ p = "leaving" /\ j = t /\ RegCtx(p, j)' = RegCtx("idle", t)
          \/ /\ ~(p = "leaving" /\ j = t) /\ ~(p = "idle" /\ j = t)
             /\ RegCtx(p, j)' = RegCtx(p, j) /\ RegCtx(p, j) # None
      BY <1>3, <2>1
    <3>2. \/ q = "leaving" /\ k = t /\ RegCtx(q, k)' = RegCtx("idle", t)
          \/ /\ ~(q = "leaving" /\ k = t) /\ ~(q = "idle" /\ k = t)
             /\ RegCtx(q, k)' = RegCtx(q, k) /\ RegCtx(q, k) # None
      BY <1>3, <2>1
    <3>3. QED
      BY <1>4, <2>1, <3>1, <3>2 DEF RegUnique
  <2>2. QED
    BY <2>1 DEF RegUnique, RegCtx
<1>7. RegOwn'
  <2>1. ASSUME NEW f \in RegRefs, NEW q \in RegPlaces, NEW k \in Ids, NEW j \in Ids,
               ues'[k] # None, RegCtx(q, j)' # None, RegCtx(q, j)'[f] = k
        PROVE  q = "cm" /\ j = k
    <3>1. ues[k] # None
      BY <2>1
    <3>2. \/ q = "leaving" /\ j = t /\ RegCtx(q, j)' = RegCtx("idle", t)
          \/ RegCtx(q, j)' = RegCtx(q, j) /\ RegCtx(q, j) # None
      BY <1>3, <2>1
    <3>3. QED
      BY <1>4, <2>1, <3>1, <3>2 DEF RegOwn
  <2>2. QED
    BY <2>1 DEF RegOwn, RegCtx
<1>8. RegLive'
  <2>1. ASSUME NEW p \in RegPlaces, NEW j \in Ids, RegCtx(p, j)' # None
        PROVE  /\ RegCtx(p, j)'["policy"] # None => RegCtx(p, j)'["policy"] \in pcf'
               /\ RegCtx(p, j)'["sm"] # None => RegCtx(p, j)'["sm"] \in smf'
    BY <1>3, <1>4, <2>1 DEF RegLive
  <2>2. QED
    BY <2>1 DEF RegLive, RegCtx
<1>9. RegGutis'
  BY DEF RegGutis
<1>10. QED
  BY <1>5, <1>6, <1>7, <1>8, <1>9

\* UE_DIRECTORY, the commands and the counters name what the numbering knows.
RegCmds == [cmd : {"UpdateAmPolicy", "Start"}, i : Ids, no : Nat]
RegBounds == {"reg", "an", "withdraw", "update", "loss"}
RegQueues ==
    /\ directory \in [Supis -> Ids \cup {None}]
    /\ inbox \in [Assocs -> Seq(RegCmds)]
    /\ spent \in [RegBounds -> Nat]

\* The steps of a connection that edit its context.
LEMMA RegEditSteps ==
    ASSUME RegistrationAssumption, RegIInv, NEW i \in Ids,
           \/ \E ok \in BOOLEAN : OnIdentityResponse(i, ok) \/ OnAuthenticationResponse(i, ok)
           \/ Resynchronise(i) \/ DiscardUnprotected(i) \/ OnRegistrationComplete(i)
           \/ OnConfigurationUpdateComplete(i) \/ LoseReply(i)
    PROVE  RegIInv'
<1>0. ues[i] # None => DOMAIN ues[i] = RegFields
  BY DEF RegIInv, RegShape, RegPlaces, RegCtx
<1>1. ASSUME NEW ok \in BOOLEAN, OnIdentityResponse(i, ok) PROVE RegIInv'
  <2>1. ues[i] # None /\ UNCHANGED <<retained, evicted, guti, nextId, pcf, smf>>
    BY <1>1 DEF OnIdentityResponse, Gets, nfVars
  <2>2. CASE UNCHANGED ues
    BY <2>1, <2>2, RegNothing
  <2>3. CASE ues' = [ues EXCEPT ![i] = Challenged([@ EXCEPT !.supi = who[i]])]
    <3>1. PICK x : x = Challenged([ues[i] EXCEPT !.supi = who[i]])
      OBVIOUS
    <3>2. DOMAIN x = RegFields /\ x["tmsi"] = ues[i]["tmsi"] /\ x["policy"] = ues[i]["policy"]
          /\ x["sm"] = ues[i]["sm"]
      BY <1>0, <2>1, <3>1 DEF Challenged, RegFields
    <3>3. QED
      BY <2>1, <2>3, <3>1, <3>2, RegEdits
  <2>4. QED
    BY <1>1, <2>2, <2>3 DEF OnIdentityResponse
<1>2. ASSUME NEW ok \in BOOLEAN, OnAuthenticationResponse(i, ok) PROVE RegIInv'
  <2>1. ues[i] # None /\ UNCHANGED <<retained, evicted, guti, nextId, pcf, smf>>
    BY <1>2 DEF OnAuthenticationResponse, Gets, nfVars
  <2>2. PICK x : /\ ues' = [ues EXCEPT ![i] = x] /\ DOMAIN x = RegFields
                 /\ x["tmsi"] = ues[i]["tmsi"] /\ x["policy"] = ues[i]["policy"]
                 /\ x["sm"] = ues[i]["sm"]
    <3>1. \/ ues' = [ues EXCEPT ![i] =
                 [@ EXCEPT !.auth = None, !.sec = TRUE, !.state = "SecurityMode",
                           !.progress = TRUE, !.retx = Retx("Smc", 0)]]
          \/ ues' = [ues EXCEPT ![i] = [@ EXCEPT !.auth = None, !.retx = None]]
      BY <1>2 DEF OnAuthenticationResponse
    <3>2. QED
      BY <1>0, <2>1, <3>1 DEF RegFields
  <2>3. QED
    BY <2>1, <2>2, RegEdits
<1>3. ASSUME Resynchronise(i) \/ OnRegistrationComplete(i) \/ OnConfigurationUpdateComplete(i)
      PROVE  RegIInv'
  <2>1. ues[i] # None /\ UNCHANGED <<retained, evicted, guti, nextId, pcf, smf>>
    BY <1>3 DEF Resynchronise, OnRegistrationComplete, OnConfigurationUpdateComplete, Gets, nfVars
  <2>2. PICK x : /\ ues' = [ues EXCEPT ![i] = x] /\ DOMAIN x = RegFields
                 /\ x["tmsi"] = ues[i]["tmsi"] /\ x["policy"] = ues[i]["policy"]
                 /\ x["sm"] = ues[i]["sm"]
    <3>1. \/ ues' = [ues EXCEPT ![i] = [@ EXCEPT !.auth = 2, !.resynced = TRUE]]
          \/ ues' = [ues EXCEPT ![i] = [@ EXCEPT !.state = "Registered", !.retx = None]]
          \/ ues' = [ues EXCEPT ![i] = [@ EXCEPT !.cfg = None]]
      BY <1>3 DEF Resynchronise, OnRegistrationComplete, Completed, OnConfigurationUpdateComplete
    <3>2. QED
      BY <1>0, <2>1, <3>1 DEF RegFields
  <2>3. QED
    BY <2>1, <2>2, RegEdits
<1>4. ASSUME DiscardUnprotected(i) \/ LoseReply(i) PROVE RegIInv'
  <2>1. UNCHANGED <<ues, retained, evicted, guti, nextId, pcf, smf>>
    BY <1>4 DEF DiscardUnprotected, LoseReply, amfVars, nfVars
  <2>2. QED
    BY <2>1, RegNothing
<1>5. QED
  BY <1>1, <1>2, <1>3, <1>4

\* The steps of a connection that end it.
LEMMA RegEndSteps ==
    ASSUME RegistrationAssumption, RegIInv, NEW i \in Ids,
           \/ RejectAuthentication(i) \/ AbortAuthentication(i)
           \/ \E pcfUp \in BOOLEAN : RejectRegistration(i, pcfUp)
           \/ OnDeregistrationAccept(i) \/ OnDeregistration(i)
    PROVE  RegIInv'
<1>0. ues[i] # None
  BY DEF RejectAuthentication, AbortAuthentication, RejectRegistration, OnDeregistrationAccept,
         OnDeregistration, Gets
<1>1. pcf \subseteq Nat /\ smf \subseteq Nat /\ i \in Nat
  BY DEF RegIInv, RegShape, Ids
<1>2. CASE RejectAuthentication(i) \/ AbortAuthentication(i)
  <2>1. ues' = Removed(i) /\ UNCHANGED <<retained, evicted, nextId, pcf, smf, guti>>
    BY <1>2 DEF RejectAuthentication, AbortAuthentication, nfVars
  <2>2. QED
    BY <1>0, <1>1, <2>1, RegDrops
<1>3. ASSUME NEW pcfUp \in BOOLEAN, RejectRegistration(i, pcfUp) PROVE RegIInv'
  <2>1. ues' = Removed(i) /\ UNCHANGED <<retained, evicted, nextId, smf, guti>> /\ pcf' \in {pcf, pcf \cup {i}}
    BY <1>3 DEF RejectRegistration
  <2>2. pcf' \in SUBSET Nat /\ pcf \ Owned(ues[i]["policy"]) \subseteq pcf'
    BY <1>1, <2>1
  <2>3. QED
    BY <1>0, <1>1, <2>1, <2>2, RegDrops
<1>4. CASE OnDeregistrationAccept(i)
  <2>1. CASE ues[i].dereg = None
    <3>1. UNCHANGED <<ues, retained, evicted, guti, nextId, pcf, smf>>
      BY <1>4, <2>1 DEF OnDeregistrationAccept
    <3>2. QED
      BY <3>1, RegNothing
  <2>2. CASE ues[i].dereg # None
    <3>1. /\ ues' = Removed(i) /\ UNCHANGED <<retained, evicted, nextId, smf>>
          /\ guti' = GutiPurged(ues[i].supi)
          /\ pcf' = pcf \ Owned(ues[i]["policy"])
      BY <1>4, <2>2 DEF OnDeregistrationAccept
    <3>2. PICK s : s = ues[i].supi
      OBVIOUS
    <3>3. pcf' \in SUBSET Nat /\ guti' \in {guti, GutiPurged(s)}
      BY <1>1, <3>1, <3>2
    <3>4. QED
      BY <1>0, <1>1, <3>1, <3>3, RegDrops
  <2>3. QED
    BY <2>1, <2>2
<1>5. CASE OnDeregistration(i)
  <2>1. /\ ues' = Removed(i) /\ UNCHANGED <<retained, evicted, nextId, guti>>
        /\ pcf' = pcf \ Owned(ues[i]["policy"]) /\ smf' = smf \ Owned(ues[i]["sm"])
    BY <1>5 DEF OnDeregistration
  <2>2. QED
    BY <1>0, <1>1, <2>1, RegDrops
<1>6. QED
  BY <1>2, <1>3, <1>4, <1>5

\* Registration Accept and the first SM context; AN release.
LEMMA RegGainSteps ==
    ASSUME RegistrationAssumption, RegIInv, NEW i \in Ids,
           \/ \E pcfUp \in BOOLEAN : OnSecurityModeComplete(i, pcfUp)
           \/ OnUlNasTransport(i) \/ OnUeContextReleaseRequest(i)
    PROVE  RegIInv'
<1>0. ues[i] # None /\ DOMAIN ues[i] = RegFields
  BY DEF RegIInv, RegShape, RegPlaces, RegCtx, OnSecurityModeComplete, OnUlNasTransport,
         OnUeContextReleaseRequest, Gets
<1>1. pcf \subseteq Nat /\ smf \subseteq Nat /\ i \in Nat /\ DOMAIN guti = Ids
  BY DEF RegIInv, RegShape, Ids
<1>2. ASSUME NEW pcfUp \in BOOLEAN, OnSecurityModeComplete(i, pcfUp) PROVE RegIInv'
  <2>1. /\ pcf' = pcf \cup (IF pcfUp THEN {i} ELSE {})
        /\ ues' = [ues EXCEPT ![i] =
             [ues[i] EXCEPT !.policy = IF pcfUp THEN i ELSE ues[i].policy, !.tmsi = i, !.retx = Retx("Accept", i)]]
        /\ guti' = [GutiPurged(ues[i].supi) EXCEPT ![i] = ues[i].supi]
        /\ UNCHANGED <<retained, evicted, nextId, smf>>
    BY <1>2 DEF OnSecurityModeComplete, Accepted
  <2>a. PICK x : x = [ues[i] EXCEPT !.policy = IF pcfUp THEN i ELSE ues[i].policy, !.tmsi = i,
                                         !.retx = Retx("Accept", i)]
    OBVIOUS
  <2>2. /\ ues' = [ues EXCEPT ![i] = x] /\ DOMAIN x = RegFields
        /\ x["tmsi"] = i /\ x["policy"] = (IF pcfUp THEN i ELSE ues[i]["policy"])
        /\ x["sm"] = ues[i]["sm"]
    BY <1>0, <2>1, <2>a DEF RegFields
  <2>3. RegGutis' /\ DOMAIN guti' = Ids
    BY <2>1, RegRekeys
  <2>4. /\ \A f \in RegRefs : x[f] \in {ues[i][f], i}
        /\ x["policy"] = ues[i]["policy"] \/ x["policy"] \in pcf'
        /\ pcf \subseteq pcf' /\ pcf' \subseteq Nat
    BY <1>1, <2>1, <2>2 DEF RegRefs
  <2>5. QED
    BY <1>0, <1>1, <2>1, <2>2, <2>3, <2>4, RegGains
<1>3. CASE OnUlNasTransport(i)
  <2>1. /\ ues' = [ues EXCEPT ![i].sm = i] /\ smf' = smf \cup {i}
        /\ UNCHANGED <<retained, evicted, nextId, pcf, guti>>
    BY <1>3 DEF OnUlNasTransport
  <2>a. PICK x : x = [ues[i] EXCEPT !.sm = i]
    OBVIOUS
  <2>2. /\ ues' = [ues EXCEPT ![i] = x] /\ DOMAIN x = RegFields
        /\ x["tmsi"] = ues[i]["tmsi"] /\ x["policy"] = ues[i]["policy"] /\ x["sm"] = i
    BY <1>0, <2>1, <2>a DEF RegFields
  <2>3. \A f \in RegRefs : x[f] \in {ues[i][f], i}
    BY <2>2 DEF RegRefs
  <2>4. RegGutis' /\ i \in smf' /\ smf \subseteq smf' /\ smf' \subseteq Nat
    BY <1>1, <2>1 DEF RegIInv, RegGutis
  <2>5. QED
    BY <1>0, <1>1, <2>1, <2>2, <2>3, <2>4, RegGains
<1>4. CASE OnUeContextReleaseRequest(i)
  <2>1. /\ ues' = Removed(i) /\ UNCHANGED <<evicted, guti, nextId, pcf, smf>>
        /\ retained' = IF ues[i]["tmsi"] = None THEN retained
                       ELSE [retained EXCEPT ![ues[i]["tmsi"]] = ues[i]]
    BY <1>4 DEF OnUeContextReleaseRequest, nfVars
  <2>2. CASE ues[i]["tmsi"] = None
    BY <1>0, <1>1, <2>1, <2>2, RegDrops
  <2>3. CASE ues[i]["tmsi"] # None
    <3>1. PICK t \in Ids : t = ues[i]["tmsi"]
      BY <1>0, <2>3 DEF RegIInv, RegShape, RegPlaces, RegCtx, RegRefs
    <3>2. QED
      BY <1>0, <2>1, <2>3, <3>1, RegParks
  <2>4. QED
    BY <2>2, <2>3
<1>5. QED
  BY <1>2, <1>3, <1>4

\* The timers: resend, give up, or nothing to do.
LEMMA RegExpirySteps ==
    ASSUME RegistrationAssumption, RegIInv, NEW i \in Ids, Expiry(i)
    PROVE  RegIInv'
<1>1. pcf \subseteq Nat /\ smf \subseteq Nat /\ (ues[i] # None => DOMAIN ues[i] = RegFields)
  BY DEF RegIInv, RegShape, RegPlaces, RegCtx
<1>2. ues[i] # None /\ UNCHANGED <<retained, evicted, nextId, smf>>
  BY DEF Expiry, OnNasRetxExpiry, OnT3522Expiry, OnT3555Expiry, OnRegistrationGuardExpiry,
         Fires
<1>3. ASSUME ImplicitDeregister(i) PROVE RegIInv'
  <2>1. PICK s : s = ues[i].supi
    OBVIOUS
  <2>2. /\ ues' = Removed(i) /\ guti' \in {guti, GutiPurged(s)}
        /\ pcf' = pcf \ Owned(ues[i]["policy"]) /\ pcf' \in SUBSET Nat
    BY <1>1, <1>3, <2>1 DEF ImplicitDeregister
  <2>3. QED
    BY <1>2, <2>2, RegDrops
<1>4. ASSUME NEW k, StaleExpiry(i, k) PROVE RegIInv'
  BY <1>2, <1>4, RegNothing DEF StaleExpiry
<1>5. ASSUME NEW x, DOMAIN x = RegFields, x["tmsi"] = ues[i]["tmsi"], x["policy"] = ues[i]["policy"],
             x["sm"] = ues[i]["sm"], ues' = [ues EXCEPT ![i] = x], UNCHANGED <<guti, pcf>>
      PROVE  RegIInv'
  BY <1>2, <1>5, RegEdits
<1>6. ASSUME NEW x, DOMAIN x = RegFields, x["tmsi"] = ues[i]["tmsi"], x["policy"] = ues[i]["policy"],
             x["sm"] = ues[i]["sm"], NEW k, NEW n, NEW r, RetransmitOrGiveUp(i, k, n, x, r)
      PROVE  RegIInv'
  BY <1>3, <1>5, <1>6 DEF RetransmitOrGiveUp
<1>7. ASSUME NEW k \in RetxKind, OnNasRetxExpiry(i, k) PROVE RegIInv'
  <2>1. PICK x : x = [ues[i] EXCEPT !.retx.attempts = @ + 1]
    OBVIOUS
  <2>2. DOMAIN x = RegFields /\ x["tmsi"] = ues[i]["tmsi"] /\ x["policy"] = ues[i]["policy"]
        /\ x["sm"] = ues[i]["sm"]
    BY <1>1, <1>2, <2>1 DEF RegFields
  <2>3. \/ RetransmitOrGiveUp(i, k, ues[i].retx.attempts, x, Reply(k, ues[i].retx.c))
        \/ StaleExpiry(i, k)
    BY <1>7, <2>1 DEF OnNasRetxExpiry
  <2>4. QED
    BY <1>4, <1>6, <2>2, <2>3
<1>8. CASE OnT3522Expiry(i)
  <2>1. PICK x : x = [ues[i] EXCEPT !.dereg = @ + 1]
    OBVIOUS
  <2>2. DOMAIN x = RegFields /\ x["tmsi"] = ues[i]["tmsi"] /\ x["policy"] = ues[i]["policy"]
        /\ x["sm"] = ues[i]["sm"]
    BY <1>1, <1>2, <2>1 DEF RegFields
  <2>3. \/ RetransmitOrGiveUp(i, "T3522", ues[i].dereg, x, Reply("Dereg", 0))
        \/ StaleExpiry(i, "T3522")
    BY <1>8, <2>1 DEF OnT3522Expiry
  <2>4. QED
    BY <1>4, <1>6, <2>2, <2>3
<1>9. CASE OnT3555Expiry(i)
  <2>1. PICK x : x = [ues[i] EXCEPT !.cfg.attempts = @ + 1]
    OBVIOUS
  <2>2. DOMAIN x = RegFields /\ x["tmsi"] = ues[i]["tmsi"] /\ x["policy"] = ues[i]["policy"]
        /\ x["sm"] = ues[i]["sm"]
    BY <1>1, <1>2, <2>1 DEF RegFields
  <2>3. \/ RetransmitOrGiveUp(i, "T3555", ues[i].cfg.attempts, x, Reply("Config", ues[i].cfg.no))
        \/ StaleExpiry(i, "T3555")
    BY <1>9, <2>1 DEF OnT3555Expiry
  <2>4. QED
    BY <1>4, <1>6, <2>2, <2>3
<1>10. CASE OnRegistrationGuardExpiry(i)
  <2>0. guti' = guti
    BY <1>10 DEF OnRegistrationGuardExpiry
  <2>1. \/ UNCHANGED <<ues, pcf>>
        \/ ues' = [ues EXCEPT ![i].progress = FALSE] /\ UNCHANGED pcf
        \/ ues' = Removed(i) /\ pcf' = pcf \ Owned(ues[i]["policy"])
    BY <1>10 DEF OnRegistrationGuardExpiry
  <2>2. CASE UNCHANGED <<ues, pcf>>
    BY <1>2, <2>0, <2>2, RegNothing
  <2>3. CASE ues' = [ues EXCEPT ![i].progress = FALSE] /\ UNCHANGED pcf
    <3>1. PICK x : x = [ues[i] EXCEPT !.progress = FALSE]
      OBVIOUS
    <3>2. DOMAIN x = RegFields /\ x["tmsi"] = ues[i]["tmsi"] /\ x["policy"] = ues[i]["policy"]
          /\ x["sm"] = ues[i]["sm"] /\ ues' = [ues EXCEPT ![i] = x]
      BY <1>1, <1>2, <2>3, <3>1 DEF RegFields
    <3>3. QED
      BY <1>5, <2>0, <2>3, <3>2
  <2>4. CASE ues' = Removed(i) /\ pcf' = pcf \ Owned(ues[i]["policy"])
    <3>1. pcf' \in SUBSET Nat
      BY <1>1, <2>4
    <3>2. QED
      BY <1>2, <2>0, <2>4, <3>1, RegDrops
  <2>5. QED
    BY <2>1, <2>2, <2>3, <2>4
<1>11. QED
  BY <1>7, <1>8, <1>9, <1>10 DEF Expiry

\* A UE arrives: a registration, a return, or a rejected return.
LEMMA RegArrivalSteps ==
    ASSUME RegistrationAssumption, RegIInv, NEW s \in Supis, NEW a \in Assocs, Arrival(s, a)
    PROVE  RegIInv'
<1>0. \A t \in Held(s) : t \in Ids
  BY DEF Held
<1>1. ASSUME NEW t, NEW ok, OnInitialUe(s, a, t, ok) PROVE RegIInv'
  <2>1. nextId \in Ids /\ nextId' = nextId + 1 /\ UNCHANGED <<retained, evicted, guti, pcf, smf>>
    BY <1>1 DEF OnInitialUe, nfVars
  <2>2. \A state, u : LET c == NewContext(state, u) IN
          /\ DOMAIN c = RegFields /\ c["tmsi"] = None /\ c["policy"] = None /\ c["sm"] = None
    BY DEF NewContext, RegFields
  <2>3. ASSUME NEW c, DOMAIN c = RegFields, c["tmsi"] = None, c["policy"] = None, c["sm"] = None
        PROVE  /\ \A r : LET d == [c EXCEPT !.retx = r] IN
                    /\ DOMAIN d = RegFields /\ d["tmsi"] = None /\ d["policy"] = None /\ d["sm"] = None
               /\ LET d == Challenged(c) IN
                    /\ DOMAIN d = RegFields /\ d["tmsi"] = None /\ d["policy"] = None /\ d["sm"] = None
    BY <2>3 DEF Challenged, RegFields
  <2>4. PICK x : /\ ues' = [ues EXCEPT ![nextId] = x] /\ DOMAIN x = RegFields
                 /\ x["tmsi"] = None /\ x["policy"] = None /\ x["sm"] = None
    <3>1. PICK state, u : \/ ues' = [ues EXCEPT ![nextId] = NewContext(state, u)]
                          \/ \E r : ues' = [ues EXCEPT ![nextId] = [NewContext(state, u) EXCEPT !.retx = r]]
                          \/ ues' = [ues EXCEPT ![nextId] = Challenged(NewContext(state, u))]
      BY <1>1 DEF OnInitialUe
    <3>2. PICK c : c = NewContext(state, u)
      OBVIOUS
    <3>3. DOMAIN c = RegFields /\ c["tmsi"] = None /\ c["policy"] = None /\ c["sm"] = None
      BY <2>2, <3>2
    <3>4. CASE ues' = [ues EXCEPT ![nextId] = c]
      BY <3>3, <3>4
    <3>5. ASSUME NEW r, ues' = [ues EXCEPT ![nextId] = [c EXCEPT !.retx = r]]
          PROVE  \E x : /\ ues' = [ues EXCEPT ![nextId] = x] /\ DOMAIN x = RegFields
                        /\ x["tmsi"] = None /\ x["policy"] = None /\ x["sm"] = None
      <4> WITNESS [c EXCEPT !.retx = r]
      <4> QED
        BY <2>3, <3>3, <3>5
    <3>6. ASSUME ues' = [ues EXCEPT ![nextId] = Challenged(c)]
          PROVE  \E x : /\ ues' = [ues EXCEPT ![nextId] = x] /\ DOMAIN x = RegFields
                        /\ x["tmsi"] = None /\ x["policy"] = None /\ x["sm"] = None
      <4> WITNESS Challenged(c)
      <4> QED
        BY <2>3, <3>3, <3>6
    <3>7. QED
      BY <3>1, <3>2, <3>4, <3>5, <3>6
  <2>5. QED
    BY <2>1, <2>4, RegOpens
<1>2. ASSUME NEW t \in Held(s), NEW update \in BOOLEAN, OnServiceRequest(s, a, t, update) PROVE RegIInv'
  <2>1. /\ nextId \in Ids /\ nextId' = nextId + 1 /\ t \in Ids /\ retained[t] # None
        /\ retained' = TakenFromRetained(t) /\ UNCHANGED <<evicted, pcf, smf>>
        /\ ues' = [ues EXCEPT ![nextId] = Restored(retained[t], IF update THEN nextId ELSE t)]
        /\ guti' = IF update THEN [GutiPurged(s) EXCEPT ![nextId] = s] ELSE guti
    BY <1>0, <1>2 DEF OnServiceRequest, nfVars
  <2>2. PICK x : x = Restored(retained[t], IF update THEN nextId ELSE t)
    OBVIOUS
  <2>3. DOMAIN retained[t] = RegFields
    BY <2>1 DEF RegIInv, RegShape, RegCtx, RegPlaces
  <2>4. /\ DOMAIN x = RegFields /\ x["tmsi"] \in {t, nextId} /\ x["policy"] = retained[t]["policy"]
        /\ x["sm"] = retained[t]["sm"]
    BY <2>2, <2>3 DEF Restored, Tracked, RegFields
  <2>5. RegGutis' /\ DOMAIN guti' = Ids
    BY <2>1, RegRekeys
  <2>6. QED
    BY <2>1, <2>2, <2>4, <2>5, RegReturns
<1>3. ASSUME NEW t \in Held(s), RejectService(s, a, t) PROVE RegIInv'
  <2>1. /\ t \in Ids /\ nextId' = nextId + 1 /\ retained' = [retained EXCEPT ![t] = None]
        /\ UNCHANGED <<ues, evicted, guti, pcf, smf>>
    BY <1>0, <1>3 DEF RejectService, TakenFromRetained, nfVars
  <2>2. DOMAIN retained = Ids
    BY DEF RegIInv, RegShape
  <2>3. \A p \in RegPlaces, j \in Ids : RegCtx(p, j)' # None => RegCtx(p, j)' = RegCtx(p, j)
    BY <2>1, <2>2 DEF RegCtx
  <2>4. RegStays
    BY <2>3 DEF RegStays, RegIInv, RegShape
  <2>5. RegSizes
    BY <2>1 DEF RegSizes, RegIInv, RegShape
  <2>6. RegLive'
    <3>1. ASSUME NEW p \in RegPlaces, NEW j \in Ids, RegCtx(p, j)' # None
          PROVE  /\ RegCtx(p, j)'["policy"] # None => RegCtx(p, j)'["policy"] \in pcf'
                 /\ RegCtx(p, j)'["sm"] # None => RegCtx(p, j)'["sm"] \in smf'
      BY <2>1, <2>3, <3>1 DEF RegLive, RegIInv
    <3>2. QED
      BY <3>1 DEF RegLive, RegCtx
  <2>7. RegGutis'
    BY <2>1 DEF RegGutis, RegIInv
  <2>8. QED
    BY <2>1, <2>4, <2>5, <2>6, <2>7, RegKeeps
<1>4. QED
  BY <1>1, <1>2, <1>3 DEF Arrival

\* The commands of the SBI side, and the end of an association.
LEMMA RegCommandSteps ==
    ASSUME RegistrationAssumption, RegIInv, RegQueues, NEW a \in Assocs,
           Command(a) \/ OnAssociationLost(a)
    PROVE  RegIInv'
<1>1. pcf \subseteq Nat /\ smf \subseteq Nat /\ DOMAIN ues = Ids /\ DOMAIN retained = Ids
  BY DEF RegIInv, RegShape
<1>2. \A i \in Ids : ues[i] # None => DOMAIN ues[i] = RegFields
  BY DEF RegIInv, RegShape, RegPlaces, RegCtx
<1>3. inbox[a] # <<>> => Head(inbox[a]).i \in Ids
  <2>1. inbox[a] \in Seq(RegCmds)
    BY DEF RegQueues
  <2>2. inbox[a] # <<>> => Head(inbox[a]) \in RegCmds
    BY <2>1
  <2>3. QED
    BY <2>2 DEF RegCmds
<1>4. CASE OnAmPolicyUpdate(a)
  <2>1. inbox[a] # <<>> /\ UNCHANGED <<retained, evicted, guti, nextId, pcf, smf>>
    BY <1>4 DEF OnAmPolicyUpdate, TakesCmd, nfVars
  <2>2. PICK i \in Ids : i = Head(inbox[a]).i
    BY <1>3, <2>1
  <2>3. CASE UNCHANGED ues
    BY <2>1, <2>3, RegNothing
  <2>4. CASE ues[i] # None /\ ues' = [ues EXCEPT ![i] = Tracked(@, Head(inbox[a]).no)]
    <3>1. PICK x : x = Tracked(ues[i], Head(inbox[a]).no)
      OBVIOUS
    <3>2. DOMAIN x = RegFields /\ x["tmsi"] = ues[i]["tmsi"] /\ x["policy"] = ues[i]["policy"]
          /\ x["sm"] = ues[i]["sm"]
      BY <1>2, <2>4, <3>1 DEF RegFields, Tracked
    <3>3. QED
      BY <2>1, <2>4, <3>1, <3>2, RegEdits
  <2>5. QED
    BY <1>4, <2>2, <2>3, <2>4 DEF OnAmPolicyUpdate
<1>5. CASE OnNetworkDeregistration(a)
  <2>1. inbox[a] # <<>> /\ UNCHANGED <<retained, evicted, guti, nextId, pcf>>
    BY <1>5 DEF OnNetworkDeregistration, TakesCmd
  <2>2. PICK i \in Ids : i = Head(inbox[a]).i
    BY <1>3, <2>1
  <2>3. CASE ues[i] = None \/ ues[i].dereg # None
    <3>1. UNCHANGED <<ues, smf>>
      BY <1>5, <2>2, <2>3 DEF OnNetworkDeregistration
    <3>2. QED
      BY <2>1, <3>1, RegNothing
  <2>4. CASE ues[i] # None /\ ues[i].dereg = None
    <3>1. /\ smf' = smf \ Owned(ues[i]["sm"])
          /\ \/ ues' = [ues EXCEPT ![i] = [SmRefsTaken(@) EXCEPT !.dereg = 1]]
             \/ ues' = Removed(i)
      BY <1>5, <2>2, <2>4 DEF OnNetworkDeregistration
    <3>2. CASE ues' = [ues EXCEPT ![i] = [SmRefsTaken(@) EXCEPT !.dereg = 1]]
      <4>1. PICK x : x = [SmRefsTaken(ues[i]) EXCEPT !.dereg = 1]
        OBVIOUS
      <4>2. DOMAIN x = RegFields /\ x["tmsi"] = ues[i]["tmsi"] /\ x["policy"] = ues[i]["policy"]
            /\ x["sm"] = None
        BY <1>2, <2>4, <4>1 DEF RegFields, SmRefsTaken
      <4>3. QED
        BY <2>1, <2>4, <3>1, <3>2, <4>1, <4>2, RegEdits
    <3>3. CASE ues' = Removed(i)
      BY <1>1, <2>1, <2>4, <3>1, <3>3, RegDrops
    <3>4. QED
      BY <3>1, <3>2, <3>3
  <2>5. QED
    BY <2>3, <2>4
<1>6. CASE OnAssociationLost(a)
  <2>1. UNCHANGED <<retained, evicted, guti, nextId, pcf, smf>>
    BY <1>6 DEF OnAssociationLost, nfVars
  <2>2. /\ DOMAIN ues' = Ids
        /\ \A j \in Ids : ues'[j] = None \/ ues'[j] = ues[j]
    BY <1>6 DEF OnAssociationLost
  <2>3. \A p \in RegPlaces, j \in Ids : RegCtx(p, j)' # None => RegCtx(p, j)' = RegCtx(p, j)
    BY <2>1, <2>2 DEF RegCtx
  <2>4. RegStays
    BY <2>3 DEF RegStays, RegIInv, RegShape
  <2>5. RegSizes
    BY <2>1, <2>2 DEF RegSizes, RegIInv, RegShape
  <2>6. RegLive'
    <3>1. ASSUME NEW p \in RegPlaces, NEW j \in Ids, RegCtx(p, j)' # None
          PROVE  /\ RegCtx(p, j)'["policy"] # None => RegCtx(p, j)'["policy"] \in pcf'
                 /\ RegCtx(p, j)'["sm"] # None => RegCtx(p, j)'["sm"] \in smf'
      BY <2>1, <2>3, <3>1 DEF RegLive, RegIInv
    <3>2. QED
      BY <3>1 DEF RegLive, RegCtx
  <2>7. RegGutis'
    BY <2>1 DEF RegGutis, RegIInv
  <2>8. QED
    BY <2>1, <2>4, <2>5, <2>6, <2>7, RegKeeps
<1>7. QED
  BY <1>4, <1>5, <1>6 DEF Command

\* What reaches RETAINED and the other functions directly.
LEMMA RegOutsideSteps ==
    ASSUME RegistrationAssumption, RegIInv,
           \/ \E t \in Ids : Sweep(t)
           \/ \E s \in Supis : AmPolicyNotify(s) \/ DeregNotify(s)
           \/ \E s \in Supis, op \in {"register", "purge"} : UecmCall(s, op)
    PROVE  RegIInv'
<1>1. /\ pcf \subseteq Nat /\ smf \subseteq Nat /\ DOMAIN ues = Ids /\ DOMAIN retained = Ids
      /\ DOMAIN evicted = Ids /\ DOMAIN guti = Ids
      /\ \A t \in Ids : retained[t] # None => DOMAIN retained[t] = RegFields
      /\ \A t \in Ids : evicted[t] # None => DOMAIN evicted[t] = RegFields
  BY DEF RegIInv, RegShape, RegPlaces, RegCtx
<1>2. ASSUME NEW t \in Ids, EvictStaleRetained(t) PROVE RegIInv'
  BY <1>2, RegLeaves DEF EvictStaleRetained, nfVars
<1>a. ASSUME NEW t \in Ids, EvictedIsReleased(t) PROVE RegIInv'
  <2>1. PICK x : x = SmRefsTaken(evicted[t])
    OBVIOUS
  <2>2. /\ evicted[t] # None /\ evicted' = [evicted EXCEPT ![t] = x]
        /\ smf' = smf \ Owned(evicted[t]["sm"]) /\ UNCHANGED <<ues, retained, guti, nextId, pcf>>
    BY <1>a, <2>1 DEF EvictedIsReleased
  <2>3. /\ DOMAIN x = RegFields /\ x["tmsi"] = evicted[t]["tmsi"] /\ x["policy"] = evicted[t]["policy"]
        /\ x["sm"] = None
    BY <1>1, <2>1, <2>2 DEF SmRefsTaken, RegFields
  <2>4. /\ RegCtx("leaving", t) = evicted[t] /\ "leaving" \in RegPlaces /\ evicted'[t] = x
        /\ DOMAIN evicted' = Ids /\ \A j \in Ids \ {t} : evicted'[j] = evicted[j]
    BY <1>1, <2>2 DEF RegCtx, RegPlaces
  <2>5. ASSUME NEW p \in RegPlaces, NEW j \in Ids, RegCtx(p, j)' # None
        PROVE  /\ RegCtx(p, j) # None /\ DOMAIN (RegCtx(p, j)') = RegFields
               /\ RegCtx(p, j)'["tmsi"] = RegCtx(p, j)["tmsi"]
               /\ RegCtx(p, j)'["policy"] = RegCtx(p, j)["policy"]
               /\ RegCtx(p, j)'["sm"] \in {RegCtx(p, j)["sm"], None}
    <3>1. CASE p = "leaving" /\ j = t
      BY <2>2, <2>3, <2>4, <3>1 DEF RegCtx
    <3>2. CASE ~(p = "leaving" /\ j = t)
      <4>1. RegCtx(p, j)' = RegCtx(p, j)
        BY <2>2, <2>4, <3>2 DEF RegCtx, RegPlaces
      <4>2. QED
        BY <2>5, <4>1 DEF RegIInv, RegShape
    <3>3. QED
      BY <3>1, <3>2
  <2>6. RegStays
    BY <2>5 DEF RegStays
  <2>7. RegSizes
    BY <1>1, <2>2, <2>4 DEF RegSizes
  <2>8. RegLive'
    <3>1. \A n \in smf \ smf' : n = evicted[t]["sm"] /\ n # None
      BY <2>2 DEF Owned
    <3>2. RegCtx("leaving", t)' = x /\ pcf \ pcf' = {}
      BY <2>2, <2>4 DEF RegCtx
    <3>3. QED
      BY <2>2, <2>3, <2>4, <2>6, <3>1, <3>2, RegLivesOn
  <2>9. RegGutis'
    BY <2>2 DEF RegGutis, RegIInv
  <2>10. QED
    BY <2>2, <2>6, <2>7, <2>8, <2>9, RegKeeps
<1>b. ASSUME NEW t \in Ids, EvictedIsPurged(t) PROVE RegIInv'
  <2>1. PICK s : s = evicted[t].supi
    OBVIOUS
  <2>2. /\ evicted[t] # None /\ evicted' = [evicted EXCEPT ![t] = None]
        /\ pcf' = pcf \ Owned(evicted[t]["policy"])
        /\ guti' = GutiPurged(s) /\ UNCHANGED <<ues, retained, nextId, smf>>
    BY <1>b, <2>1 DEF EvictedIsPurged
  <2>3. \A p \in RegPlaces, j \in Ids : RegCtx(p, j)' # None => RegCtx(p, j)' = RegCtx(p, j)
    BY <1>1, <2>2 DEF RegCtx
  <2>4. RegStays
    BY <2>3 DEF RegStays, RegIInv, RegShape
  <2>5. RegGutis' /\ DOMAIN guti' = Ids
    BY <2>2, RegRekeys
  <2>6. RegSizes
    BY <1>1, <2>2, <2>5 DEF RegSizes
  <2>7. RegLive'
    <3>1. smf \ smf' = {} /\ \A n \in pcf \ pcf' : n = evicted[t]["policy"] /\ n # None
      BY <2>2 DEF Owned
    <3>2. RegCtx("leaving", t) = evicted[t] /\ RegCtx("leaving", t)' = None /\ "leaving" \in RegPlaces
      BY <1>1, <2>2 DEF RegCtx, RegPlaces
    <3>3. QED
      BY <2>2, <2>4, <3>1, <3>2, RegLivesOn
  <2>8. QED
    BY <2>2, <2>4, <2>5, <2>6, <2>7, RegKeeps
<1>3. ASSUME NEW s \in Supis, AmPolicyNotify(s) PROVE RegIInv'
  <2>1. UNCHANGED <<ues, evicted, guti, nextId, pcf, smf>>
    BY <1>3 DEF AmPolicyNotify, nfVars
  <2>2. \/ UNCHANGED retained
        \/ \E t \in Ids : retained[t] # None /\ retained' = [retained EXCEPT ![t].held = TRUE]
    BY <1>3 DEF AmPolicyNotify
  <2>3. CASE UNCHANGED retained
    BY <2>1, <2>3, RegNothing
  <2>4. ASSUME NEW t \in Ids, retained[t] # None, retained' = [retained EXCEPT ![t].held = TRUE]
        PROVE  RegIInv'
    <3>1. /\ DOMAIN retained' = Ids /\ DOMAIN retained'[t] = RegFields
          /\ retained'[t]["tmsi"] = retained[t]["tmsi"] /\ retained'[t]["policy"] = retained[t]["policy"]
          /\ retained'[t]["sm"] = retained[t]["sm"] /\ \A j \in Ids \ {t} : retained'[j] = retained[j]
      BY <1>1, <2>4 DEF RegFields
    <3>2. ASSUME NEW p \in RegPlaces, NEW j \in Ids, RegCtx(p, j)' # None
          PROVE  /\ RegCtx(p, j) # None /\ DOMAIN (RegCtx(p, j)') = RegFields
                 /\ RegCtx(p, j)'["tmsi"] = RegCtx(p, j)["tmsi"]
                 /\ RegCtx(p, j)'["policy"] = RegCtx(p, j)["policy"]
                 /\ RegCtx(p, j)'["sm"] = RegCtx(p, j)["sm"]
      <4>1. CASE p = "idle" /\ j = t
        BY <2>4, <3>1, <4>1 DEF RegCtx
      <4>2. CASE ~(p = "idle" /\ j = t)
        <5>1. RegCtx(p, j)' = RegCtx(p, j)
          BY <2>1, <3>1, <4>2 DEF RegCtx, RegPlaces
        <5>2. QED
          BY <3>2, <5>1 DEF RegIInv, RegShape
      <4>3. QED
        BY <4>1, <4>2
    <3>3. RegStays
      BY <3>2 DEF RegStays
    <3>4. RegSizes
      BY <1>1, <2>1, <3>1 DEF RegSizes
    <3>5. RegLive'
      <4>1. ASSUME NEW p \in RegPlaces, NEW j \in Ids, RegCtx(p, j)' # None
            PROVE  /\ RegCtx(p, j)'["policy"] # None => RegCtx(p, j)'["policy"] \in pcf'
                   /\ RegCtx(p, j)'["sm"] # None => RegCtx(p, j)'["sm"] \in smf'
        BY <2>1, <3>2, <4>1 DEF RegLive, RegIInv
      <4>2. QED
        BY <4>1 DEF RegLive, RegCtx
    <3>6. RegGutis'
      BY <2>1 DEF RegGutis, RegIInv
    <3>7. QED
      BY <2>1, <3>3, <3>4, <3>5, <3>6, RegKeeps
  <2>5. QED
    BY <2>2, <2>3, <2>4
<1>4. ASSUME NEW s, NEW op, DeregNotify(s) \/ UecmCall(s, op) PROVE RegIInv'
  <2>1. UNCHANGED <<ues, retained, evicted, guti, nextId, pcf, smf>>
    BY <1>4 DEF DeregNotify, UecmCall, nfVars
  <2>2. QED
    BY <2>1, RegNothing
<1>5. QED
  BY <1>2, <1>a, <1>b, <1>3, <1>4 DEF Sweep

\* A counter of a bound moves by one.
LEMMA RegSpends ==
    ASSUME RegQueues, NEW b \in RegBounds, NEW m, Spend(b, m)
    PROVE  spent' \in [RegBounds -> Nat] /\ spent'[b] \in Nat
BY DEF RegQueues, Spend

\* UE_DIRECTORY loses the entry of a SUPI.
LEMMA RegUnlists == ASSUME RegQueues, NEW s PROVE Unlisted(s) \in [Supis -> Ids \cup {None}]
BY DEF RegQueues, Unlisted

\* UE_DIRECTORY and the commands only ever name numbers that were handed out.
LEMMA RegQueueSteps ==
    ASSUME RegistrationAssumption, RegQueues, [Next]_vars
    PROVE  RegQueues'
<1> USE DEF nfVars, envVars, amfVars
<1>0. "reg" \in RegBounds /\ "an" \in RegBounds /\ "withdraw" \in RegBounds /\ "update" \in RegBounds
      /\ "loss" \in RegBounds
  BY DEF RegBounds
<1>1. ASSUME UNCHANGED <<inbox, spent>>, NEW s, directory' = directory \/ directory' = Unlisted(s)
      PROVE  RegQueues'
  BY <1>1, RegUnlists DEF RegQueues
<1>2. ASSUME UNCHANGED <<inbox, spent>>, NEW s, NEW i \in Ids, directory' = [directory EXCEPT ![s] = i]
      PROVE  RegQueues'
  BY <1>2 DEF RegQueues
<1>3. ASSUME NEW i \in Ids, Uplink(i) PROVE RegQueues'
  <2>1. CASE \E ok \in BOOLEAN : OnIdentityResponse(i, ok)
    BY <1>1, <1>2, <2>1 DEF OnIdentityResponse
  <2>2. CASE \E ok \in BOOLEAN : OnAuthenticationResponse(i, ok)
    BY <1>1, <2>2 DEF OnAuthenticationResponse
  <2>3. CASE RejectAuthentication(i) \/ Resynchronise(i) \/ AbortAuthentication(i) \/ DiscardUnprotected(i)
    BY <1>1, <2>3 DEF RejectAuthentication, Resynchronise, AbortAuthentication, DiscardUnprotected
  <2>4. CASE \E pcfUp \in BOOLEAN : OnSecurityModeComplete(i, pcfUp) \/ RejectRegistration(i, pcfUp)
    BY <1>1, <2>4 DEF OnSecurityModeComplete, RejectRegistration
  <2>5. CASE OnRegistrationComplete(i) \/ OnConfigurationUpdateComplete(i) \/ OnUlNasTransport(i)
             \/ LoseReply(i)
    BY <1>1, <2>5 DEF OnRegistrationComplete, OnConfigurationUpdateComplete, OnUlNasTransport, LoseReply
  <2>6. CASE OnDeregistrationAccept(i) \/ OnDeregistration(i)
    BY <1>1, <2>6 DEF OnDeregistrationAccept, OnDeregistration
  <2>7. CASE OnUeContextReleaseRequest(i)
    <3>1. inbox' = inbox /\ Spend("an", MaxAnReleases) /\ directory' = Unlisted(ues[i].supi)
      BY <2>7 DEF OnUeContextReleaseRequest
    <3>2. QED
      BY <1>0, <3>1, RegSpends, RegUnlists DEF RegQueues
  <2>8. QED
    BY <1>3, <2>1, <2>2, <2>3, <2>4, <2>5, <2>6, <2>7 DEF Uplink
<1>4. ASSUME NEW i \in Ids, Expiry(i) PROVE RegQueues'
  <2>1. UNCHANGED <<inbox, spent>>
    BY <1>4 DEF Expiry, OnNasRetxExpiry, OnT3522Expiry, OnT3555Expiry, OnRegistrationGuardExpiry
  <2>2. directory' = directory \/ directory' = Unlisted(ues[i].supi)
    BY <1>4 DEF Expiry, OnNasRetxExpiry, OnT3522Expiry, OnT3555Expiry, OnRegistrationGuardExpiry
  <2>3. QED
    BY <1>1, <2>1, <2>2
<1>5. ASSUME NEW i \in Ids, Sweep(i) PROVE RegQueues'
  BY <1>1, <1>5 DEF Sweep, EvictStaleRetained, EvictedIsReleased, EvictedIsPurged
<1>6. ASSUME NEW s \in Supis, NEW a \in Assocs, Arrival(s, a) PROVE RegQueues'
  <2>1. ASSUME NEW t, NEW ok, OnInitialUe(s, a, t, ok) PROVE RegQueues'
    <3>1. /\ inbox' = inbox /\ Spend("reg", MaxRegistrations) /\ nextId \in Ids
          /\ directory' = directory \/ \E x : directory' = [directory EXCEPT ![x] = nextId]
      BY <2>1 DEF OnInitialUe
    <3>2. QED
      BY <1>0, <3>1, RegSpends DEF RegQueues
  <2>2. ASSUME NEW t, NEW update, OnServiceRequest(s, a, t, update) PROVE RegQueues'
    <3>1. nextId \in Ids /\ UNCHANGED <<inbox, spent>> /\ directory' = [directory EXCEPT ![s] = nextId]
      BY <2>2 DEF OnServiceRequest
    <3>2. QED
      BY <1>2, <3>1
  <2>3. ASSUME NEW t, RejectService(s, a, t) PROVE RegQueues'
    BY <1>1, <2>3 DEF RejectService
  <2>4. QED
    BY <1>6, <2>1, <2>2, <2>3 DEF Arrival
<1>7. ASSUME NEW b, NEW c \in RegCmds, directory' = directory, spent' \in [RegBounds -> Nat],
             inbox' = [inbox EXCEPT ![b] = Append(@, c)]
      PROVE  RegQueues'
  <2>1. inbox \in [Assocs -> Seq(RegCmds)]
    BY DEF RegQueues
  <2>2. inbox' = [a \in Assocs |-> IF a = b THEN Append(inbox[a], c) ELSE inbox[a]]
    BY <1>7, <2>1
  <2>3. \A a \in Assocs : (IF a = b THEN Append(inbox[a], c) ELSE inbox[a]) \in Seq(RegCmds)
    BY <2>1
  <2>4. inbox' \in [Assocs -> Seq(RegCmds)]
    BY <2>2, <2>3
  <2>5. QED
    BY <1>7, <2>4 DEF RegQueues
<1>8. ASSUME NEW s \in Supis, AmPolicyNotify(s) PROVE RegQueues'
  <2>1. Spend("update", MaxUpdates) /\ directory' = directory
    BY <1>8 DEF AmPolicyNotify
  <2>2. PICK n \in Nat : n = spent'["update"]
    BY <1>0, <2>1, RegSpends
  <2>3. directory[s] # None => directory[s] \in Ids
    BY DEF RegQueues
  <2>4. \/ inbox' = inbox
        \/ /\ directory[s] # None
           /\ inbox' = [inbox EXCEPT ![at[directory[s]]] =
                Append(@, [cmd |-> "UpdateAmPolicy", i |-> directory[s], no |-> n])]
    BY <1>8, <2>2 DEF AmPolicyNotify
  <2>5. directory[s] # None => [cmd |-> "UpdateAmPolicy", i |-> directory[s], no |-> n] \in RegCmds
    BY <2>3 DEF RegCmds
  <2>6. spent' \in [RegBounds -> Nat]
    BY <1>0, <2>1, RegSpends
  <2>7. CASE inbox' = inbox
    BY <2>1, <2>6, <2>7 DEF RegQueues
  <2>8. QED
    BY <1>7, <2>1, <2>4, <2>5, <2>6, <2>7
<1>9. ASSUME NEW s \in Supis, DeregNotify(s) PROVE RegQueues'
  <2>1. /\ Spend("withdraw", MaxWithdrawals) /\ directory' = directory /\ directory[s] # None
        /\ inbox' = [inbox EXCEPT ![at[directory[s]]] = Append(@, [cmd |-> "Start", i |-> directory[s], no |-> 0])]
    BY <1>9 DEF DeregNotify
  <2>2. [cmd |-> "Start", i |-> directory[s], no |-> 0] \in RegCmds
    BY <2>1 DEF RegCmds, RegQueues
  <2>3. spent' \in [RegBounds -> Nat]
    BY <1>0, <2>1, RegSpends
  <2>4. QED
    BY <1>7, <2>1, <2>2, <2>3
<1>10. ASSUME NEW s \in Supis, NEW op, UecmCall(s, op) PROVE RegQueues'
  BY <1>1, <1>10 DEF UecmCall
<1>11. ASSUME NEW a \in Assocs, NEW c, TakesCmd(a, c), spent' = spent, directory' \in [Supis -> Ids \cup {None}]
       PROVE  RegQueues'
  <2>1. inbox \in [Assocs -> Seq(RegCmds)] /\ inbox[a] # <<>>
    BY <1>11 DEF RegQueues, TakesCmd
  <2>2. inbox' = [inbox EXCEPT ![a] = Tail(@)]
    BY <1>11 DEF TakesCmd
  <2>3. Tail(inbox[a]) \in Seq(RegCmds)
    BY <2>1
  <2>4. inbox' \in [Assocs -> Seq(RegCmds)]
    BY <2>1, <2>2, <2>3
  <2>5. QED
    BY <1>11, <2>4 DEF RegQueues
<1>12. ASSUME NEW a \in Assocs, Command(a) PROVE RegQueues'
  <2>1. CASE OnAmPolicyUpdate(a)
    <3>1. TakesCmd(a, "UpdateAmPolicy") /\ spent' = spent /\ directory' = directory
      BY <2>1 DEF OnAmPolicyUpdate
    <3>2. QED
      BY <1>11, <3>1 DEF RegQueues
  <2>2. CASE OnNetworkDeregistration(a)
    <3>1. TakesCmd(a, "Start") /\ spent' = spent
      BY <2>2 DEF OnNetworkDeregistration
    <3>2. directory' = directory \/ \E s : directory' = Unlisted(s)
      BY <2>2 DEF OnNetworkDeregistration
    <3>3. directory' \in [Supis -> Ids \cup {None}]
      BY <3>2, RegUnlists DEF RegQueues
    <3>4. QED
      BY <1>11, <3>1, <3>3
  <2>3. QED
    BY <1>12, <2>1, <2>2 DEF Command
<1>13. ASSUME NEW a \in Assocs, OnAssociationLost(a) PROVE RegQueues'
  <2>1. spent' \in [RegBounds -> Nat]
    BY <1>0, <1>13, RegSpends DEF OnAssociationLost
  <2>2. directory' \in [Supis -> Ids \cup {None}]
    BY <1>13 DEF OnAssociationLost, RegQueues
  <2>3. inbox' \in [Assocs -> Seq(RegCmds)]
    BY <1>13 DEF OnAssociationLost, RegQueues
  <2>4. QED
    BY <2>1, <2>2, <2>3 DEF RegQueues
<1>14. CASE UNCHANGED vars
  BY <1>1, <1>14 DEF vars
<1>15. QED
  BY <1>3, <1>4, <1>5, <1>6, <1>8, <1>9, <1>10, <1>12, <1>13, <1>14 DEF Next

\* The inductive invariant survives every step of the AMF, the SBI side, the UEs and gNBs.
LEMMA RegNextIInv ==
    ASSUME RegistrationAssumption, RegIInv, RegQueues, [Next]_vars
    PROVE  RegIInv'
<1>1. CASE UNCHANGED vars
  <2>1. UNCHANGED <<ues, retained, evicted, guti, nextId, pcf, smf>>
    BY <1>1 DEF vars, amfVars, nfVars
  <2>2. QED
    BY <2>1, RegNothing
<1>2. ASSUME NEW i \in Ids, Uplink(i) PROVE RegIInv'
  BY <1>2, RegEditSteps, RegEndSteps, RegGainSteps DEF Uplink
<1>3. ASSUME NEW i \in Ids, Expiry(i) PROVE RegIInv'
  BY <1>3, RegExpirySteps
<1>4. ASSUME NEW s \in Supis, NEW a \in Assocs, Arrival(s, a) PROVE RegIInv'
  BY <1>4, RegArrivalSteps
<1>5. ASSUME NEW a \in Assocs, Command(a) \/ OnAssociationLost(a) PROVE RegIInv'
  BY <1>5, RegCommandSteps
<1>6. QED
  BY <1>1, <1>2, <1>3, <1>4, <1>5, RegOutsideSteps DEF Next

\* The invariant implies both properties.
LEMMA RegSafe ==
    ASSUME RegistrationAssumption, RegIInv
    PROVE  TmsisUnambiguous /\ RefsAreLive
<1> USE DEF RegIInv
<1>0. /\ "tmsi" \in RegRefs /\ "policy" \in RegRefs /\ "sm" \in RegRefs
      /\ "cm" \in RegPlaces /\ "idle" \in RegPlaces /\ "leaving" \in RegPlaces
      /\ \A i \in Ids : /\ RegCtx("cm", i) = ues[i] /\ RegCtx("idle", i) = retained[i]
                        /\ RegCtx("leaving", i) = evicted[i] /\ i # None
  BY RegIdNotNone DEF RegRefs, RegPlaces, RegCtx, Ids
<1>1. TmsisUnambiguous
  <2>1. ASSUME NEW t \in Ids, retained[t] # None
        PROVE  /\ retained[t].tmsi = t
               /\ \A i \in Ids : ues[i] # None => ues[i].tmsi # t
    <3>1. retained[t]["tmsi"] = t
      BY <2>1 DEF RegShape
    <3>2. ASSUME NEW i \in Ids, ues[i] # None, ues[i]["tmsi"] = t PROVE FALSE
      BY <1>0, <2>1, <3>1, <3>2 DEF RegUnique
    <3>3. QED
      BY <3>1, <3>2
  <2>2. ASSUME NEW i \in Ids, NEW j \in Ids, i # j, ues[i] # None, ues[j] # None
        PROVE  ues[i].tmsi = None \/ ues[i].tmsi # ues[j].tmsi
    BY <1>0, <2>2 DEF RegUnique
  <2>3. QED
    BY <2>1, <2>2 DEF TmsisUnambiguous, RegGutis
<1>2. RefsAreLive
  <2>1. ASSUME NEW x \in Contexts
        PROVE  Owned(x.policy) \subseteq pcf /\ Owned(x.sm) \subseteq smf
    <3>a. x # None /\ \E i \in Ids : x \in {ues[i], retained[i], evicted[i]}
      BY DEF Contexts
    <3>1. PICK p \in RegPlaces, i \in Ids : x = RegCtx(p, i) /\ x # None
      BY <1>0, <3>a
    <3>2. /\ x["policy"] # None => x["policy"] \in pcf
          /\ x["sm"] # None => x["sm"] \in smf
      BY <3>1 DEF RegLive
    <3>3. QED
      BY <3>2 DEF Owned
  <2>2. ASSUME NEW p \in RegPlaces, NEW q \in RegPlaces, NEW i \in Ids, NEW j \in Ids, ~(p = q /\ i = j),
               RegCtx(p, i) # None, RegCtx(q, j) # None
        PROVE  Apart(RegCtx(p, i), RegCtx(q, j))
    <3>1. ASSUME NEW f \in RegRefs
          PROVE  RegCtx(p, i)[f] = None \/ RegCtx(p, i)[f] # RegCtx(q, j)[f]
      BY <2>2 DEF RegUnique
    <3>2. QED
      BY <1>0, <3>1 DEF Owned, Apart
  <2>3. ASSUME NEW i \in Ids, NEW j \in Ids, ues[i] # None, ues[j] # None, i # j PROVE Apart(ues[i], ues[j])
    BY <1>0, <2>2, <2>3
  <2>4. /\ ~("cm" = "idle") /\ ~("cm" = "leaving") /\ ~("idle" = "leaving")
    OBVIOUS
  <2>5. ASSUME NEW i \in Ids, NEW j \in Ids, ues[i] # None, retained[j] # None PROVE Apart(ues[i], retained[j])
    BY <1>0, <2>2, <2>4, <2>5
  <2>6. ASSUME NEW i \in Ids, NEW j \in Ids, ues[i] # None, evicted[j] # None PROVE Apart(ues[i], evicted[j])
    BY <1>0, <2>2, <2>4, <2>6
  <2>7. ASSUME NEW i \in Ids, NEW j \in Ids, retained[i] # None, evicted[j] # None
        PROVE  Apart(retained[i], evicted[j])
    BY <1>0, <2>2, <2>4, <2>7
  <2>8. QED
    BY <2>1, <2>3, <2>5, <2>6, <2>7 DEF RefsAreLive
<1>3. QED
  BY <1>1, <1>2

\* Hence the invariant holds always.
LEMMA RegInvariance ==
    ASSUME RegistrationAssumption PROVE Init /\ [][Next]_vars => [](RegIInv /\ RegQueues)
<1>1. Init => RegIInv /\ RegQueues
  <2>1. Init => RegQueues
    BY DEF Init, RegQueues, RegBounds
  <2>2. QED
    BY <2>1, RegInitIInv
<1>2. RegIInv /\ RegQueues /\ [Next]_vars => (RegIInv /\ RegQueues)'
  BY RegNextIInv, RegQueueSteps
<1>3. QED
  BY <1>1, <1>2, PTL

\* For any subscribers, associations and bounds: through registration, refusal, AN release, return,
\* eviction, deregistration and the loss of an association, a 5G-TMSI names one context and a SUPI
\* one 5G-GUTI (on_security_mode_complete, release_ue_context, on_service_request).
THEOREM NamesAreUnambiguous ==
    ASSUME RegistrationAssumption
    PROVE  Init /\ [][Next]_vars => []TmsisUnambiguous
<1>1. RegIInv => TmsisUnambiguous
  BY RegSafe
<1>2. QED
  BY RegInvariance, <1>1, PTL

\* What a context refers to at the PCF and the SMF exists and is its own, through the same
\* procedures of a registration: the AMF keeps no reference to what it has released there
\* (on_network_deregistration, release_ue_context, evict_stale_retained). Releases on the
\* path of a PDU session, by the AMF or the SMF itself, are not part of AmfRegistration.
THEOREM ReferencesAreLive ==
    ASSUME RegistrationAssumption
    PROVE  Init /\ [][Next]_vars => []RefsAreLive
<1>1. RegIInv => RefsAreLive
  BY RegSafe
<1>2. QED
  BY RegInvariance, <1>1, PTL

-----------------------------------------------------------------------------
(* The one pending_retx slot of a registration, while no AN release takes a UE *)
(* away from the timers that guard it (MaxAnReleases = 0).                     *)

\* What the context x of connection i and its timers t say of each other: an answered
\* challenge is forgotten before NAS security is set up, the slot has the message of the
\* state, with one timer running for it, and a timer not armed yet is not running.
SlotContext(i, x, t) ==
    /\ t \in [TimerKind -> Nat]
    /\ x["auth"] # None => x["state"] = "Authenticating" /\ x["sec"] = FALSE
    /\ x["sec"] = TRUE => x["state"] \in {"SecurityMode", "Registered"}
    /\ x["state"] = "SecurityMode" => x["sec"] = TRUE
    /\ x["retx"] # None =>
         /\ DOMAIN x["retx"] = {"kind", "attempts", "c"} /\ t[x["retx"]["kind"]] = 1
         /\ \/ x["retx"]["kind"] = "Identity" /\ x["state"] = "IdentityRequested" /\ x["supi"] = None
            \/ x["retx"]["kind"] = "Auth" /\ x["state"] = "Authenticating" /\ x["auth"] # None
            \/ x["retx"]["kind"] = "Smc" /\ x["state"] = "SecurityMode" /\ x["tmsi"] = None /\ x["retx"]["c"] = 0
            \/ x["retx"]["kind"] = "Accept" /\ x["state"] = "SecurityMode" /\ x["tmsi"] = i
    /\ x["state"] # "Registered" => t["Guard"] = 1
    /\ x["state"] \in {"IdentityRequested", "Identified"} => t["Auth"] = 0
    /\ x["sec"] \in BOOLEAN /\ (x["sec"] = FALSE => t["Smc"] = 0 /\ x["tmsi"] = None)
    /\ x["tmsi"] = None => t["Accept"] = 0

\* A Security Mode Complete on its way is the only one, and the slot waits for it; a
\* Registration Complete answers an accept that was sent.
SlotReplies(i, x, r) ==
    /\ r \in Seq({r[n] : n \in DOMAIN r})
    /\ \A n \in DOMAIN r : r[n].kind = "Smc" =>
         /\ x["state"] = "SecurityMode" /\ x["tmsi"] = None /\ r[n] = Reply("Smc", 0)
         /\ \A m \in DOMAIN r : r[m].kind = "Smc" => m = n
    /\ \A n \in DOMAIN r : r[n].kind = "Accept" => x["sec"] = TRUE /\ x["tmsi"] = i

SlotIInv ==
    /\ DOMAIN timers = Ids /\ DOMAIN replies = Ids /\ spent["an"] = 0
    /\ \A i \in Ids :
         /\ retained[i] = None
         /\ ues[i] # None => SlotContext(i, ues[i], timers[i]) /\ SlotReplies(i, ues[i], replies[i])
         /\ i >= nextId => timers[i] = Idle /\ replies[i] = <<>>

\* A sequence is one of its own elements.
LEMMA SlotSeq == ASSUME NEW S, NEW r \in Seq(S) PROVE r \in Seq({r[n] : n \in DOMAIN r})
<1> DEFINE R == {r[n] : n \in DOMAIN r}
<1>1. Len(r) \in Nat /\ DOMAIN r = 1 .. Len(r) /\ r = [n \in 1 .. Len(r) |-> r[n]]
  OBVIOUS
<1>2. \A n \in 1 .. Len(r) : r[n] \in R
  BY <1>1
<1> HIDE DEF R
<1>3. [n \in 1 .. Len(r) |-> r[n]] \in Seq(R)
  BY <1>1, <1>2
<1>q. QED
  BY <1>1, <1>3 DEF R

\* The UE's next answer is taken.
LEMMA SlotTail ==
    ASSUME NEW S, NEW r \in Seq(S), r # <<>>
    PROVE  /\ Tail(r) \in Seq(S) /\ \A n \in DOMAIN Tail(r) : n + 1 \in DOMAIN r /\ Tail(r)[n] = r[n + 1] /\ n \in Nat \ {0}
           /\ 1 \in DOMAIN r /\ Head(r) = r[1] /\ DOMAIN Tail(r) \subseteq DOMAIN r
OBVIOUS

\* Another answer is on its way.
LEMMA SlotAppend ==
    ASSUME NEW S, NEW r \in Seq(S), NEW e
    PROVE  /\ Append(r, e) \in Seq(S \cup {e})
           /\ \A n \in DOMAIN Append(r, e) : \/ n \in DOMAIN r /\ Append(r, e)[n] = r[n]
                                             \/ n = Len(r) + 1 /\ Append(r, e)[n] = e
           /\ Len(r) + 1 \notin DOMAIN r
<1>1. r \in Seq(S \cup {e}) /\ e \in S \cup {e}
  OBVIOUS
<1>q. QED
  BY <1>1

LEMMA SlotTaken ==
    ASSUME NEW i, NEW x, NEW r, SlotReplies(i, x, r), r # <<>>
    PROVE  /\ SlotReplies(i, x, Tail(r))
           /\ Head(r).kind = "Smc" => /\ x["state"] = "SecurityMode" /\ x["tmsi"] = None
                                      /\ \A n \in DOMAIN Tail(r) : Tail(r)[n].kind # "Smc"
           /\ Head(r).kind = "Accept" => x["sec"] = TRUE /\ x["tmsi"] = i
<1> DEFINE S == {r[n] : n \in DOMAIN r}
<1>1. r \in Seq(S)
  BY DEF SlotReplies
<1> HIDE DEF S
<1>2. PICK q : q = Tail(r)
  OBVIOUS
<1>3. /\ q \in Seq(S) /\ \A n \in DOMAIN q : n + 1 \in DOMAIN r /\ q[n] = r[n + 1] /\ n \in Nat \ {0}
      /\ 1 \in DOMAIN r /\ Head(r) = r[1]
  BY <1>1, <1>2, SlotTail
<1>4. q \in Seq({q[n] : n \in DOMAIN q})
  BY <1>3, SlotSeq
<1>5. ASSUME NEW n \in DOMAIN q, q[n].kind = "Smc"
      PROVE  /\ x["state"] = "SecurityMode" /\ x["tmsi"] = None /\ q[n] = Reply("Smc", 0) /\ Head(r).kind # "Smc"
             /\ \A m \in DOMAIN q : q[m].kind = "Smc" => m = n
  <2>1. n + 1 \in DOMAIN r /\ r[n + 1].kind = "Smc" /\ q[n] = r[n + 1] /\ n + 1 # 1
    BY <1>3, <1>5
  <2>2. \A m \in DOMAIN q : q[m].kind = "Smc" => m + 1 = n + 1 /\ m \in Nat /\ n \in Nat
    BY <1>3, <2>1 DEF SlotReplies
  <2>q. QED
    BY <1>3, <2>1, <2>2 DEF SlotReplies
<1>6. ASSUME NEW n \in DOMAIN q, q[n].kind = "Accept" PROVE x["sec"] = TRUE /\ x["tmsi"] = i
  BY <1>3, <1>6 DEF SlotReplies
<1>7. SlotReplies(i, x, q)
  BY <1>4, <1>5, <1>6 DEF SlotReplies
<1>8. Head(r).kind = "Smc" => /\ x["state"] = "SecurityMode" /\ x["tmsi"] = None
                               /\ \A n \in DOMAIN q : q[n].kind # "Smc"
  BY <1>3, <1>5 DEF SlotReplies
<1>9. Head(r).kind = "Accept" => x["sec"] = TRUE /\ x["tmsi"] = i
  BY <1>3 DEF SlotReplies
<1>q. QED
  BY <1>2, <1>7, <1>8, <1>9

\* What an answer needs to be on its way.
SlotMay(i, x, r, e) ==
    \/ e.kind \notin {"Smc", "Accept"}
    \/ /\ e = Reply("Smc", 0) /\ x["state"] = "SecurityMode" /\ x["tmsi"] = None
       /\ \A n \in DOMAIN r : r[n].kind # "Smc"
    \/ e.kind = "Accept" /\ x["sec"] = TRUE /\ x["tmsi"] = i

LEMMA SlotAnswers ==
    ASSUME NEW i, NEW x, NEW r, SlotReplies(i, x, r), NEW e, SlotMay(i, x, r, e)
    PROVE  SlotReplies(i, x, Append(r, e))
<1> DEFINE S == {r[n] : n \in DOMAIN r}
<1>1. r \in Seq(S)
  BY DEF SlotReplies
<1> HIDE DEF S
<1>2. PICK q : q = Append(r, e)
  OBVIOUS
<1>3. /\ q \in Seq(S \cup {e})
      /\ \A n \in DOMAIN q : (n \in DOMAIN r /\ q[n] = r[n]) \/ (n = Len(r) + 1 /\ q[n] = e)
  BY <1>1, <1>2, SlotAppend
<1>4. q \in Seq({q[n] : n \in DOMAIN q})
  BY <1>3, SlotSeq
<1>5. ASSUME NEW n \in DOMAIN q, q[n].kind = "Smc"
      PROVE  /\ x["state"] = "SecurityMode" /\ x["tmsi"] = None /\ q[n] = Reply("Smc", 0)
             /\ \A m \in DOMAIN q : q[m].kind = "Smc" => m = n
  <2>1. CASE n \in DOMAIN r /\ q[n] = r[n]
    <3>1. e.kind # "Smc"
      BY <1>5, <2>1 DEF SlotMay, SlotReplies, Reply
    <3>q. QED
      BY <1>3, <1>5, <2>1, <3>1 DEF SlotReplies
  <2>2. CASE n = Len(r) + 1 /\ q[n] = e
    <3>1. /\ e = Reply("Smc", 0) /\ x["state"] = "SecurityMode" /\ x["tmsi"] = None
          /\ \A m \in DOMAIN r : r[m].kind # "Smc"
      BY <1>5, <2>2 DEF SlotMay
    <3>q. QED
      BY <1>3, <2>2, <3>1
  <2>q. QED
    BY <1>3, <2>1, <2>2
<1>6. ASSUME NEW n \in DOMAIN q, q[n].kind = "Accept" PROVE x["sec"] = TRUE /\ x["tmsi"] = i
  BY <1>3, <1>6 DEF SlotReplies, SlotMay, Reply
<1>q. QED
  BY <1>2, <1>4, <1>5, <1>6 DEF SlotReplies

\* The answers on their way are about these three fields, or not.
LEMMA SlotSame ==
    ASSUME NEW i, NEW x, NEW y, NEW r, SlotReplies(i, x, r),
           \/ y["state"] = x["state"] /\ y["tmsi"] = x["tmsi"] /\ y["sec"] = x["sec"]
           \/ /\ \A n \in DOMAIN r : r[n].kind # "Smc"
              /\ (x["sec"] = TRUE /\ x["tmsi"] = i) => (y["sec"] = TRUE /\ y["tmsi"] = i)
    PROVE  SlotReplies(i, y, r)
BY DEF SlotReplies

\* A message resent verbatim has one answer.
LEMMA SlotAnswered ==
    ASSUME NEW i \in Ids, NEW x, DOMAIN replies = Ids, SlotReplies(i, x, replies[i]), NEW e,
           \/ e.kind \notin {"Smc", "Accept"}
           \/ e = Reply("Smc", 0) /\ x["state"] = "SecurityMode" /\ x["tmsi"] = None
           \/ e.kind = "Accept" /\ x["sec"] = TRUE /\ x["tmsi"] = i
    PROVE  /\ DOMAIN Answered(i, e) = Ids /\ SlotReplies(i, x, Answered(i, e)[i])
           /\ \A j \in Ids \ {i} : Answered(i, e)[j] = replies[j]
<1>1. CASE Answered(i, e) = replies
  BY <1>1
<1>2. CASE /\ Answered(i, e) = [replies EXCEPT ![i] = Append(@, e)]
           /\ ~(e.kind \in {"Smc", "Accept"} /\ \E n \in DOMAIN replies[i] : replies[i][n] = e)
  <2>1. SlotMay(i, x, replies[i], e)
    BY <1>2 DEF SlotMay, SlotReplies, Reply
  <2>2. SlotReplies(i, x, Append(replies[i], e))
    BY <2>1, SlotAnswers
  <2>q. QED
    BY <1>2, <2>2
<1>q. QED
  BY <1>1, <1>2 DEF Answered

\* A step of connection i, whose context stays or goes.
LEMMA SlotMoves ==
    ASSUME RegIInv, SlotIInv, NEW i \in Ids, ues[i] # None, UNCHANGED <<retained, nextId>>,
           spent'["an"] = spent["an"], DOMAIN timers' = Ids, DOMAIN replies' = Ids,
           \A j \in Ids \ {i} : ues'[j] = ues[j] /\ timers'[j] = timers[j] /\ replies'[j] = replies[j],
           ues'[i] # None => SlotContext(i, ues'[i], timers'[i]) /\ SlotReplies(i, ues'[i], replies'[i])
    PROVE  SlotIInv'
<1>1. i < nextId /\ i \in Nat /\ nextId \in Nat
  BY DEF RegIInv, RegShape, RegPlaces, RegCtx, Ids
<1>2. ASSUME NEW j \in Ids
      PROVE  /\ retained'[j] = None
             /\ ues'[j] # None => SlotContext(j, ues'[j], timers'[j]) /\ SlotReplies(j, ues'[j], replies'[j])
             /\ j >= nextId' => timers'[j] = Idle /\ replies'[j] = <<>>
  <2>1. CASE j = i
    BY <1>1, <2>1 DEF SlotIInv
  <2>2. CASE j # i
    BY <2>2 DEF SlotIInv
  <2>q. QED
    BY <2>1, <2>2
<1>q. QED
  BY <1>2 DEF SlotIInv, SlotContext, SlotReplies

\* Connection i ends.
LEMMA SlotGoes ==
    ASSUME RegIInv, SlotIInv, NEW i \in Ids, ues[i] # None, UNCHANGED <<retained, nextId>>,
           spent'["an"] = spent["an"], ues' = Removed(i), Quiet(i)
    PROVE  SlotIInv'
<1>1. DOMAIN ues = Ids /\ DOMAIN timers = Ids /\ DOMAIN replies = Ids
  BY DEF RegIInv, RegShape, SlotIInv
<1>2. /\ DOMAIN timers' = Ids /\ DOMAIN replies' = Ids /\ ues'[i] = None
      /\ \A j \in Ids \ {i} : ues'[j] = ues[j] /\ timers'[j] = timers[j] /\ replies'[j] = replies[j]
  BY <1>1 DEF Removed, Quiet
<1>q. QED
  BY <1>2, SlotMoves

\* Nothing happens to the connections.
LEMMA SlotNothing ==
    ASSUME SlotIInv, UNCHANGED <<ues, retained, nextId, timers, replies>>, spent'["an"] = spent["an"]
    PROVE  SlotIInv'
<1>1. ASSUME NEW j \in Ids
      PROVE  /\ retained'[j] = None
             /\ ues'[j] # None => SlotContext(j, ues'[j], timers'[j]) /\ SlotReplies(j, ues'[j], replies'[j])
             /\ j >= nextId' => timers'[j] = Idle /\ replies'[j] = <<>>
  BY DEF SlotIInv
<1>q. QED
  BY <1>1 DEF SlotIInv, SlotContext, SlotReplies

\* What the invariant says of a connection.
LEMMA SlotHas ==
    ASSUME RegIInv, SlotIInv, NEW i \in Ids, ues[i] # None
    PROVE  /\ SlotContext(i, ues[i], timers[i]) /\ SlotReplies(i, ues[i], replies[i])
           /\ DOMAIN ues = Ids /\ DOMAIN timers = Ids /\ DOMAIN replies = Ids
           /\ DOMAIN ues[i] = RegFields
BY DEF RegIInv, RegShape, SlotIInv, RegPlaces, RegCtx

\* The steps of a connection that end it.
LEMMA SlotEndSteps ==
    ASSUME RegIInv, SlotIInv, NEW i \in Ids,
           \/ RejectAuthentication(i) \/ AbortAuthentication(i)
           \/ \E pcfUp \in BOOLEAN : RejectRegistration(i, pcfUp)
           \/ OnDeregistration(i)
           \/ OnDeregistrationAccept(i) /\ ues[i].dereg # None
    PROVE  SlotIInv'
<1>1. ues[i] # None /\ UNCHANGED <<retained, nextId, spent>> /\ ues' = Removed(i) /\ Quiet(i)
  BY DEF RejectAuthentication, AbortAuthentication, RejectRegistration, OnDeregistrationAccept,
         OnDeregistration, Gets
<1>q. QED
  BY <1>1, SlotGoes

\* An answer is taken, or lost, with nothing else.
LEMMA SlotTakingSteps ==
    ASSUME RegIInv, SlotIInv, NEW i \in Ids, replies[i] # <<>>, replies' = Taken(i),
           UNCHANGED <<ues, retained, nextId, timers, spent>>
    PROVE  SlotIInv'
<1>1. CASE ues[i] # None
  <2>1. SlotReplies(i, ues[i], Tail(replies[i]))
    BY <1>1, SlotHas, SlotTaken
  <2>2. /\ DOMAIN replies' = Ids /\ replies'[i] = Tail(replies[i])
        /\ \A j \in Ids \ {i} : replies'[j] = replies[j]
    BY <1>1, SlotHas DEF Taken
  <2>q. QED
    BY <1>1, <2>1, <2>2, SlotHas, SlotMoves
<1>2. CASE ues[i] = None
  <2>1. ~(i >= nextId)
    BY DEF SlotIInv
  <2>2. /\ DOMAIN replies' = Ids
        /\ \A j \in Ids \ {i} : replies'[j] = replies[j]
    BY DEF Taken, SlotIInv
  <2>3. ASSUME NEW j \in Ids
        PROVE  /\ retained'[j] = None
               /\ ues'[j] # None => SlotContext(j, ues'[j], timers'[j]) /\ SlotReplies(j, ues'[j], replies'[j])
               /\ j >= nextId' => timers'[j] = Idle /\ replies'[j] = <<>>
    <3>1. CASE j = i
      BY <1>2, <2>1, <3>1 DEF SlotIInv
    <3>2. CASE j # i
      BY <2>2, <3>2 DEF SlotIInv
    <3>q. QED
      BY <3>1, <3>2
  <2>q. QED
    BY <2>2, <2>3 DEF SlotIInv, SlotContext, SlotReplies
<1>q. QED
  BY <1>1, <1>2

\* An answer is taken, and the next message sent and answered.
LEMMA SlotReplied ==
    ASSUME NEW i, NEW x, NEW y, NEW r, SlotReplies(i, x, r), r # <<>>, NEW e, SlotMay(i, y, Tail(r), e),
           \/ y["state"] = x["state"] /\ y["tmsi"] = x["tmsi"] /\ y["sec"] = x["sec"]
           \/ /\ \A n \in DOMAIN Tail(r) : Tail(r)[n].kind # "Smc"
              /\ (x["sec"] = TRUE /\ x["tmsi"] = i) => (y["sec"] = TRUE /\ y["tmsi"] = i)
    PROVE  SlotReplies(i, y, Append(Tail(r), e))
<1>1. PICK q : q = Tail(r)
  OBVIOUS
<1>2. SlotReplies(i, x, q)
  BY <1>1, SlotTaken
<1>3. SlotReplies(i, y, q)
  BY <1>1, <1>2, SlotSame
<1>4. SlotReplies(i, y, Append(q, e))
  BY <1>1, <1>3, SlotAnswers
<1>q. QED
  BY <1>1, <1>4

\* Only a context in SecurityMode awaits a Security Mode Complete.
LEMMA SlotNoSmc ==
    ASSUME NEW i, NEW x, NEW r, SlotReplies(i, x, r), r # <<>>, x["state"] # "SecurityMode" \/ Head(r).kind = "Smc"
    PROVE  \A n \in DOMAIN Tail(r) : Tail(r)[n].kind # "Smc"
<1>1. SlotReplies(i, x, Tail(r))
  BY SlotTaken
<1>2. CASE x["state"] # "SecurityMode"
  BY <1>1, <1>2 DEF SlotReplies
<1>3. CASE Head(r).kind = "Smc"
  <2>1. /\ SlotReplies(i, x, Tail(r))
        /\ Head(r).kind = "Smc" => /\ x["state"] = "SecurityMode" /\ x["tmsi"] = None
                                   /\ \A n \in DOMAIN Tail(r) : Tail(r)[n].kind # "Smc"
        /\ Head(r).kind = "Accept" => x["sec"] = TRUE /\ x["tmsi"] = i
    BY SlotTaken
  <2>q. QED
    BY <1>3, <2>1
<1>q. QED
  BY <1>2, <1>3

\* The fields of a slot.
LEMMA SlotFields ==
    ASSUME NEW k, NEW c
    PROVE  DOMAIN Retx(k, c) = {"kind", "attempts", "c"} /\ Retx(k, c)["kind"] = k /\ Retx(k, c)["c"] = c
BY DEF Retx

LEMMA SlotIdentityStep ==
    ASSUME RegistrationAssumption, RegIInv, SlotIInv, NEW i \in Ids, NEW ok \in BOOLEAN, OnIdentityResponse(i, ok)
    PROVE  SlotIInv'
<1>1. CASE ~(ues[i].state = "IdentityRequested" /\ ok)
  <2>1. replies[i] # <<>> /\ replies' = Taken(i) /\ UNCHANGED <<ues, retained, nextId, timers, spent>>
    BY <1>1 DEF OnIdentityResponse, Gets
  <2>q. QED
    BY <2>1, SlotTakingSteps
<1>2. CASE ues[i].state = "IdentityRequested" /\ ok
  <2>1. PICK x, r, y, t : x = ues[i] /\ r = replies[i] /\ y = Challenged([ues[i] EXCEPT !.supi = who[i]])
                          /\ t = timers[i]
    OBVIOUS
  <2>2. /\ x # None /\ r # <<>> /\ x["state"] = "IdentityRequested"
        /\ ues' = [ues EXCEPT ![i] = y] /\ timers' = [timers EXCEPT ![i]["Auth"] = @ + 1]
        /\ replies' = [replies EXCEPT ![i] = Append(Tail(r), Reply("Auth", 1))]
        /\ UNCHANGED <<retained, nextId, spent>>
    BY <1>2, <2>1 DEF OnIdentityResponse, Gets, Arms
  <2>3. /\ SlotContext(i, x, t) /\ SlotReplies(i, x, r) /\ DOMAIN x = RegFields
        /\ DOMAIN ues = Ids /\ DOMAIN timers = Ids /\ DOMAIN replies = Ids
    BY <2>1, <2>2, SlotHas
  <2>4. PICK u : u = [t EXCEPT !["Auth"] = @ + 1]
    OBVIOUS
  <2>5. /\ DOMAIN timers' = Ids /\ DOMAIN replies' = Ids /\ ues'[i] = y /\ timers'[i] = u
        /\ replies'[i] = Append(Tail(r), Reply("Auth", 1))
        /\ \A j \in Ids \ {i} : ues'[j] = ues[j] /\ timers'[j] = timers[j] /\ replies'[j] = replies[j]
    BY <2>1, <2>2, <2>3, <2>4
  <2>6. /\ y["auth"] = 1 /\ y["state"] = "Authenticating" /\ y["retx"] = Retx("Auth", 1)
        /\ y["sec"] = x["sec"] /\ y["tmsi"] = x["tmsi"]
    BY <2>1, <2>3 DEF Challenged, RegFields
  <2>7. x["sec"] = FALSE /\ t["Smc"] = 0 /\ t["Auth"] = 0 /\ t["Guard"] = 1
        /\ t \in [TimerKind -> Nat] /\ t["Accept"] = 0 /\ x["tmsi"] = None
    BY <2>2, <2>3 DEF SlotContext
  <2>8. u \in [TimerKind -> Nat] /\ u["Auth"] = 1 /\ \A k \in TimerKind \ {"Auth"} : u[k] = t[k]
    BY <2>4, <2>7 DEF TimerKind, RetxKind
  <2>9. SlotContext(i, y, u)
    <3>1. PICK z : z = Retx("Auth", 1)
      OBVIOUS
    <3>2. DOMAIN z = {"kind", "attempts", "c"} /\ z["kind"] = "Auth" /\ 1 # None
      BY <3>1, SlotFields, RegIdNotNone
    <3>3. u["Guard"] = 1 /\ u["Smc"] = 0 /\ u["Accept"] = 0
      BY <2>6, <2>7, <2>8 DEF TimerKind, RetxKind
    <3>q. QED
      BY <2>6, <2>7, <2>8, <3>1, <3>2, <3>3 DEF SlotContext
  <2>10. SlotReplies(i, y, Append(Tail(r), Reply("Auth", 1)))
    <3>1. SlotMay(i, y, Tail(r), Reply("Auth", 1))
      BY DEF SlotMay, Reply
    <3>2. \A n \in DOMAIN Tail(r) : Tail(r)[n].kind # "Smc"
      BY <2>2, <2>3, SlotNoSmc
    <3>q. QED
      BY <2>2, <2>3, <2>6, <2>7, <3>1, <3>2, SlotReplied
  <2>q. QED
    BY <2>1, <2>2, <2>5, <2>9, <2>10, SlotMoves
<1>q. QED
  BY <1>1, <1>2

LEMMA SlotAuthenticationStep ==
    ASSUME RegistrationAssumption, RegIInv, SlotIInv, NEW i \in Ids, NEW usable \in BOOLEAN,
           OnAuthenticationResponse(i, usable)
    PROVE  SlotIInv'
<1>1. PICK x, r, t : x = ues[i] /\ r = replies[i] /\ t = timers[i]
  OBVIOUS
<1>2. /\ x # None /\ r # <<>> /\ Head(r).kind = "Auth" /\ x["sec"] # TRUE
      /\ UNCHANGED <<retained, nextId, spent>>
  BY <1>1 DEF OnAuthenticationResponse, Gets
<1>3. /\ SlotContext(i, x, t) /\ SlotReplies(i, x, r) /\ DOMAIN x = RegFields
      /\ DOMAIN ues = Ids /\ DOMAIN timers = Ids /\ DOMAIN replies = Ids
  BY <1>1, <1>2, SlotHas
<1>4. /\ x["sec"] = FALSE /\ t["Smc"] = 0 /\ x["state"] # "SecurityMode" /\ t \in [TimerKind -> Nat]
  BY <1>2, <1>3 DEF SlotContext
<1>5. /\ \A n \in DOMAIN Tail(r) : Tail(r)[n].kind # "Smc"
      /\ SlotReplies(i, x, Tail(r))
  <2>1. \A n \in DOMAIN Tail(r) : Tail(r)[n].kind # "Smc"
    BY <1>2, <1>3, <1>4, SlotNoSmc
  <2>2. SlotReplies(i, x, Tail(r))
    BY <1>2, <1>3, SlotTaken
  <2>q. QED
    BY <2>1, <2>2
<1>6. CASE x.auth # None /\ usable
  <2>1. PICK y, u : /\ y = [x EXCEPT !.auth = None, !.sec = TRUE, !.state = "SecurityMode",
                                    !.progress = TRUE, !.retx = Retx("Smc", 0)]
                    /\ u = [t EXCEPT !["Smc"] = @ + 1]
    OBVIOUS
  <2>2. /\ ues' = [ues EXCEPT ![i] = y] /\ timers' = [timers EXCEPT ![i]["Smc"] = @ + 1]
        /\ replies' = [replies EXCEPT ![i] = Append(Tail(r), Reply("Smc", 0))]
    BY <1>1, <1>6, <2>1 DEF OnAuthenticationResponse, Arms
  <2>3. /\ DOMAIN timers' = Ids /\ DOMAIN replies' = Ids /\ ues'[i] = y /\ timers'[i] = u
        /\ replies'[i] = Append(Tail(r), Reply("Smc", 0))
        /\ \A j \in Ids \ {i} : ues'[j] = ues[j] /\ timers'[j] = timers[j] /\ replies'[j] = replies[j]
    BY <1>1, <1>3, <2>1, <2>2
  <2>4. /\ y["auth"] = None /\ y["state"] = "SecurityMode" /\ y["retx"] = Retx("Smc", 0)
        /\ y["sec"] = TRUE /\ y["tmsi"] = x["tmsi"]
    BY <1>3, <2>1 DEF RegFields
  <2>5. u \in [TimerKind -> Nat] /\ u["Smc"] = 1 /\ \A k \in TimerKind \ {"Smc"} : u[k] = t[k]
    BY <1>4, <2>1 DEF TimerKind, RetxKind
  <2>6. x["state"] = "Authenticating" /\ x["tmsi"] = None
    BY <1>3, <1>4, <1>6 DEF SlotContext
  <2>7. SlotContext(i, y, u)
    <3>1. PICK z : z = Retx("Smc", 0)
      OBVIOUS
    <3>2. DOMAIN z = {"kind", "attempts", "c"} /\ z["kind"] = "Smc" /\ z["c"] = 0
      BY <3>1, SlotFields
    <3>3. u["Guard"] = 1 /\ u["Accept"] = 0
      BY <1>3, <2>5, <2>6 DEF TimerKind, RetxKind, SlotContext
    <3>q. QED
      BY <2>4, <2>5, <2>6, <3>1, <3>2, <3>3 DEF SlotContext
  <2>8. SlotReplies(i, y, Append(Tail(r), Reply("Smc", 0)))
    <3>1. SlotMay(i, y, Tail(r), Reply("Smc", 0))
      BY <1>5, <2>4, <2>6 DEF SlotMay
    <3>q. QED
      BY <1>2, <1>3, <1>4, <1>5, <3>1, SlotReplied
  <2>q. QED
    BY <1>1, <1>2, <2>3, <2>7, <2>8, SlotMoves
<1>7. CASE ~(x.auth # None /\ usable)
  <2>1. PICK y : y = [x EXCEPT !.auth = None, !.retx = None]
    OBVIOUS
  <2>2. ues' = [ues EXCEPT ![i] = y] /\ timers' = timers /\ replies' = [replies EXCEPT ![i] = Tail(r)]
    BY <1>1, <1>7, <2>1 DEF OnAuthenticationResponse, Taken
  <2>3. /\ DOMAIN timers' = Ids /\ DOMAIN replies' = Ids /\ ues'[i] = y /\ timers'[i] = t
        /\ replies'[i] = Tail(r)
        /\ \A j \in Ids \ {i} : ues'[j] = ues[j] /\ timers'[j] = timers[j] /\ replies'[j] = replies[j]
    BY <1>1, <1>3, <2>2
  <2>4. /\ y["auth"] = None /\ y["state"] = x["state"] /\ y["retx"] = None
        /\ y["sec"] = x["sec"] /\ y["tmsi"] = x["tmsi"]
    BY <1>3, <2>1 DEF RegFields
  <2>5. SlotContext(i, y, t)
    BY <1>3, <2>4 DEF SlotContext
  <2>6. SlotReplies(i, y, Tail(r))
    BY <1>5, <2>4, SlotSame
  <2>q. QED
    BY <1>1, <1>2, <2>3, <2>5, <2>6, SlotMoves
<1>q. QED
  BY <1>6, <1>7

LEMMA SlotResynchroniseStep ==
    ASSUME RegistrationAssumption, RegIInv, SlotIInv, NEW i \in Ids, Resynchronise(i)
    PROVE  SlotIInv'
<1>1. PICK x, r, t, y : /\ x = ues[i] /\ r = replies[i] /\ t = timers[i]
                        /\ y = [x EXCEPT !.auth = 2, !.resynced = TRUE]
  OBVIOUS
<1>2. /\ x # None /\ r # <<>> /\ Head(r).kind = "Auth" /\ x["sec"] # TRUE /\ x["auth"] # None
      /\ UNCHANGED <<retained, nextId, spent, timers>> /\ ues' = [ues EXCEPT ![i] = y]
      /\ replies' = [replies EXCEPT ![i] = Append(Tail(r), Reply("Auth", 2))]
  BY <1>1 DEF Resynchronise, Gets
<1>3. /\ SlotContext(i, x, t) /\ SlotReplies(i, x, r) /\ DOMAIN x = RegFields
      /\ DOMAIN ues = Ids /\ DOMAIN timers = Ids /\ DOMAIN replies = Ids
  BY <1>1, <1>2, SlotHas
<1>4. /\ DOMAIN timers' = Ids /\ DOMAIN replies' = Ids /\ ues'[i] = y /\ timers'[i] = t
      /\ replies'[i] = Append(Tail(r), Reply("Auth", 2))
      /\ \A j \in Ids \ {i} : ues'[j] = ues[j] /\ timers'[j] = timers[j] /\ replies'[j] = replies[j]
  BY <1>1, <1>2, <1>3
<1>5. /\ y["auth"] = 2 /\ y["state"] = x["state"] /\ y["retx"] = x["retx"]
      /\ y["sec"] = x["sec"] /\ y["tmsi"] = x["tmsi"] /\ y["supi"] = x["supi"]
  BY <1>1, <1>3 DEF RegFields
<1>6. SlotContext(i, y, t)
  BY <1>2, <1>3, <1>5, RegIdNotNone DEF SlotContext
<1>7. SlotMay(i, y, Tail(r), Reply("Auth", 2))
  BY DEF SlotMay, Reply
<1>8. SlotReplies(i, y, Append(Tail(r), Reply("Auth", 2)))
  BY <1>2, <1>3, <1>5, <1>7, SlotReplied
<1>q. QED
  BY <1>1, <1>2, <1>4, <1>6, <1>8, SlotMoves

\* The Registration Accept goes out, on the one Security Mode Complete.
LEMMA SlotAcceptStep ==
    ASSUME RegistrationAssumption, RegIInv, SlotIInv, NEW i \in Ids, NEW pcfUp \in BOOLEAN,
           OnSecurityModeComplete(i, pcfUp)
    PROVE  SlotIInv'
<1>1. PICK x, r, t, y, u : /\ x = ues[i] /\ r = replies[i] /\ t = timers[i]
                           /\ y = Accepted(x, i, IF pcfUp THEN i ELSE x.policy)
                           /\ u = [t EXCEPT !["Accept"] = @ + 1]
  OBVIOUS
<1>2. /\ x # None /\ r # <<>> /\ Head(r).kind = "Smc"
      /\ UNCHANGED <<retained, nextId, spent>> /\ ues' = [ues EXCEPT ![i] = y]
      /\ timers' = [timers EXCEPT ![i]["Accept"] = @ + 1]
      /\ replies' = [replies EXCEPT ![i] = Append(Tail(r), Reply("Accept", i))]
  BY <1>1 DEF OnSecurityModeComplete, Gets, Arms
<1>3. /\ SlotContext(i, x, t) /\ SlotReplies(i, x, r) /\ DOMAIN x = RegFields
      /\ DOMAIN ues = Ids /\ DOMAIN timers = Ids /\ DOMAIN replies = Ids
  BY <1>1, <1>2, SlotHas
<1>4. /\ DOMAIN timers' = Ids /\ DOMAIN replies' = Ids /\ ues'[i] = y /\ timers'[i] = u
      /\ replies'[i] = Append(Tail(r), Reply("Accept", i))
      /\ \A j \in Ids \ {i} : ues'[j] = ues[j] /\ timers'[j] = timers[j] /\ replies'[j] = replies[j]
  BY <1>1, <1>2, <1>3
<1>5. /\ y["auth"] = x["auth"] /\ y["state"] = x["state"] /\ y["retx"] = Retx("Accept", i)
      /\ y["sec"] = x["sec"] /\ y["tmsi"] = i
  BY <1>1, <1>3 DEF RegFields, Accepted
<1>6. /\ x["state"] = "SecurityMode" /\ x["tmsi"] = None
      /\ \A n \in DOMAIN Tail(r) : Tail(r)[n].kind # "Smc"
  <2>1. /\ SlotReplies(i, x, Tail(r))
        /\ Head(r).kind = "Smc" => /\ x["state"] = "SecurityMode" /\ x["tmsi"] = None
                                   /\ \A n \in DOMAIN Tail(r) : Tail(r)[n].kind # "Smc"
        /\ Head(r).kind = "Accept" => x["sec"] = TRUE /\ x["tmsi"] = i
    BY <1>2, <1>3, SlotTaken
  <2>q. QED
    BY <1>2, <2>1
<1>7. /\ x["sec"] = TRUE /\ t["Accept"] = 0 /\ t["Guard"] = 1 /\ t \in [TimerKind -> Nat]
      /\ x["auth"] = None /\ i # None
  BY <1>3, <1>6, RegIdNotNone DEF SlotContext, Ids
<1>8. u \in [TimerKind -> Nat] /\ u["Accept"] = 1 /\ \A k \in TimerKind \ {"Accept"} : u[k] = t[k]
  BY <1>1, <1>7 DEF TimerKind, RetxKind
<1>9. SlotContext(i, y, u)
  <2>1. PICK z : z = Retx("Accept", i)
    OBVIOUS
  <2>2. DOMAIN z = {"kind", "attempts", "c"} /\ z["kind"] = "Accept"
    BY <2>1, SlotFields
  <2>3. u["Guard"] = 1
    BY <1>7, <1>8 DEF TimerKind, RetxKind
  <2>q. QED
    BY <1>5, <1>6, <1>7, <1>8, <2>1, <2>2, <2>3 DEF SlotContext
<1>10. SlotMay(i, y, Tail(r), Reply("Accept", i))
  BY <1>5, <1>7 DEF SlotMay, Reply
<1>11. SlotReplies(i, y, Append(Tail(r), Reply("Accept", i)))
  BY <1>2, <1>3, <1>5, <1>6, <1>7, <1>10, SlotReplied
<1>q. QED
  BY <1>1, <1>2, <1>4, <1>9, <1>11, SlotMoves

\* The UE completes its registration: T3550 has nothing left to guard.
LEMMA SlotCompleteStep ==
    ASSUME RegistrationAssumption, RegIInv, SlotIInv, NEW i \in Ids, OnRegistrationComplete(i)
    PROVE  SlotIInv'
<1>1. PICK x, r, t, y : x = ues[i] /\ r = replies[i] /\ t = timers[i] /\ y = Completed(x)
  OBVIOUS
<1>2. /\ x # None /\ r # <<>> /\ Head(r).kind = "Accept"
      /\ UNCHANGED <<retained, nextId, spent, timers>> /\ ues' = [ues EXCEPT ![i] = y]
      /\ replies' = [replies EXCEPT ![i] = Tail(r)]
  BY <1>1 DEF OnRegistrationComplete, Gets, Taken
<1>3. /\ SlotContext(i, x, t) /\ SlotReplies(i, x, r) /\ DOMAIN x = RegFields
      /\ DOMAIN ues = Ids /\ DOMAIN timers = Ids /\ DOMAIN replies = Ids
  BY <1>1, <1>2, SlotHas
<1>4. /\ DOMAIN timers' = Ids /\ DOMAIN replies' = Ids /\ ues'[i] = y /\ timers'[i] = t /\ replies'[i] = Tail(r)
      /\ \A j \in Ids \ {i} : ues'[j] = ues[j] /\ timers'[j] = timers[j] /\ replies'[j] = replies[j]
  BY <1>1, <1>2, <1>3
<1>5. /\ y["auth"] = x["auth"] /\ y["state"] = "Registered" /\ y["retx"] = None
      /\ y["sec"] = x["sec"] /\ y["tmsi"] = x["tmsi"]
  BY <1>1, <1>3 DEF RegFields, Completed
<1>6. /\ SlotReplies(i, x, Tail(r))
      /\ Head(r).kind = "Smc" => /\ x["state"] = "SecurityMode" /\ x["tmsi"] = None
                                 /\ \A n \in DOMAIN Tail(r) : Tail(r)[n].kind # "Smc"
      /\ Head(r).kind = "Accept" => x["sec"] = TRUE /\ x["tmsi"] = i
  BY <1>2, <1>3, SlotTaken
<1>7. x["sec"] = TRUE /\ x["tmsi"] = i /\ i # None /\ x["auth"] = None
  BY <1>2, <1>3, <1>6, RegIdNotNone DEF SlotContext, Ids
<1>8. SlotContext(i, y, t)
  BY <1>3, <1>5, <1>7 DEF SlotContext
<1>9. \A n \in DOMAIN Tail(r) : Tail(r)[n].kind # "Smc"
  BY <1>6, <1>7 DEF SlotReplies
<1>10. SlotReplies(i, y, Tail(r))
  BY <1>5, <1>6, <1>9, SlotSame
<1>q. QED
  BY <1>1, <1>2, <1>4, <1>8, <1>10, SlotMoves

\* Fields the registration does not depend on change, and an answer is taken.
LEMMA SlotAsideStep ==
    ASSUME RegistrationAssumption, RegIInv, SlotIInv, NEW i \in Ids,
           OnConfigurationUpdateComplete(i) \/ OnUlNasTransport(i)
    PROVE  SlotIInv'
<1>1. PICK x, r, t : x = ues[i] /\ r = replies[i] /\ t = timers[i]
  OBVIOUS
<1>2. x # None /\ UNCHANGED <<retained, nextId, spent, timers>>
  BY <1>1 DEF OnConfigurationUpdateComplete, OnUlNasTransport, Gets, envVars
<1>3. /\ SlotContext(i, x, t) /\ SlotReplies(i, x, r) /\ DOMAIN x = RegFields
      /\ DOMAIN ues = Ids /\ DOMAIN timers = Ids /\ DOMAIN replies = Ids
  BY <1>1, <1>2, SlotHas
<1>4. PICK y : /\ ues' = [ues EXCEPT ![i] = y]
               /\ y["auth"] = x["auth"] /\ y["state"] = x["state"] /\ y["retx"] = x["retx"]
               /\ y["sec"] = x["sec"] /\ y["tmsi"] = x["tmsi"] /\ y["supi"] = x["supi"]
  <2>1. \/ ues' = [ues EXCEPT ![i] = [x EXCEPT !.cfg = None]]
        \/ ues' = [ues EXCEPT ![i] = [x EXCEPT !.sm = i]]
    BY <1>1 DEF OnConfigurationUpdateComplete, OnUlNasTransport
  <2>q. QED
    BY <1>3, <2>1 DEF RegFields
<1>5. /\ DOMAIN replies' = Ids /\ SlotReplies(i, x, replies'[i])
      /\ \A j \in Ids \ {i} : replies'[j] = replies[j]
  <2>1. CASE OnUlNasTransport(i)
    BY <1>1, <1>3, <2>1 DEF OnUlNasTransport, envVars
  <2>2. CASE OnConfigurationUpdateComplete(i)
    <3>1. r # <<>> /\ replies' = [replies EXCEPT ![i] = Tail(r)]
      BY <1>1, <2>2 DEF OnConfigurationUpdateComplete, Gets, Taken
    <3>2. SlotReplies(i, x, Tail(r))
      BY <1>3, <3>1, SlotTaken
    <3>q. QED
      BY <1>3, <3>1, <3>2
  <2>q. QED
    BY <2>1, <2>2
<1>6. SlotContext(i, y, t)
  BY <1>3, <1>4 DEF SlotContext
<1>7. SlotReplies(i, y, replies'[i])
  BY <1>4, <1>5, SlotSame
<1>8. /\ DOMAIN timers' = Ids /\ ues'[i] = y /\ timers'[i] = t
      /\ \A j \in Ids \ {i} : ues'[j] = ues[j] /\ timers'[j] = timers[j]
  BY <1>1, <1>2, <1>3, <1>4
<1>q. QED
  BY <1>1, <1>2, <1>5, <1>6, <1>7, <1>8, SlotMoves

\* A context is edited aside from what the slot depends on, a timer outside of the
\* registration's changes, and a message that is not the registration's may be sent.
LEMMA SlotSends ==
    ASSUME RegistrationAssumption, RegIInv, SlotIInv, NEW i \in Ids, ues[i] # None,
           UNCHANGED <<retained, nextId>>, spent'["an"] = spent["an"],
           NEW y, ues' = [ues EXCEPT ![i] = y],
           \A f \in {"auth", "state", "retx", "sec", "tmsi", "supi"} : y[f] = ues[i][f],
           NEW k \in {"T3522", "T3555"}, NEW n \in Nat, timers' = [timers EXCEPT ![i][k] = n],
           NEW e, e.kind \notin {"Smc", "Accept"}, replies' = Answered(i, e)
    PROVE  SlotIInv'
<1>1. PICK x, r, t, u : /\ x = ues[i] /\ r = replies[i] /\ t = timers[i]
                        /\ u = [t EXCEPT ![k] = n]
  OBVIOUS
<1>3. /\ SlotContext(i, x, t) /\ SlotReplies(i, x, r)
      /\ DOMAIN ues = Ids /\ DOMAIN timers = Ids /\ DOMAIN replies = Ids
  BY <1>1, SlotHas
<1>4. /\ y["auth"] = x["auth"] /\ y["state"] = x["state"] /\ y["retx"] = x["retx"]
      /\ y["sec"] = x["sec"] /\ y["tmsi"] = x["tmsi"] /\ y["supi"] = x["supi"]
  BY <1>1
<1>5. /\ DOMAIN replies' = Ids /\ SlotReplies(i, x, replies'[i])
      /\ \A j \in Ids \ {i} : replies'[j] = replies[j]
  <2>1. SlotReplies(i, x, replies[i]) /\ DOMAIN replies = Ids
    BY <1>1, <1>3
  <2>2. /\ DOMAIN Answered(i, e) = Ids /\ SlotReplies(i, x, Answered(i, e)[i])
        /\ \A j \in Ids \ {i} : Answered(i, e)[j] = replies[j]
    <3>1. e.kind \notin {"Smc", "Accept"}
      OBVIOUS
    <3>q. QED
      BY ONLY <2>1, <3>1, i \in Ids, SlotAnswered
  <2>q. QED
    BY <2>2
<1>6. /\ u \in [TimerKind -> Nat]
      /\ \A m \in {"Identity", "Auth", "Smc", "Accept", "Guard"} : u[m] = t[m]
  BY <1>1, <1>3 DEF SlotContext, TimerKind, RetxKind
<1>7. SlotContext(i, y, u)
  BY <1>3, <1>4, <1>6 DEF SlotContext
<1>8. SlotReplies(i, y, replies'[i])
  BY <1>4, <1>5, SlotSame
<1>9. /\ DOMAIN timers' = Ids /\ ues'[i] = y /\ timers'[i] = u
      /\ \A j \in Ids \ {i} : ues'[j] = ues[j] /\ timers'[j] = timers[j]
  BY <1>1, <1>3
<1>q. QED
  BY <1>5, <1>7, <1>8, <1>9, SlotMoves

\* An expiry that finds nothing to do.
LEMMA SlotStale ==
    ASSUME RegistrationAssumption, RegIInv, SlotIInv, NEW i \in Ids, ues[i] # None,
           NEW k \in TimerKind, timers[i][k] > 0, timers' = Fired(i, k),
           UNCHANGED <<ues, replies, retained, nextId>>, spent'["an"] = spent["an"],
           k = "Guard" => ues[i]["state"] = "Registered",
           ues[i]["retx"] # None => ues[i]["retx"]["kind"] # k
    PROVE  SlotIInv'
<1>1. PICK x, t, u : x = ues[i] /\ t = timers[i] /\ u = [t EXCEPT ![k] = @ - 1]
  OBVIOUS
<1>2. /\ SlotContext(i, x, t) /\ SlotReplies(i, x, replies[i])
      /\ DOMAIN timers = Ids /\ DOMAIN replies = Ids
  BY <1>1, SlotHas
<1>3. /\ DOMAIN timers' = Ids /\ timers'[i] = u /\ \A j \in Ids \ {i} : timers'[j] = timers[j]
  BY <1>1, <1>2 DEF Fired
<1>4. /\ u \in [TimerKind -> Nat] /\ t[k] # 0 /\ t \in [TimerKind -> Nat]
      /\ \A m \in TimerKind \ {k} : u[m] = t[m]
  BY <1>1, <1>2 DEF SlotContext
<1>5. SlotContext(i, x, u)
  <2>1. /\ x["state"] # "Registered" => u["Guard"] = 1
        /\ x["state"] \in {"IdentityRequested", "Identified"} => u["Auth"] = 0
        /\ x["sec"] = FALSE => u["Smc"] = 0
        /\ x["tmsi"] = None => u["Accept"] = 0
    BY <1>1, <1>2, <1>4 DEF SlotContext, TimerKind, RetxKind
  <2>2. x["retx"] # None => x["retx"]["kind"] \in TimerKind \ {k} /\ u[x["retx"]["kind"]] = 1
    BY <1>1, <1>2, <1>4 DEF SlotContext, TimerKind, RetxKind
  <2>q. QED
    BY <1>2, <1>4, <2>1, <2>2 DEF SlotContext
<1>q. QED
  BY <1>1, <1>2, <1>3, <1>5, SlotMoves

\* The slot's message is sent once more, and its timer armed again.
LEMMA SlotResends ==
    ASSUME RegistrationAssumption, RegIInv, SlotIInv, NEW i \in Ids, ues[i] # None,
           NEW k \in RetxKind, ues[i]["retx"] # None, ues[i]["retx"]["kind"] = k,
           ues' = [ues EXCEPT ![i] = [ues[i] EXCEPT !.retx.attempts = @ + 1]],
           timers' = Rearmed(i, k), replies' = Answered(i, Reply(k, ues[i]["retx"]["c"])),
           UNCHANGED <<retained, nextId>>, spent'["an"] = spent["an"]
    PROVE  SlotIInv'
<1>1. PICK x, t, z, y, u, e :
        /\ x = ues[i] /\ t = timers[i] /\ z = x["retx"] /\ y = [x EXCEPT !.retx.attempts = @ + 1]
        /\ u = [t EXCEPT ![k] = (@ - 1) + 1] /\ e = Reply(k, z["c"])
  OBVIOUS
<1>2. /\ SlotContext(i, x, t) /\ SlotReplies(i, x, replies[i]) /\ DOMAIN x = RegFields
      /\ DOMAIN ues = Ids /\ DOMAIN timers = Ids /\ DOMAIN replies = Ids
  BY <1>1, SlotHas
<1>3. /\ DOMAIN timers' = Ids /\ timers'[i] = u /\ ues'[i] = y /\ replies' = Answered(i, e)
      /\ \A j \in Ids \ {i} : ues'[j] = ues[j] /\ timers'[j] = timers[j]
  BY <1>1, <1>2 DEF Rearmed
<1>4. /\ DOMAIN z = {"kind", "attempts", "c"} /\ z["kind"] = k /\ t[k] = 1 /\ t \in [TimerKind -> Nat]
  BY <1>1, <1>2 DEF SlotContext
<1>5. u = t
  BY <1>1, <1>4 DEF TimerKind
<1>6. /\ y["auth"] = x["auth"] /\ y["state"] = x["state"] /\ y["supi"] = x["supi"]
      /\ y["sec"] = x["sec"] /\ y["tmsi"] = x["tmsi"] /\ y["retx"] = [z EXCEPT !.attempts = @ + 1]
  BY <1>1, <1>2 DEF RegFields
<1>7. PICK w : w = [z EXCEPT !.attempts = @ + 1]
  OBVIOUS
<1>8. DOMAIN w = {"kind", "attempts", "c"} /\ w["kind"] = z["kind"] /\ w["c"] = z["c"]
  BY <1>4, <1>7
<1>9. SlotContext(i, y, u)
  <2>1. /\ x["retx"] # None /\ DOMAIN y["retx"] = {"kind", "attempts", "c"}
        /\ y["retx"]["kind"] = x["retx"]["kind"] /\ y["retx"]["c"] = x["retx"]["c"]
    BY <1>1, <1>6, <1>7, <1>8
  <2>2. SlotContext(i, x, t)
    BY <1>2
  <2>3. /\ y["auth"] = x["auth"] /\ y["state"] = x["state"] /\ y["supi"] = x["supi"]
        /\ y["sec"] = x["sec"] /\ y["tmsi"] = x["tmsi"]
    BY <1>6
  <2>4. SlotContext(i, y, t)
    BY ONLY <2>1, <2>2, <2>3 DEF SlotContext
  <2>q. QED
    BY <1>5, <2>4
<1>10. /\ DOMAIN Answered(i, e) = Ids /\ SlotReplies(i, x, Answered(i, e)[i])
       /\ \A j \in Ids \ {i} : Answered(i, e)[j] = replies[j]
  <2>0. SlotReplies(i, x, replies[i])
    BY <1>1, <1>2
  <2>1. CASE k \notin {"Smc", "Accept"}
    <3>1. e.kind \notin {"Smc", "Accept"}
      BY <1>1, <2>1 DEF Reply
    <3>q. QED
      BY ONLY <1>2, <2>0, <3>1, i \in Ids, SlotAnswered
  <2>2. CASE k = "Smc"
    <3>1. e = Reply("Smc", 0) /\ x["state"] = "SecurityMode" /\ x["tmsi"] = None
      BY <1>1, <1>2, <2>2 DEF SlotContext
    <3>q. QED
      BY ONLY <1>2, <2>0, <3>1, i \in Ids, SlotAnswered
  <2>3. CASE k = "Accept"
    <3>1. e.kind = "Accept" /\ x["sec"] = TRUE /\ x["tmsi"] = i
      BY <1>1, <1>2, <2>3 DEF SlotContext, Reply
    <3>q. QED
      BY ONLY <1>2, <2>0, <3>1, i \in Ids, SlotAnswered
  <2>q. QED
    BY <2>1, <2>2, <2>3
<1>11. SlotReplies(i, y, Answered(i, e)[i])
  BY <1>6, <1>10, SlotSame
<1>q. QED
  BY <1>3, <1>9, <1>10, <1>11, SlotMoves

\* The expiries of the registration's own timers.
LEMMA SlotRetxSteps ==
    ASSUME RegistrationAssumption, RegIInv, SlotIInv, NEW i \in Ids, NEW k \in RetxKind, OnNasRetxExpiry(i, k)
    PROVE  SlotIInv'
<1>1. ues[i] # None /\ timers[i][k] > 0 /\ k \in TimerKind /\ k # "Guard" /\ UNCHANGED <<retained, nextId, spent>>
  BY DEF OnNasRetxExpiry, Fires, TimerKind, RetxKind
<1>2. CASE ues[i].retx # None /\ ues[i].retx.kind = k
  <2>1. RetransmitOrGiveUp(i, k, ues[i].retx.attempts, [ues[i] EXCEPT !.retx.attempts = @ + 1],
                           Reply(k, ues[i].retx.c))
    BY <1>2 DEF OnNasRetxExpiry
  <2>2. CASE ImplicitDeregister(i)
    BY <1>1, <2>2, SlotGoes DEF ImplicitDeregister
  <2>3. CASE /\ ues' = [ues EXCEPT ![i] = [ues[i] EXCEPT !.retx.attempts = @ + 1]]
             /\ replies' = Answered(i, Reply(k, ues[i].retx.c)) /\ timers' = Rearmed(i, k)
    BY <1>1, <1>2, <2>3, SlotResends
  <2>q. QED
    BY <2>1, <2>2, <2>3 DEF RetransmitOrGiveUp
<1>3. CASE ~(ues[i].retx # None /\ ues[i].retx.kind = k)
  <2>1. StaleExpiry(i, k)
    BY <1>3 DEF OnNasRetxExpiry
  <2>q. QED
    BY <1>1, <1>3, <2>1, SlotStale DEF StaleExpiry
<1>q. QED
  BY <1>2, <1>3

\* The expiries of T3522 and T3555 leave the registration alone, or end it.
LEMMA SlotOtherExpiries ==
    ASSUME RegistrationAssumption, RegIInv, SlotIInv, NEW i \in Ids, OnT3522Expiry(i) \/ OnT3555Expiry(i)
    PROVE  SlotIInv'
<1>1. PICK k \in {"T3522", "T3555"} : (OnT3522Expiry(i) /\ k = "T3522") \/ (OnT3555Expiry(i) /\ k = "T3555")
  OBVIOUS
<1>2. ues[i] # None /\ timers[i][k] > 0 /\ k \in TimerKind /\ k # "Guard" /\ UNCHANGED <<retained, nextId, spent>>
  BY <1>1 DEF OnT3522Expiry, OnT3555Expiry, Fires, TimerKind
<1>3. /\ SlotContext(i, ues[i], timers[i]) /\ DOMAIN ues[i] = RegFields
  BY <1>2, SlotHas
<1>4. PICK y, n, e : /\ \A f \in {"auth", "state", "retx", "sec", "tmsi", "supi"} : y[f] = ues[i][f]
                     /\ e.kind \notin {"Smc", "Accept"}
                     /\ StaleExpiry(i, k) \/ RetransmitOrGiveUp(i, k, n, y, e)
  <2>1. CASE OnT3522Expiry(i) /\ k = "T3522"
    <3>1. PICK y : y = [ues[i] EXCEPT !.dereg = @ + 1]
      OBVIOUS
    <3>2. \A f \in {"auth", "state", "retx", "sec", "tmsi", "supi"} : y[f] = ues[i][f]
      BY <1>3, <3>1 DEF RegFields
    <3>3. StaleExpiry(i, k) \/ RetransmitOrGiveUp(i, k, ues[i].dereg, y, Reply("Dereg", 0))
      BY <2>1, <3>1 DEF OnT3522Expiry
    <3>4. Reply("Dereg", 0).kind \notin {"Smc", "Accept"}
      BY DEF Reply
    <3>q. QED
      BY <3>2, <3>3, <3>4
  <2>2. CASE OnT3555Expiry(i) /\ k = "T3555"
    <3>1. PICK y : y = [ues[i] EXCEPT !.cfg.attempts = @ + 1]
      OBVIOUS
    <3>2. \A f \in {"auth", "state", "retx", "sec", "tmsi", "supi"} : y[f] = ues[i][f]
      BY <1>3, <3>1 DEF RegFields
    <3>3. StaleExpiry(i, k) \/ RetransmitOrGiveUp(i, k, ues[i].cfg.attempts, y, Reply("Config", ues[i].cfg.no))
      BY <2>2, <3>1 DEF OnT3555Expiry
    <3>4. Reply("Config", ues[i].cfg.no).kind \notin {"Smc", "Accept"}
      BY DEF Reply
    <3>q. QED
      BY <3>2, <3>3, <3>4
  <2>q. QED
    BY <1>1, <2>1, <2>2
<1>5. CASE StaleExpiry(i, k)
  <2>1. ues[i]["retx"] # None => ues[i]["retx"]["kind"] # k
    BY <1>1, <1>3 DEF SlotContext
  <2>q. QED
    BY <1>2, <1>5, <2>1, SlotStale DEF StaleExpiry
<1>6. CASE ImplicitDeregister(i)
  BY <1>2, <1>6, SlotGoes DEF ImplicitDeregister
<1>7. CASE ues' = [ues EXCEPT ![i] = y] /\ replies' = Answered(i, e) /\ timers' = Rearmed(i, k)
  <2>1. PICK m : m = (timers[i][k] - 1) + 1
    OBVIOUS
  <2>2. m \in Nat
    BY <1>2, <1>3, <2>1 DEF SlotContext
  <2>3. timers' = [timers EXCEPT ![i][k] = m]
    BY <1>7, <2>1 DEF Rearmed
  <2>q. QED
    BY <1>1, <1>2, <1>4, <1>7, <2>2, <2>3, SlotSends
<1>q. QED
  BY <1>4, <1>5, <1>6, <1>7 DEF RetransmitOrGiveUp

\* The registration guard: once more, or the registration is evicted.
LEMMA SlotGuardStep ==
    ASSUME RegistrationAssumption, RegIInv, SlotIInv, NEW i \in Ids, OnRegistrationGuardExpiry(i)
    PROVE  SlotIInv'
<1>1. ues[i] # None /\ timers[i]["Guard"] > 0 /\ "Guard" \in TimerKind /\ UNCHANGED <<retained, nextId, spent>>
  BY DEF OnRegistrationGuardExpiry, Fires, TimerKind
<1>2. CASE ues[i].state = "Registered" /\ timers' = Fired(i, "Guard") /\ UNCHANGED <<ues, replies>>
  <2>1. ues[i]["retx"] # None => ues[i]["retx"]["kind"] # "Guard"
    BY <1>1, SlotHas DEF SlotContext
  <2>q. QED
    BY <1>1, <1>2, <2>1, SlotStale
<1>3. CASE ues' = [ues EXCEPT ![i].progress = FALSE] /\ timers' = GuardRearmed(i) /\ UNCHANGED replies
  <2>1. PICK x, t, y, u : /\ x = ues[i] /\ t = timers[i] /\ y = [x EXCEPT !.progress = FALSE]
                          /\ u = [t EXCEPT !["Guard"] = (@ - 1) + 1]
    OBVIOUS
  <2>2. /\ SlotContext(i, x, t) /\ SlotReplies(i, x, replies[i]) /\ DOMAIN x = RegFields
        /\ DOMAIN ues = Ids /\ DOMAIN timers = Ids /\ DOMAIN replies = Ids
    BY <1>1, <2>1, SlotHas
  <2>3. /\ DOMAIN timers' = Ids /\ timers'[i] = u /\ ues'[i] = y
        /\ \A j \in Ids \ {i} : ues'[j] = ues[j] /\ timers'[j] = timers[j]
    BY <1>3, <2>1, <2>2 DEF GuardRearmed, Rearmed
  <2>4. u = t
    BY <1>1, <2>1, <2>2 DEF SlotContext
  <2>5. /\ y["auth"] = x["auth"] /\ y["state"] = x["state"] /\ y["supi"] = x["supi"]
        /\ y["sec"] = x["sec"] /\ y["tmsi"] = x["tmsi"] /\ y["retx"] = x["retx"]
    BY <2>1, <2>2 DEF RegFields
  <2>6. SlotContext(i, y, t)
    BY <2>2, <2>5 DEF SlotContext
  <2>7. SlotReplies(i, y, replies[i])
    BY <2>2, <2>5, SlotSame
  <2>q. QED
    <3>1. /\ DOMAIN replies' = Ids /\ SlotReplies(i, ues'[i], replies'[i]) /\ SlotContext(i, ues'[i], timers'[i])
          /\ \A j \in Ids \ {i} : replies'[j] = replies[j]
      BY <1>3, <2>2, <2>3, <2>4, <2>6, <2>7
    <3>2. \A j \in Ids \ {i} : ues'[j] = ues[j] /\ timers'[j] = timers[j] /\ replies'[j] = replies[j]
      BY <2>3, <3>1
    <3>3. spent'["an"] = spent["an"] /\ UNCHANGED <<retained, nextId>> /\ ues[i] # None /\ DOMAIN timers' = Ids
      BY <1>1, <2>3
    <3>q. QED
      BY ONLY RegIInv, SlotIInv, i \in Ids, <3>1, <3>2, <3>3, SlotMoves
<1>4. CASE ues' = Removed(i) /\ Quiet(i)
  BY <1>1, <1>4, SlotGoes
<1>q. QED
  BY <1>2, <1>3, <1>4 DEF OnRegistrationGuardExpiry

\* The first answer.
LEMMA SlotFirst ==
    ASSUME NEW i, NEW x, NEW e, e.kind \notin {"Smc", "Accept"}
    PROVE  SlotReplies(i, x, <<>>) /\ SlotReplies(i, x, <<e>>)
<1>1. SlotReplies(i, x, <<>>)
  BY DEF SlotReplies
<1>2. SlotMay(i, x, <<>>, e)
  BY DEF SlotMay
<1>3. SlotReplies(i, x, Append(<<>>, e))
  BY <1>1, <1>2, SlotAnswers
<1>4. Append(<<>>, e) = <<e>>
  OBVIOUS
<1>q. QED
  BY <1>1, <1>3, <1>4

\* A registration begins on a fresh connection.
LEMMA SlotInitialStep ==
    ASSUME RegistrationAssumption, RegIInv, SlotIInv, NEW s, NEW a, NEW t, NEW begun, OnInitialUe(s, a, t, begun)
    PROVE  SlotIInv'
<1> USE DEF RegIInv
<1>1. PICK i \in Ids : i = nextId
  BY DEF OnInitialUe
<1>2. PICK supi, k, sends, c, y :
        /\ supi = (IF t = None THEN s ELSE guti[t]) /\ k = (IF supi = None THEN "Identity" ELSE "Auth")
        /\ sends = (IF supi = None \/ begun THEN 1 ELSE 0)
        /\ c = NewContext(IF supi = None THEN "IdentityRequested" ELSE "Identified", supi)
        /\ y = (CASE supi = None -> [c EXCEPT !.retx = Retx(k, 1)]
                  [] supi # None /\ begun -> Challenged(c)
                  [] OTHER -> c)
  OBVIOUS
<1>3. /\ Spend("reg", MaxRegistrations) /\ nextId' = i + 1 /\ ues' = [ues EXCEPT ![i] = y]
      /\ timers' = [timers EXCEPT ![i]["Guard"] = 1, ![i][k] = sends] /\ UNCHANGED retained
      /\ replies' = [replies EXCEPT ![i] = IF sends = 1 THEN <<Reply(k, 1)>> ELSE <<>>]
  <2>1. /\ Spend("reg", MaxRegistrations) /\ nextId' = i + 1 /\ UNCHANGED retained
        /\ timers' = [timers EXCEPT ![i]["Guard"] = 1, ![i][k] = sends]
    BY <1>1, <1>2 DEF OnInitialUe
  <2>2. replies' = [replies EXCEPT ![i] = IF sends = 1 THEN <<Reply(k, 1)>> ELSE <<>>]
    <3>1. replies' = [replies EXCEPT ![i] = IF supi = None \/ begun THEN <<Reply(k, 1)>> ELSE <<>>]
      BY <1>1, <1>2, Zenon DEF OnInitialUe
    <3>2. (supi = None \/ begun) <=> sends = 1
      BY <1>2
    <3>q. QED
      BY <3>1, <3>2
  <2>3. ues' = [ues EXCEPT ![i] = CASE supi = None -> [c EXCEPT !.retx = Retx(k, 1)]
                                    [] supi # None /\ begun -> Challenged(c)
                                    [] OTHER -> c]
    BY <1>1, <1>2, Zenon DEF OnInitialUe
  <2>4. ues' = [ues EXCEPT ![i] = y]
    BY <1>2, <2>3
  <2>q. QED
    BY <2>1, <2>2, <2>4
<1>4. /\ DOMAIN ues = Ids /\ DOMAIN timers = Ids /\ DOMAIN replies = Ids /\ timers[i] = Idle /\ i \in Nat
      /\ nextId \in Nat
  BY <1>1 DEF RegShape, SlotIInv, Ids
<1>5. PICK u : u = [Idle EXCEPT !["Guard"] = 1, ![k] = sends]
  OBVIOUS
<1>6. /\ DOMAIN timers' = Ids /\ DOMAIN replies' = Ids /\ ues'[i] = y /\ timers'[i] = u
      /\ replies'[i] \in {<<Reply(k, 1)>>, <<>>}
      /\ \A j \in Ids \ {i} : ues'[j] = ues[j] /\ timers'[j] = timers[j] /\ replies'[j] = replies[j]
  BY <1>3, <1>4, <1>5
<1>7. k \in {"Identity", "Auth"} /\ sends \in {0, 1}
  BY <1>2
<1>8. /\ u \in [TimerKind -> Nat] /\ u["Guard"] = 1 /\ u["Smc"] = 0 /\ u["Accept"] = 0
      /\ u["Auth"] = (IF k = "Auth" THEN sends ELSE 0) /\ u["Identity"] = (IF k = "Identity" THEN sends ELSE 0)
  BY <1>5, <1>7 DEF Idle, TimerKind, RetxKind
<1>9. SlotContext(i, y, u)
  <2>1. PICK z : z = Retx(k, 1)
    OBVIOUS
  <2>2. DOMAIN z = {"kind", "attempts", "c"} /\ z["kind"] = k /\ 1 # None
    BY <2>1, SlotFields, RegIdNotNone
  <2>3. /\ y["sec"] = FALSE /\ y["tmsi"] = None
        /\ \/ /\ k = "Identity" /\ sends = 1 /\ y["retx"] = z /\ y["state"] = "IdentityRequested"
              /\ y["supi"] = None /\ y["auth"] = None
           \/ k = "Auth" /\ sends = 1 /\ y["retx"] = z /\ y["state"] = "Authenticating" /\ y["auth"] = 1
           \/ k = "Auth" /\ sends = 0 /\ y["retx"] = None /\ y["state"] = "Identified" /\ y["auth"] = None
    <3>1. CASE supi = None
      BY <1>2, <2>1, <3>1 DEF NewContext
    <3>2. CASE supi # None /\ begun
      BY <1>2, <2>1, <3>2 DEF NewContext, Challenged
    <3>3. CASE supi # None /\ ~begun
      BY <1>2, <2>1, <3>3 DEF NewContext
    <3>q. QED
      BY <3>1, <3>2, <3>3
  <2>4. CASE k = "Identity"
    BY <1>8, <2>2, <2>3, <2>4 DEF SlotContext
  <2>5. CASE k = "Auth" /\ sends = 1
    BY <1>8, <2>2, <2>3, <2>5 DEF SlotContext
  <2>6. CASE k = "Auth" /\ sends = 0
    BY <1>8, <2>2, <2>3, <2>6 DEF SlotContext
  <2>q. QED
    BY <1>7, <2>4, <2>5, <2>6
<1>10. SlotReplies(i, y, replies'[i])
  <2>1. Reply(k, 1).kind \notin {"Smc", "Accept"}
    BY <1>7 DEF Reply
  <2>q. QED
    <3>1. SlotReplies(i, y, <<>>) /\ SlotReplies(i, y, <<Reply(k, 1)>>)
      BY <2>1, SlotFirst
    <3>q. QED
      BY <1>6, <3>1
<1>11. spent'["an"] = 0
  BY <1>3 DEF Spend, SlotIInv
<1>12. ASSUME NEW j \in Ids
       PROVE  /\ retained'[j] = None
              /\ ues'[j] # None => SlotContext(j, ues'[j], timers'[j]) /\ SlotReplies(j, ues'[j], replies'[j])
              /\ j >= nextId' => timers'[j] = Idle /\ replies'[j] = <<>>
  <2>1. CASE j = i
    <3>1. ~(j >= nextId')
      BY <1>3, <1>4, <2>1
    <3>2. retained'[j] = None
      BY <1>3 DEF SlotIInv
    <3>q. QED
      BY <1>6, <1>9, <1>10, <2>1, <3>1, <3>2
  <2>2. CASE j # i
    <3>1. j \in Nat /\ (j >= nextId' => j >= nextId)
      BY <1>1, <1>3, <1>4 DEF Ids
    <3>q. QED
      BY <1>3, <1>6, <2>2, <3>1 DEF SlotIInv
  <2>q. QED
    BY <2>1, <2>2
<1>q. QED
  BY <1>6, <1>11, <1>12 DEF SlotIInv, SlotContext, SlotReplies

\* A command of the SBI callbacks is carried out.
LEMMA SlotCommandSteps ==
    ASSUME RegistrationAssumption, RegIInv, RegQueues, SlotIInv, NEW a \in Assocs, Command(a)
    PROVE  SlotIInv'
<1>1. PICK c : c = Head(inbox[a])
  OBVIOUS
<1>2. inbox[a] # <<>> /\ UNCHANGED <<retained, nextId, spent>>
  BY DEF Command, OnAmPolicyUpdate, OnNetworkDeregistration, TakesCmd
<1>3. c \in RegCmds
  <2>1. inbox[a] \in Seq(RegCmds)
    BY DEF RegQueues
  <2>q. QED
    BY <1>1, <1>2, <2>1
<1>4. PICK i \in Ids : i = c.i
  BY <1>3 DEF RegCmds
<1>5. CASE OnAmPolicyUpdate(a)
  <2>1. CASE UNCHANGED <<ues, timers, replies>>
    BY <1>2, <2>1, SlotNothing
  <2>2. CASE /\ ues[i] # None /\ ues' = [ues EXCEPT ![i] = Tracked(@, c.no)] /\ Arms(i, "T3555")
             /\ replies' = Answered(i, Reply("Config", c.no))
    <3>1. PICK y, e, n : y = Tracked(ues[i], c.no) /\ e = Reply("Config", c.no) /\ n = timers[i]["T3555"] + 1
      OBVIOUS
    <3>2. /\ DOMAIN ues[i] = RegFields /\ timers[i] \in [TimerKind -> Nat]
      BY <2>2, SlotHas DEF SlotContext
    <3>3. \A f \in {"auth", "state", "retx", "sec", "tmsi", "supi"} : y[f] = ues[i][f]
      BY <3>1, <3>2 DEF Tracked, RegFields
    <3>4. n \in Nat /\ e.kind \notin {"Smc", "Accept"}
      BY <3>1, <3>2 DEF TimerKind, Reply
    <3>5. /\ ues' = [ues EXCEPT ![i] = y] /\ timers' = [timers EXCEPT ![i]["T3555"] = n]
          /\ replies' = Answered(i, e)
      BY <2>2, <3>1 DEF Arms
    <3>q. QED
      BY <1>2, <2>2, <3>3, <3>4, <3>5, SlotSends
  <2>q. QED
    BY <1>1, <1>4, <1>5, <2>1, <2>2 DEF OnAmPolicyUpdate
<1>6. CASE OnNetworkDeregistration(a)
  <2>1. CASE UNCHANGED <<ues, timers, replies>>
    BY <1>2, <2>1, SlotNothing
  <2>2. CASE /\ ues[i] # None /\ ues' = [ues EXCEPT ![i] = [SmRefsTaken(@) EXCEPT !.dereg = 1]]
             /\ Arms(i, "T3522") /\ replies' = Answered(i, Reply("Dereg", 0))
    <3>1. PICK y, e, n : /\ y = [SmRefsTaken(ues[i]) EXCEPT !.dereg = 1] /\ e = Reply("Dereg", 0)
                         /\ n = timers[i]["T3522"] + 1
      OBVIOUS
    <3>2. /\ DOMAIN ues[i] = RegFields /\ timers[i] \in [TimerKind -> Nat]
      BY <2>2, SlotHas DEF SlotContext
    <3>3. \A f \in {"auth", "state", "retx", "sec", "tmsi", "supi"} : y[f] = ues[i][f]
      BY <3>1, <3>2 DEF SmRefsTaken, RegFields
    <3>4. n \in Nat /\ e.kind \notin {"Smc", "Accept"}
      BY <3>1, <3>2 DEF TimerKind, Reply
    <3>5. /\ ues' = [ues EXCEPT ![i] = y] /\ timers' = [timers EXCEPT ![i]["T3522"] = n]
          /\ replies' = Answered(i, e)
      BY <2>2, <3>1 DEF Arms
    <3>q. QED
      BY <1>2, <2>2, <3>3, <3>4, <3>5, SlotSends
  <2>3. CASE ues[i] # None /\ ues' = Removed(i) /\ Quiet(i)
    BY <1>2, <2>3, SlotGoes
  <2>q. QED
    BY <1>1, <1>4, <1>6, <2>1, <2>2, <2>3 DEF OnNetworkDeregistration
<1>q. QED
  BY <1>5, <1>6 DEF Command

\* An association drops with its connections.
LEMMA SlotLossStep ==
    ASSUME RegQueues, SlotIInv, NEW a \in Assocs, OnAssociationLost(a)
    PROVE  SlotIInv'
<1>1. /\ Spend("loss", MaxLosses) /\ UNCHANGED <<retained, nextId>>
      /\ DOMAIN timers' = Ids /\ DOMAIN replies' = Ids
      /\ \A j \in Ids : \/ ues'[j] = ues[j] /\ timers'[j] = timers[j] /\ replies'[j] = replies[j]
                        \/ ues'[j] = None /\ timers'[j] = Idle /\ replies'[j] = <<>>
  BY DEF OnAssociationLost
<1>2. spent'["an"] = 0
  BY <1>1 DEF Spend, SlotIInv, RegQueues
<1>3. ASSUME NEW j \in Ids
      PROVE  /\ retained'[j] = None
             /\ ues'[j] # None => SlotContext(j, ues'[j], timers'[j]) /\ SlotReplies(j, ues'[j], replies'[j])
             /\ j >= nextId' => timers'[j] = Idle /\ replies'[j] = <<>>
  BY <1>1 DEF SlotIInv
<1>q. QED
  BY <1>1, <1>2, <1>3 DEF SlotIInv, SlotContext, SlotReplies

\* What the SBI side does does not touch the connections.
LEMMA SlotOutsideSteps ==
    ASSUME RegQueues, SlotIInv, NEW s \in Supis, AmPolicyNotify(s) \/ DeregNotify(s) \/ \E op \in {"register", "purge"} : UecmCall(s, op)
    PROVE  SlotIInv'
<1>1. UNCHANGED <<ues, nextId, timers, replies>>
  BY DEF AmPolicyNotify, DeregNotify, UecmCall, envVars
<1>2. UNCHANGED retained
  BY DEF AmPolicyNotify, DeregNotify, UecmCall, SlotIInv
<1>3. spent'["an"] = spent["an"]
  BY DEF AmPolicyNotify, DeregNotify, UecmCall, Spend, envVars, RegQueues, RegBounds
<1>q. QED
  BY <1>1, <1>2, <1>3, SlotNothing

\* Without AN releases the invariant survives every step.
LEMMA SlotNextIInv ==
    ASSUME RegistrationAssumption, MaxAnReleases = 0, RegIInv, RegQueues, SlotIInv, [Next]_vars
    PROVE  SlotIInv'
<1>0. \A t \in Ids : retained[t] = None
  BY DEF SlotIInv
<1>1. CASE UNCHANGED vars
  BY <1>1, SlotNothing DEF vars, amfVars, envVars
<1>2. ASSUME NEW i \in Ids, Uplink(i) PROVE SlotIInv'
  <2>1. ~OnUeContextReleaseRequest(i)
    BY DEF OnUeContextReleaseRequest, Spend, SlotIInv
  <2>2. CASE DiscardUnprotected(i) \/ LoseReply(i) \/ (OnDeregistrationAccept(i) /\ ues[i].dereg = None)
    <3>1. replies[i] # <<>> /\ replies' = Taken(i) /\ UNCHANGED <<ues, retained, nextId, timers, spent>>
      BY <2>2 DEF DiscardUnprotected, LoseReply, OnDeregistrationAccept, Gets, amfVars
    <3>q. QED
      BY <3>1, SlotTakingSteps
  <2>3. CASE (\E ok \in BOOLEAN : OnIdentityResponse(i, ok) \/ OnAuthenticationResponse(i, ok)) \/ Resynchronise(i)
    BY <2>3, SlotIdentityStep, SlotAuthenticationStep, SlotResynchroniseStep
  <2>4. CASE (\E pcfUp \in BOOLEAN : OnSecurityModeComplete(i, pcfUp)) \/ OnRegistrationComplete(i)
             \/ OnConfigurationUpdateComplete(i) \/ OnUlNasTransport(i)
    BY <2>4, SlotAcceptStep, SlotCompleteStep, SlotAsideStep
  <2>5. CASE RejectAuthentication(i) \/ AbortAuthentication(i) \/ OnDeregistration(i)
             \/ (\E pcfUp \in BOOLEAN : RejectRegistration(i, pcfUp))
             \/ (OnDeregistrationAccept(i) /\ ues[i].dereg # None)
    BY <2>5, SlotEndSteps
  <2>q. QED
    BY <1>2, <2>1, <2>2, <2>3, <2>4, <2>5 DEF Uplink
<1>3. ASSUME NEW i \in Ids, Expiry(i) PROVE SlotIInv'
  BY <1>3, SlotRetxSteps, SlotOtherExpiries, SlotGuardStep DEF Expiry
<1>4. ASSUME NEW s \in Supis, NEW a \in Assocs, Arrival(s, a) PROVE SlotIInv'
  <2>1. \A t \in Held(s), update \in BOOLEAN : ~OnServiceRequest(s, a, t, update) /\ ~RejectService(s, a, t)
    BY <1>0 DEF OnServiceRequest, RejectService, Held
  <2>q. QED
    BY <1>4, <2>1, SlotInitialStep DEF Arrival
<1>5. ASSUME NEW a \in Assocs, Command(a) \/ OnAssociationLost(a) PROVE SlotIInv'
  BY <1>5, SlotCommandSteps, SlotLossStep
<1>6. ASSUME NEW t \in Ids, Sweep(t) PROVE SlotIInv'
  <2>1. ~EvictStaleRetained(t)
    BY <1>0 DEF EvictStaleRetained
  <2>2. UNCHANGED <<ues, retained, nextId, timers, replies>> /\ spent'["an"] = spent["an"]
    BY <1>6, <2>1 DEF Sweep, EvictedIsReleased, EvictedIsPurged, envVars
  <2>q. QED
    BY <2>2, SlotNothing
<1>7. ASSUME NEW s \in Supis, AmPolicyNotify(s) \/ DeregNotify(s) \/ \E op \in {"register", "purge"} : UecmCall(s, op)
      PROVE  SlotIInv'
  BY <1>7, SlotOutsideSteps
<1>q. QED
  BY <1>1, <1>2, <1>3, <1>4, <1>5, <1>6, <1>7 DEF Next

\* At start-up there is no connection.
LEMMA SlotInit == Init => SlotIInv
BY DEF Init, SlotIInv

\* Where no AN release takes a UE away from its timers, for any subscribers, associations
\* and bounds: whatever order answers, losses, expiries, commands and failures come in, the
\* one pending_retx slot has the message the registration waits for, one timer runs for it,
\* and an unfinished registration has its guard (transmit_with_retx, on_nas_retx_expiry,
\* on_registration_guard_expiry).
THEOREM OneSlotIsEnough ==
    ASSUME RegistrationAssumption, MaxAnReleases = 0
    PROVE  Init /\ [][Next]_vars => []SlotFollowsRegistration
<1>1. Init => RegIInv /\ RegQueues /\ SlotIInv
  <2>1. Init => RegQueues
    BY DEF Init, RegQueues, RegBounds
  <2>q. QED
    BY <2>1, RegInitIInv, SlotInit
<1>2. RegIInv /\ RegQueues /\ SlotIInv /\ [Next]_vars => (RegIInv /\ RegQueues /\ SlotIInv)'
  BY RegNextIInv, RegQueueSteps, SlotNextIInv
<1>3. SlotIInv => SlotFollowsRegistration
  <2>1. ASSUME NEW i \in Ids, NEW x, NEW t, SlotContext(i, x, t)
        PROVE  /\ x.retx # None =>
                     CASE x.retx.kind = "Identity" -> x.state = "IdentityRequested" /\ x.supi = None
                       [] x.retx.kind = "Auth" -> x.state = "Authenticating" /\ x.auth # None
                       [] x.retx.kind = "Smc" -> x.state = "SecurityMode" /\ x.sec /\ x.tmsi = None
                       [] OTHER -> x.state = "SecurityMode" /\ x.tmsi = i
               /\ x.retx # None => t[x.retx.kind] = 1
               /\ x.state # "Registered" => t["Guard"] = 1
    BY <2>1 DEF SlotContext
  <2>q. QED
    BY <2>1 DEF SlotIInv, SlotFollowsRegistration
<1>q. QED
  BY <1>1, <1>2, <1>3, PTL

=============================================================================
