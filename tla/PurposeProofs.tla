---------------------------- MODULE PurposeProofs ----------------------------
(* Proofs about the versions of purposes, for any number of purposes and of  *)
(* versions, any quotas, and whoever owns the purposes and is delegated.     *)
EXTENDS PurposeProcess, FiniteSetTheorems, WellFoundedInduction, TLAPS

PurposeValue == [versions: Seq(Version), byConsumer: BOOLEAN, byProducer: BOOLEAN]

\* The versions of x that are in one of the states.
Places(states, x) == {i \in DOMAIN x.versions : x.versions[i].state \in states}

\* A purpose p may look like x: one version is in use, only the newest waits,
\* a draft is alone, and a suspension is somebody's.  A producer's own purpose
\* has no suspension by its consumer: lifting the producer's is enough.
Sound(x, p) ==
  /\ x \in PurposeValue
  /\ Len(x.versions) <= MaxVersions[p]
  /\ x.versions = <<>> => x = Absent
  /\ \A i, j \in Places(InUse, x) : i = j
  /\ Places(Pending, x) \subseteq {Len(x.versions)}
  /\ Places({"draft"}, x) # {} => Len(x.versions) = 1
  /\ Places({"suspended"}, x) # {} => x.byConsumer \/ x.byProducer
  /\ Owner[p] = Producer => ~x.byConsumer

Inv ==
  /\ purpose \in [Purposes -> PurposeValue]
  /\ \A p \in Purposes : Sound(purpose[p], p)
  /\ agreement \in [Consumers -> Descriptor \cup {None}]
  /\ delegated \in BOOLEAN /\ misread \in BOOLEAN

\* What a step from x to y never does: lift a suspension or end a wait while
\* somebody suspends the purpose, or change what has ended.
Proper(x, y) ==
  /\ \A i \in Places({"suspended", "waitingForApproval"}, x) :
       i \in DOMAIN y.versions /\ y.versions[i].state = "active"
       => ~y.byConsumer /\ ~y.byProducer
  /\ x.versions # <<>> /\ Places(InUse \cup Pending, x) = {} => y = x

\* A handler's step: it gives p a sound value, by a proper change.
Handled(p) ==
  /\ \E y : Save(p, y) /\ Sound(y, p) /\ Proper(purpose[p], y)
  /\ misread' \in BOOLEAN

-----------------------------------------------------------------------------
(* The operators the handlers are built from *)

\* A nonempty set of places in a list has a greatest one.
LEMMA GreatestPlace ==
  ASSUME NEW n \in Nat, NEW S \in SUBSET (1..n), S # {}
  PROVE  Max(S) \in S
<1> DEFINE Bounds == {b \in Nat : \A i \in S : i <= b}
<1>1. n \in Bounds
  OBVIOUS
<1>2. PICK b \in Bounds : \A c \in Bounds : ~(<<c, b>> \in OpToRel(<, Nat))
  <2>1. Bounds \subseteq Nat /\ Bounds # {}
    BY <1>1
  <2> HIDE DEF Bounds
  <2> QED BY <2>1, WFMin, NatLessThanWellFounded
<1>3. b \in S
  <2>1. SUFFICES ASSUME b \notin S PROVE FALSE
    OBVIOUS
  <2>2. b - 1 \in Bounds
    <3>1. \A i \in S : i \in Nat /\ i >= 1 /\ i # b
      BY <2>1
    <3>. PICK k \in S : TRUE
      OBVIOUS
    <3>3. b \in Nat /\ \A i \in S : i <= b
      OBVIOUS
    <3>2. b >= 1 /\ \A i \in S : i <= b - 1
      BY <3>1, <3>3
    <3> QED BY <3>2, <3>3
  <2>3. <<b - 1, b>> \in OpToRel(<, Nat)
    BY <2>2 DEF OpToRel
  <2> QED BY <1>2, <2>2, <2>3
<1>4. \A i \in S : b >= i
  OBVIOUS
<1> QED BY <1>3, <1>4 DEF Max

\* Counting up to m.
LEMMA CountTo == \A m \in Nat : Cardinality(1..m) = m
<1> SUFFICES ASSUME NEW m \in Nat PROVE Cardinality(1..m) = m
  OBVIOUS
<1>1. 1 \in Int /\ m \in Int
  OBVIOUS
<1>2. Cardinality(1..m) = IF 1 > m THEN 0 ELSE m - 1 + 1
  BY <1>1, FS_Interval
<1> QED BY <1>2

\* Replacing the state of one version.
LEMMA SetStateShape ==
  ASSUME NEW s \in Seq(Version), NEW i \in DOMAIN s, NEW state \in VersionState
  PROVE  /\ SetState(s, i, state) \in Seq(Version)
         /\ Len(SetState(s, i, state)) = Len(s)
         /\ DOMAIN SetState(s, i, state) = DOMAIN s
         /\ SetState(s, i, state)[i].state = state
         /\ \A j \in DOMAIN s \ {i} : SetState(s, i, state)[j] = s[j]
<1> DEFINE v == [s[i] EXCEPT !.state = state]
<1>1. s[i] \in Version
  OBVIOUS
<1>2. v \in Version /\ v.state = state
  BY <1>1 DEF Version
<1>3. SetState(s, i, state) = [s EXCEPT ![i] = v]
  BY DEF SetState
<1> HIDE DEF v
<1> QED BY <1>2, <1>3

\* Archiving what is in use.
LEMMA ArchiveShape ==
  ASSUME NEW s \in Seq(Version)
  PROVE  LET t == archiveActiveAndSuspended(s) IN
         /\ t \in Seq(Version) /\ Len(t) = Len(s) /\ DOMAIN t = DOMAIN s
         /\ \A i \in DOMAIN s :
              t[i].state = IF s[i].state \in InUse THEN "archived" ELSE s[i].state
<1> DEFINE t == archiveActiveAndSuspended(s)
<1>1. ASSUME NEW i \in DOMAIN s
      PROVE  /\ t[i] \in Version
             /\ t[i].state = IF s[i].state \in InUse THEN "archived" ELSE s[i].state
  <2>1. s[i] \in Version
    OBVIOUS
  <2>2. CASE s[i].state \in InUse
    <3>1. t[i] = [s[i] EXCEPT !.state = "archived"]
      BY <2>2 DEF archiveActiveAndSuspended
    <3> HIDE DEF t
    <3> QED BY <2>1, <2>2, <3>1 DEF Version, VersionState
  <2>3. CASE s[i].state \notin InUse
    BY <2>1, <2>3 DEF archiveActiveAndSuspended
  <2> QED BY <2>2, <2>3
<1>2. DOMAIN t = 1..Len(s)
  BY DEF archiveActiveAndSuspended
<1>3. t = [i \in 1..Len(s) |-> t[i]]
  BY DEF archiveActiveAndSuspended
<1> HIDE DEF t
<1>4. t \in [1..Len(s) -> Version] /\ Len(s) \in Nat
  <2>1. DOMAIN s = 1..Len(s) /\ Len(s) \in Nat
    OBVIOUS
  <2>2. \A i \in 1..Len(s) : t[i] \in Version
    BY <1>1, <2>1
  <2> QED BY <1>3, <2>1, <2>2
<1>5. t \in Seq(Version) /\ Len(t) = Len(s)
  BY <1>4
<1> QED BY <1>1, <1>2, <1>5 DEF t

\* Where only the newest version may wait, the others are what is kept.
LEMMA KeptShape ==
  ASSUME NEW s \in Seq(Version),
         \A i \in DOMAIN s : s[i].state = "waitingForApproval" => i = Len(s)
  PROVE  LET t == withoutWaitingForApproval(s) IN
         /\ t \in Seq(Version)
         /\ Len(t) <= Len(s) /\ Len(t) + 1 >= Len(s)
         /\ \A i \in 1..Len(t) : t[i] = s[i] /\ t[i].state # "waitingForApproval"
         /\ \A i \in 1..Len(s) : i > Len(t) => s[i].state = "waitingForApproval"
<1> DEFINE kept == {i \in DOMAIN s : s[i].state # "waitingForApproval"}
           Nth(n) == CHOOSE i \in kept : Cardinality({j \in kept : j <= i}) = n
           t == withoutWaitingForApproval(s)
<1>1. PICK m \in Nat : /\ kept = 1..m /\ m <= Len(s) /\ m + 1 >= Len(s)
                       /\ \A i \in 1..Len(s) : i > m => s[i].state = "waitingForApproval"
  <2>0. DOMAIN s = 1..Len(s) /\ Len(s) \in Nat
    OBVIOUS
  <2>1. CASE \A i \in 1..Len(s) : s[i].state # "waitingForApproval"
    <3>1. kept = 1..Len(s)
      BY <2>0, <2>1
    <3> QED BY <2>0, <3>1
  <2>2. CASE \E i \in 1..Len(s) : s[i].state = "waitingForApproval"
    <3>1. PICK i \in 1..Len(s) : s[i].state = "waitingForApproval"
      BY <2>2
    <3>2. i = Len(s) /\ Len(s) - 1 \in Nat
      BY <3>1
    <3>3. \A j \in 1..Len(s) : j \in kept <=> j # Len(s)
      BY <3>1, <3>2
    <3>4. kept = 1..(Len(s) - 1)
      BY <3>2, <3>3
    <3> QED BY <3>1, <3>2, <3>4
  <2> QED BY <2>1, <2>2
<1>2. Cardinality(kept) = m
  BY <1>1, CountTo
<1>3. ASSUME NEW i \in 1..m PROVE Cardinality({j \in kept : j <= i}) = i
  <2>1. {j \in kept : j <= i} = 1..i
    BY <1>1
  <2>2. i \in Nat
    OBVIOUS
  <2> HIDE DEF kept
  <2>3. Cardinality(1..i) = i
    BY <2>2, CountTo
  <2> QED BY <2>1, <2>3
<1>4. ASSUME NEW n \in 1..m PROVE Nth(n) = n
  <2>1. \A i \in kept : Cardinality({j \in kept : j <= i}) = n <=> i = n
    BY <1>1, <1>3
  <2>2. n \in kept
    BY <1>1
  <2> HIDE DEF kept
  <2> QED BY <2>1, <2>2
<1>5. t = [n \in 1..Cardinality(kept) |-> s[Nth(n)]]
  BY DEF withoutWaitingForApproval
<1> HIDE DEF t
<1>6. t = [n \in 1..m |-> s[n]]
  <2> HIDE DEF kept, Nth
  <2> QED BY <1>2, <1>4, <1>5
<1>7. \A i \in 1..m : s[i].state # "waitingForApproval"
  BY <1>1
<1> HIDE DEF kept, Nth
<1>8. t \in Seq(Version) /\ Len(t) = m
  BY <1>1, <1>6
<1> QED BY <1>1, <1>6, <1>7, <1>8 DEF t

-----------------------------------------------------------------------------
(* What each handler does to its purpose *)

\* A purpose with other versions.
LEMMA WithVersions ==
  ASSUME NEW x \in PurposeValue, NEW s
  PROVE  [x EXCEPT !.versions = s]
           = [versions |-> s, byConsumer |-> x.byConsumer, byProducer |-> x.byProducer]
  BY DEF PurposeValue

\* A purpose with another flag.
LEMMA WithFlags ==
  ASSUME NEW x \in PurposeValue, NEW h
  PROVE  /\ [x EXCEPT !.byConsumer = h]
              = [versions |-> x.versions, byConsumer |-> h, byProducer |-> x.byProducer]
         /\ [x EXCEPT !.byProducer = h]
              = [versions |-> x.versions, byConsumer |-> x.byConsumer, byProducer |-> h]
  BY DEF PurposeValue

\* A purpose that is in preparation alone, or was just made.
LEMMA DraftIsSound ==
  ASSUME Inv, NEW p \in Purposes, NEW v \in Version, v.state = "draft",
         NEW f \in BOOLEAN, NEW g \in BOOLEAN, Owner[p] = Producer => ~f
  PROVE  Sound([versions |-> <<v>>, byConsumer |-> f, byProducer |-> g], p)
<1> DEFINE y == [versions |-> <<v>>, byConsumer |-> f, byProducer |-> g]
<1>1. y.versions = <<v>> /\ y.byConsumer = f /\ y.byProducer = g /\ y \in PurposeValue
  BY DEF PurposeValue
<1>2. MaxVersions[p] \in Nat /\ MaxVersions[p] >= 1
  BY QuotaAssumption
<1> HIDE DEF y
<1>3. Len(y.versions) = 1 /\ DOMAIN y.versions = {1} /\ y.versions[1].state = "draft"
  BY <1>1
<1> QED BY <1>1, <1>2, <1>3 DEF Sound, Places, InUse, Pending, y

\* Nothing is in use or ended that a draft or an absent purpose could lose.
LEMMA ProperFromDraft ==
  ASSUME NEW x, NEW y, x.versions = <<>> \/ Places({"draft"}, x) # {},
         Places({"suspended", "waitingForApproval"}, x) = {}
  PROVE  Proper(x, y)
  BY DEF Proper, Places, Pending

LEMMA CreateHandled ==
  ASSUME Inv, NEW p \in Purposes, NEW calls \in Calls, ~Exists(p),
         Save(p, [Absent EXCEPT !.versions = <<[state |-> "draft", calls |-> calls]>>]),
         misread' = FALSE
  PROVE  Handled(p)
<1> DEFINE v == [state |-> "draft", calls |-> calls]
           y == [versions |-> <<v>>, byConsumer |-> FALSE, byProducer |-> FALSE]
<1>2. v \in Version /\ v.state = "draft"
  BY DEF Version, VersionState
<1> HIDE DEF v
<1>1. [Absent EXCEPT !.versions = <<v>>] = y
  <2>1. Absent \in PurposeValue /\ Absent.byConsumer = FALSE /\ Absent.byProducer = FALSE
    BY DEF Absent, PurposeValue
  <2> QED BY <2>1, WithVersions
<1>3. Sound(y, p)
  BY <1>2, DraftIsSound
<1>4. Save(p, y)
  BY <1>1 DEF v
<1>5. Proper(purpose[p], y)
  <2>1. purpose[p].versions = <<>>
    BY DEF Exists
  <2>2. Places({"suspended", "waitingForApproval"}, purpose[p]) = {}
    BY <2>1 DEF Places
  <2> HIDE DEF y
  <2> QED BY <2>1, <2>2, ProperFromDraft
<1> QED BY <1>3, <1>4, <1>5 DEF Handled

\* The version a clone is made from exists.
LEMMA ClonedPlace ==
  ASSUME Inv, NEW q \in Purposes, Exists(q)
  PROVE  VersionToClone(q) \in DOMAIN purpose[q].versions
<1>1. purpose[q].versions \in Seq(Version) /\ purpose[q].versions # <<>>
  BY DEF Inv, PurposeValue, Exists
<1> DEFINE n == Len(purpose[q].versions)
           S == In(VersionState \ {"waitingForApproval"}, q)
<1>2. n \in Nat /\ n >= 1 /\ DOMAIN purpose[q].versions = 1..n
  BY <1>1
<1>3. S \in SUBSET (1..n)
  BY <1>2 DEF In
<1>4. S # {} => Max(S) \in S
  <2> HIDE DEF S, n
  <2> QED BY <1>2, <1>3, GreatestPlace
<1>5. VersionToClone(q) = IF S # {} THEN Max(S) ELSE n
  BY DEF VersionToClone
<1> HIDE DEF S, n
<1>6. VersionToClone(q) \in 1..n
  <2>1. CASE S # {}
    BY <1>3, <1>4, <1>5, <2>1
  <2>2. CASE S = {}
    BY <1>2, <1>5, <2>2
  <2> QED BY <2>1, <2>2
<1> QED BY <1>2, <1>6

LEMMA DraftHandled ==
  ASSUME Inv, NEW p \in Purposes, Draft(p)
  PROVE  Handled(p)
<1>0. purpose[p] \in PurposeValue /\ Sound(purpose[p], p)
  BY DEF Inv
<1>1. ASSUME NEW calls \in Calls, CreatePurpose(p, calls) PROVE Handled(p)
  BY <1>1, CreateHandled DEF CreatePurpose
<1>2. ASSUME NEW q \in Purposes, ClonePurpose(q, p) PROVE Handled(p)
  <2>1. VersionToClone(q) \in DOMAIN purpose[q].versions /\ purpose[q].versions \in Seq(Version)
    BY <1>2, ClonedPlace DEF ClonePurpose, Inv, PurposeValue
  <2>2. purpose[q].versions[VersionToClone(q)] \in Version
    BY <2>1
  <2>3. purpose[q].versions[VersionToClone(q)].calls \in Calls
    BY <2>2 DEF Version
  <2> QED BY <1>2, <2>3, CreateHandled DEF ClonePurpose
<1>3. ASSUME NEW calls \in Calls, UpdatePurpose(p, calls) PROVE Handled(p)
  <2> DEFINE x == purpose[p]
             v == [x.versions[1] EXCEPT !.calls = calls]
             y == [versions |-> <<v>>, byConsumer |-> x.byConsumer, byProducer |-> x.byProducer]
  <2>1. x.versions \in Seq(Version) /\ Len(x.versions) >= 1 /\ DOMAIN x.versions = 1..Len(x.versions)
    BY <1>0, <1>3 DEF UpdatePurpose, Exists, PurposeValue
  <2>2. \A i \in DOMAIN x.versions : x.versions[i].state = "draft"
    <3>1. \A i \in DOMAIN x.versions : x.versions[i] \in Version
      BY <2>1
    <3>2. \A i \in DOMAIN x.versions : x.versions[i].state \notin VersionState \ {"draft"}
      BY <1>3 DEF UpdatePurpose, purposeIsDraft, In
    <3> QED BY <3>1, <3>2 DEF Version
  <2>3. 1 \in DOMAIN x.versions /\ x.versions[1] \in Version
    BY <2>1
  <2>4. v \in Version /\ v.state = "draft"
    BY <2>2, <2>3 DEF Version
  <2>5. Save(p, y)
    BY <1>0, <1>3, WithVersions DEF UpdatePurpose, SaveVersions
  <2>6. Sound(y, p)
    <3> HIDE DEF v
    <3>1. x.byConsumer \in BOOLEAN /\ x.byProducer \in BOOLEAN /\ (Owner[p] = Producer => ~x.byConsumer)
      BY <1>0 DEF Sound, PurposeValue
    <3> QED BY <2>4, <3>1, DraftIsSound
  <2>7. Proper(x, y)
    <3>1. Places({"draft"}, x) # {} /\ Places({"suspended", "waitingForApproval"}, x) = {}
      BY <2>2, <2>3 DEF Places
    <3> HIDE DEF y
    <3> QED BY <3>1, ProperFromDraft
  <2> QED BY <1>3, <2>5, <2>6, <2>7 DEF UpdatePurpose, Handled
<1>4. ASSUME DeletePurpose(p) PROVE Handled(p)
  <2>1. Sound(Absent, p)
    BY QuotaAssumption DEF Sound, Absent, PurposeValue, Places
  <2>2. Proper(purpose[p], Absent)
    <3>1. Absent.versions = <<>> /\ DOMAIN Absent.versions = {}
      BY DEF Absent
    <3>2. purpose[p].versions \in Seq(Version)
      BY <1>0 DEF PurposeValue
    <3>3. purpose[p].versions = <<>> \/ 1 \in DOMAIN purpose[p].versions
      BY <3>2
    <3>4. purpose[p].versions = <<>> \/ Places(InUse \cup Pending, purpose[p]) # {}
      BY <1>4, <3>3 DEF DeletePurpose, In, Places
    <3> QED BY <3>1, <3>4 DEF Proper
  <2> QED BY <1>4, <2>1, <2>2 DEF DeletePurpose, Handled
<1> QED BY <1>1, <1>2, <1>3, <1>4 DEF Draft

\* Setting the state of one version, of which there is one in use or waiting.
LEMMA SetStateHandled ==
  ASSUME Inv, NEW p \in Purposes, NEW i \in DOMAIN purpose[p].versions,
         NEW state \in VersionState \ {"draft"}, NEW f \in BOOLEAN, NEW g \in BOOLEAN,
         Owner[p] = Producer => ~f,
         purpose[p].versions[i].state \in InUse \cup Pending,
         state \in InUse => purpose[p].versions[i].state \in InUse,
         state = "waitingForApproval" => purpose[p].versions[i].state = "draft",
         state = "suspended" => f \/ g,
         state = "active" => purpose[p].versions[i].state = "suspended" /\ ~f /\ ~g,
         state \notin InUse => f = purpose[p].byConsumer /\ g = purpose[p].byProducer,
         Save(p, [versions |-> SetState(purpose[p].versions, i, state),
                  byConsumer |-> f, byProducer |-> g]),
         misread' \in BOOLEAN
  PROVE  Handled(p)
<1> DEFINE x == purpose[p]
           s == SetState(x.versions, i, state)
           y == [versions |-> s, byConsumer |-> f, byProducer |-> g]
<1>1. x \in PurposeValue /\ Sound(x, p) /\ x.versions \in Seq(Version)
  BY DEF Inv, PurposeValue
<1>2. /\ s \in Seq(Version) /\ Len(s) = Len(x.versions) /\ DOMAIN s = DOMAIN x.versions
      /\ s[i].state = state /\ \A j \in DOMAIN x.versions \ {i} : s[j] = x.versions[j]
  BY <1>1, SetStateShape
<1>3. Save(p, y)
  OBVIOUS
<1> HIDE DEF s
<1>4. y \in PurposeValue /\ y.versions = s /\ y.byConsumer = f /\ y.byProducer = g
  BY <1>2 DEF PurposeValue
<1> HIDE DEF y
<1>5. Places(InUse, y) \subseteq Places(InUse, x)
  BY <1>2, <1>4 DEF Places
<1>6. Places(Pending, y) \subseteq Places(Pending, x)
  BY <1>2, <1>4 DEF Places, Pending
<1>7. Places({"draft"}, y) \subseteq Places({"draft"}, x)
  BY <1>2, <1>4 DEF Places
<1>8. Places({"suspended"}, y) # {} => f \/ g
  <2>1. SUFFICES ASSUME NEW j \in Places({"suspended"}, y) PROVE f \/ g
    OBVIOUS
  <2>2. CASE j = i
    BY <1>2, <1>4, <2>1, <2>2 DEF Places
  <2>3. CASE j # i
    <3>1. j \in DOMAIN x.versions /\ x.versions[j].state = "suspended"
      BY <1>2, <1>4, <2>1, <2>3 DEF Places
    <3>2. j \in Places({"suspended"}, x) /\ j \in Places(InUse, x)
      BY <3>1 DEF Places, InUse
    <3>3. i \notin Places(InUse, x)
      BY <1>1, <2>3, <3>2 DEF Sound
    <3>4. state \notin InUse
      BY <3>3 DEF Places
    <3> QED BY <1>1, <3>2, <3>4 DEF Sound
  <2> QED BY <2>2, <2>3
<1>9. Sound(y, p)
  <2>1. y.versions # <<>>
    BY <1>1, <1>2, <1>4
  <2> QED BY <1>1, <1>2, <1>4, <1>5, <1>6, <1>7, <1>8, <2>1 DEF Sound
<1>10. Proper(x, y)
  <2>1. i \in Places(InUse \cup Pending, x)
    BY DEF Places
  <2>2. ASSUME NEW j \in Places({"suspended", "waitingForApproval"}, x), j \in DOMAIN s,
               s[j].state = "active"
        PROVE  ~f /\ ~g
    BY <1>2, <2>2 DEF Places
  <2> QED BY <1>4, <2>1, <2>2 DEF Proper
<1> QED BY <1>3, <1>9, <1>10 DEF Handled

\* A version that was in preparation or waiting becomes the one in use.
LEMMA ActivatedHandled ==
  ASSUME Inv, NEW p \in Purposes, NEW i \in DOMAIN purpose[p].versions,
         purpose[p].versions[i].state \in Pending,
         NEW f \in BOOLEAN, NEW g \in BOOLEAN, Owner[p] = Producer => ~f,
         purpose[p].versions[i].state = "waitingForApproval" => ~f /\ ~g,
         Save(p, [versions |-> Activated(p, i), byConsumer |-> f, byProducer |-> g]),
         misread' \in BOOLEAN
  PROVE  Handled(p)
<1> DEFINE x == purpose[p]
           t == archiveActiveAndSuspended(x.versions)
           s == Activated(p, i)
           y == [versions |-> s, byConsumer |-> f, byProducer |-> g]
<1>1. x \in PurposeValue /\ Sound(x, p) /\ x.versions \in Seq(Version)
  BY DEF Inv, PurposeValue
<1>2. /\ t \in Seq(Version) /\ Len(t) = Len(x.versions) /\ DOMAIN t = DOMAIN x.versions
      /\ \A j \in DOMAIN x.versions :
           t[j].state = IF x.versions[j].state \in InUse THEN "archived" ELSE x.versions[j].state
  BY <1>1, ArchiveShape
<1>3. Save(p, y)
  OBVIOUS
<1>4. s = SetState(t, i, "active")
  BY DEF Activated
<1> HIDE DEF t, s
<1>5. /\ s \in Seq(Version) /\ Len(s) = Len(t) /\ DOMAIN s = DOMAIN t
      /\ s[i].state = "active" /\ \A j \in DOMAIN t \ {i} : s[j] = t[j]
  <2>1. "active" \in VersionState /\ i \in DOMAIN t
    BY <1>2 DEF VersionState
  <2> QED BY <1>2, <1>4, <2>1, SetStateShape
<1>6. y \in PurposeValue /\ y.versions = s /\ y.byConsumer = f /\ y.byProducer = g
  BY <1>5 DEF PurposeValue
<1> HIDE DEF y
<1>7. i \in Places(Pending, x) /\ i = Len(x.versions)
  BY <1>1 DEF Places, Sound
<1>8. ASSUME NEW j \in DOMAIN s PROVE s[j].state \in InUse \cup Pending <=> j = i
  <2>1. j # i => s[j].state = IF x.versions[j].state \in InUse THEN "archived" ELSE x.versions[j].state
    BY <1>2, <1>5
  <2>2. j # i => x.versions[j].state \notin Pending
    BY <1>1, <1>2, <1>5, <1>7 DEF Sound, Places
  <2> QED BY <1>5, <2>1, <2>2 DEF InUse, Pending
<1>9. Sound(y, p)
  <2>1. Places(Pending, y) = {} /\ Places({"draft"}, y) = {} /\ Places({"suspended"}, y) = {}
    BY <1>5, <1>6, <1>8 DEF Places, InUse, Pending
  <2>2. y.versions # <<>>
    BY <1>1, <1>2, <1>5, <1>6
  <2>3. \A j \in Places(InUse, y) : j = i
    BY <1>6, <1>8 DEF Places
  <2> QED BY <1>1, <1>2, <1>5, <1>6, <2>1, <2>2, <2>3 DEF Sound
<1>10. Proper(x, y)
  <2>1. i \in Places(InUse \cup Pending, x)
    BY DEF Places
  <2>2. ASSUME NEW j \in Places({"suspended", "waitingForApproval"}, x), j \in DOMAIN s,
               s[j].state = "active"
        PROVE  ~f /\ ~g
    <3>1. j = i
      BY <1>8, <2>2 DEF InUse
    <3> QED BY <1>7, <2>2, <3>1 DEF Places, Pending
  <2> QED BY <1>6, <2>1, <2>2 DEF Proper
<1> QED BY <1>3, <1>9, <1>10 DEF Handled

\* A version is added to versions of which none waits.
LEMMA AppendHandled ==
  ASSUME Inv, NEW p \in Purposes, NEW s \in Seq(Version), NEW v \in Version,
         Len(s) < MaxVersions[p], Len(s) <= Len(purpose[p].versions),
         \A j \in 1..Len(s) : s[j].state \notin Pending,
         \/ /\ v.state = "active" /\ Len(s) = Len(purpose[p].versions)
            /\ \A j \in 1..Len(s) : s[j].state \notin InUse
         \/ /\ v.state = "waitingForApproval" /\ Len(s) >= 1
            /\ \A j \in 1..Len(s) : s[j] = purpose[p].versions[j],
         Places(InUse, purpose[p]) # {},
         SaveVersions(p, Append(s, v)),
         misread' \in BOOLEAN
  PROVE  Handled(p)
<1> DEFINE x == purpose[p]
           t == Append(s, v)
           y == [versions |-> t, byConsumer |-> x.byConsumer, byProducer |-> x.byProducer]
<1>1. x \in PurposeValue /\ Sound(x, p) /\ x.versions \in Seq(Version)
  BY DEF Inv, PurposeValue
<1>2. /\ t \in Seq(Version) /\ Len(t) = Len(s) + 1 /\ DOMAIN t = 1..(Len(s) + 1)
      /\ t[Len(s) + 1] = v /\ \A j \in 1..Len(s) : t[j] = s[j]
  OBVIOUS
<1>3. Save(p, y)
  BY <1>1, WithVersions DEF SaveVersions
<1> HIDE DEF t
<1>4. /\ y \in PurposeValue /\ y.versions = t
      /\ y.byConsumer = x.byConsumer /\ y.byProducer = x.byProducer
  BY <1>1, <1>2 DEF PurposeValue
<1> HIDE DEF y
<1>5. Len(s) \in Nat /\ MaxVersions[p] \in Nat /\ DOMAIN x.versions = 1..Len(x.versions) /\ Len(x.versions) \in Nat
  BY <1>1, QuotaAssumption
<1>6. \A j \in DOMAIN t : j # Len(s) + 1 => j \in 1..Len(s) /\ t[j] = s[j] /\ t[j].state \notin Pending
  BY <1>2, <1>5
<1>7. Sound(y, p)
  <2>1. Places(Pending, y) \subseteq {Len(t)} /\ Places({"draft"}, y) = {}
    BY <1>2, <1>4, <1>6 DEF Places, Pending
  <2>2. t # <<>>
    BY <1>2, <1>5
  <2>3. \A j, k \in Places(InUse, y) : j = k
    <3>1. CASE v.state = "active" /\ \A j \in 1..Len(s) : s[j].state \notin InUse
      BY <1>2, <1>4, <1>6, <3>1 DEF Places
    <3>2. CASE v.state = "waitingForApproval" /\ \A j \in 1..Len(s) : s[j] = x.versions[j]
      <4>1. Places(InUse, y) \subseteq Places(InUse, x)
        BY <1>2, <1>4, <1>5, <1>6, <3>2 DEF Places, InUse
      <4> QED BY <1>1, <4>1 DEF Sound
    <3> QED BY <3>1, <3>2
  <2>4. Places({"suspended"}, y) # {} => Places({"suspended"}, x) # {}
    <3>1. CASE v.state = "active" /\ \A j \in 1..Len(s) : s[j].state \notin InUse
      BY <1>2, <1>4, <1>6, <3>1 DEF Places, InUse
    <3>2. CASE v.state = "waitingForApproval" /\ \A j \in 1..Len(s) : s[j] = x.versions[j]
      <4>1. Places({"suspended"}, y) \subseteq Places({"suspended"}, x)
        BY <1>2, <1>4, <1>5, <1>6, <3>2 DEF Places, InUse
      <4> QED BY <4>1
    <3> QED BY <3>1, <3>2
  <2> QED BY <1>1, <1>2, <1>4, <1>5, <2>1, <2>2, <2>3, <2>4 DEF Sound
<1>8. Proper(x, y)
  <2>1. Places(InUse \cup Pending, x) # {}
    BY DEF Places
  <2>2. ASSUME NEW j \in Places({"suspended", "waitingForApproval"}, x), j \in DOMAIN t,
               t[j].state = "active"
        PROVE  FALSE
    <3>1. j \in 1..Len(x.versions) /\ x.versions[j].state \in {"suspended", "waitingForApproval"}
      BY <1>5 DEF Places
    <3>2. CASE /\ v.state = "active" /\ Len(s) = Len(x.versions)
               /\ \A k \in 1..Len(s) : s[k].state \notin InUse
      <4>1. j = Len(s) + 1
        BY <1>6, <2>2, <3>2 DEF InUse
      <4> QED BY <1>5, <3>1, <3>2, <4>1
    <3>3. CASE v.state = "waitingForApproval" /\ \A k \in 1..Len(s) : s[k] = x.versions[k]
      BY <1>2, <1>6, <2>2, <3>1, <3>3
    <3> QED BY <3>2, <3>3
  <2> QED BY <1>4, <2>1, <2>2 DEF Proper
<1> QED BY <1>3, <1>7, <1>8 DEF Handled

\* The last version is taken away while it waits.
LEMMA DeleteVersionHandled ==
  ASSUME Inv, NEW p \in Purposes, NEW i \in DOMAIN purpose[p].versions, DeletePurposeVersion(p, i)
  PROVE  Handled(p)
<1> DEFINE x == purpose[p]
           t == RemoveAt(x.versions, i)
           y == [versions |-> t, byConsumer |-> x.byConsumer, byProducer |-> x.byProducer]
<1>1. x \in PurposeValue /\ Sound(x, p) /\ x.versions \in Seq(Version)
  BY DEF Inv, PurposeValue
<1>2. /\ i = Len(x.versions) /\ i \in Places(Pending, x) /\ i - 1 \in Nat /\ i - 1 # 0
      /\ DOMAIN x.versions = 1..i
  <2>1. i \in Places(Pending, x)
    BY DEF DeletePurposeVersion, In, Places, Pending
  <2>2. i = Len(x.versions) /\ Len(x.versions) # 1
    BY <1>1, <2>1 DEF Sound, DeletePurposeVersion
  <2> QED BY <1>1, <2>1, <2>2
<1>3. t \in Seq(Version) /\ Len(t) = i - 1 /\ \A j \in 1..(i - 1) : t[j] = x.versions[j]
  BY <1>1, <1>2 DEF RemoveAt
<1>4. Save(p, y)
  BY <1>1, WithVersions DEF DeletePurposeVersion, SaveVersions
<1> HIDE DEF t
<1>5. /\ y \in PurposeValue /\ y.versions = t
      /\ y.byConsumer = x.byConsumer /\ y.byProducer = x.byProducer
  BY <1>1, <1>3 DEF PurposeValue
<1> HIDE DEF y
<1>6. \A j \in DOMAIN t : j \in 1..(i - 1) /\ j \in DOMAIN x.versions /\ j # i /\ t[j] = x.versions[j]
  BY <1>2, <1>3
<1>7. /\ Places(InUse, y) \subseteq Places(InUse, x)
      /\ Places({"suspended"}, y) \subseteq Places({"suspended"}, x)
  BY <1>5, <1>6 DEF Places
<1>8. Places(Pending, y) = {} /\ Places({"draft"}, y) = {}
  BY <1>1, <1>2, <1>5, <1>6 DEF Places, Pending, Sound
<1>9. t # <<>> /\ Len(t) <= Len(x.versions) /\ MaxVersions[p] \in Nat
  <2>1. MaxVersions[p] \in Nat
    BY QuotaAssumption
  <2>2. Len(t) # 0 /\ Len(t) <= Len(x.versions)
    BY <1>2, <1>3
  <2> QED BY <2>1, <2>2
<1>10. Len(t) <= MaxVersions[p]
  BY <1>1, <1>2, <1>3, <1>9 DEF Sound
<1>11. Sound(y, p)
  BY <1>1, <1>5, <1>7, <1>8, <1>9, <1>10 DEF Sound
<1>12. Proper(x, y)
  BY <1>2, <1>5, <1>6 DEF Proper, Places
<1> QED BY <1>4, <1>11, <1>12 DEF Handled, DeletePurposeVersion

\* Archiving leaves nothing in use and nothing waiting.
LEMMA ArchiveHandled ==
  ASSUME Inv, NEW p \in Purposes, NEW i \in DOMAIN purpose[p].versions, ArchivePurposeVersion(p, i)
  PROVE  Handled(p)
<1> DEFINE x == purpose[p]
           s == SetState(x.versions, i, "archived")
           t == withoutWaitingForApproval(s)
           y == [versions |-> t, byConsumer |-> x.byConsumer, byProducer |-> x.byProducer]
<1>1. x \in PurposeValue /\ Sound(x, p) /\ x.versions \in Seq(Version)
  BY DEF Inv, PurposeValue
<1>2. i \in Places(InUse, x)
  BY DEF ArchivePurposeVersion, In, Places
<1>3. /\ s \in Seq(Version) /\ Len(s) = Len(x.versions) /\ DOMAIN s = DOMAIN x.versions
      /\ s[i].state = "archived" /\ \A j \in DOMAIN x.versions \ {i} : s[j] = x.versions[j]
  <2>1. "archived" \in VersionState
    BY DEF VersionState
  <2> QED BY <1>1, <2>1, SetStateShape
<1>4. Save(p, y)
  BY <1>1, WithVersions DEF ArchivePurposeVersion, SaveVersions
<1> HIDE DEF s
<1>5. \A j \in DOMAIN s : s[j].state = "waitingForApproval" => j = Len(s)
  BY <1>1, <1>3 DEF Sound, Places, Pending
<1>6. /\ t \in Seq(Version) /\ Len(t) <= Len(s)
      /\ \A j \in 1..Len(t) : t[j] = s[j] /\ t[j].state # "waitingForApproval"
      /\ \A j \in 1..Len(s) : j > Len(t) => s[j].state = "waitingForApproval"
  BY <1>3, <1>5, KeptShape
<1> HIDE DEF t
<1>7. /\ y \in PurposeValue /\ y.versions = t
      /\ y.byConsumer = x.byConsumer /\ y.byProducer = x.byProducer
  BY <1>1, <1>6 DEF PurposeValue
<1> HIDE DEF y
<1>8. ASSUME NEW j \in 1..Len(t) PROVE t[j].state \notin InUse \cup Pending
  <2>0. j \in DOMAIN s /\ j \in DOMAIN x.versions /\ t[j] = s[j]
    BY <1>3, <1>6
  <2>1. CASE j = i
    BY <1>3, <2>0, <2>1 DEF InUse, Pending
  <2>2. CASE j # i
    <3>1. t[j] = x.versions[j]
      BY <1>3, <2>0, <2>2
    <3>2. t[j].state \notin InUse
      BY <1>1, <1>2, <2>0, <2>2, <3>1 DEF Sound, Places
    <3>3. t[j].state # "draft"
      <4>1. SUFFICES ASSUME t[j].state = "draft" PROVE FALSE
        OBVIOUS
      <4>2. j \in Places({"draft"}, x)
        BY <2>0, <3>1, <4>1 DEF Places
      <4>3. Len(x.versions) = 1
        BY <1>1, <4>2 DEF Sound
      <4> QED BY <1>1, <2>0, <2>2, <4>3
    <3> QED BY <1>6, <3>2, <3>3 DEF Pending
  <2> QED BY <2>1, <2>2
<1>9. t # <<>> /\ Len(t) <= MaxVersions[p]
  <2>1. i \in 1..Len(s) /\ s[i].state # "waitingForApproval"
    BY <1>1, <1>3
  <2>2. Len(t) \in Nat /\ ~(i > Len(t))
    BY <1>6, <2>1
  <2>3. Len(t) # 0
    BY <2>1, <2>2
  <2>4. Len(t) <= MaxVersions[p]
    <3>1. MaxVersions[p] \in Nat /\ Len(x.versions) \in Nat /\ Len(x.versions) <= MaxVersions[p]
      BY <1>1, QuotaAssumption DEF Sound
    <3> QED BY <1>3, <1>6, <2>2, <3>1
  <2> QED BY <2>3, <2>4
<1>10. DOMAIN t = 1..Len(t)
  BY <1>6
<1>11. Places(InUse, y) = {} /\ Places(Pending, y) = {} /\ Places({"draft"}, y) = {}
       /\ Places({"suspended"}, y) = {}
  BY <1>7, <1>8, <1>10 DEF Places, InUse, Pending
<1>12. Sound(y, p)
  BY <1>1, <1>7, <1>9, <1>11 DEF Sound
<1>13. Proper(x, y)
  BY <1>2, <1>7, <1>8, <1>10 DEF Proper, Places, InUse
<1> QED BY <1>4, <1>12, <1>13 DEF Handled, ArchivePurposeVersion

\* A new version, which is active at once or waits beside the one in use.
LEMMA CreateVersionHandled ==
  ASSUME Inv, NEW p \in Purposes, NEW calls \in Calls, NEW over \in BOOLEAN,
         CreatePurposeVersion(p, calls, over)
  PROVE  Handled(p)
<1> DEFINE x == purpose[p]
           old == x.versions
           t == archiveActiveAndSuspended(old)
<1>1. x \in PurposeValue /\ Sound(x, p) /\ old \in Seq(Version) /\ old # <<>>
  BY DEF Inv, PurposeValue, CreatePurposeVersion, Exists
<1>2. Len(old) < MaxVersions[p] /\ Len(old) \in Nat /\ Len(old) >= 1 /\ DOMAIN old = 1..Len(old)
  BY <1>1 DEF CreatePurposeVersion
<1>3. /\ \A j \in 1..Len(old) : old[j].state \notin Pending
      /\ Places(InUse, x) # {}
  <2>1. In(Pending, p) = {} /\ In(InUse, p) # {}
    BY DEF CreatePurposeVersion, previousVersion
  <2> QED BY <1>2, <2>1 DEF In, Places
<1>4. misread' \in BOOLEAN
  BY DEF CreatePurposeVersion, isOverQuota
<1>5. CASE over
  <2> DEFINE v == [state |-> "waitingForApproval", calls |-> calls]
  <2>1. v \in Version /\ v.state = "waitingForApproval"
    BY DEF Version, VersionState
  <2>2. SaveVersions(p, Append(old, v))
    BY <1>5 DEF CreatePurposeVersion
  <2> HIDE DEF v
  <2>3. /\ v.state = "waitingForApproval" /\ Len(old) >= 1
        /\ \A j \in 1..Len(old) : old[j] = purpose[p].versions[j]
    BY <1>2, <2>1
  <2>4. Len(old) <= Len(purpose[p].versions)
    BY <1>2
  <2> HIDE DEF old
  <2> QED BY <1>1, <1>2, <1>3, <1>4, <2>1, <2>2, <2>3, <2>4, AppendHandled
<1>6. CASE ~over
  <2> DEFINE v == [state |-> "active", calls |-> calls]
  <2>1. v \in Version /\ v.state = "active"
    BY DEF Version, VersionState
  <2>2. SaveVersions(p, Append(t, v))
    BY <1>6 DEF CreatePurposeVersion
  <2>3. /\ t \in Seq(Version) /\ Len(t) = Len(old)
        /\ \A j \in DOMAIN old :
             t[j].state = IF old[j].state \in InUse THEN "archived" ELSE old[j].state
    BY <1>1, ArchiveShape
  <2>4. \A j \in 1..Len(t) : t[j].state \notin Pending /\ t[j].state \notin InUse
    <3> HIDE DEF t
    <3> QED BY <1>2, <1>3, <2>3 DEF InUse, Pending
  <2> HIDE DEF v, t
  <2>5. Len(t) < MaxVersions[p] /\ Len(t) <= Len(purpose[p].versions) /\ Len(t) = Len(purpose[p].versions)
    BY <1>2, <2>3
  <2> QED BY <1>3, <1>4, <2>1, <2>2, <2>3, <2>4, <2>5, AppendHandled
<1> QED BY <1>5, <1>6

\* A consumer whose calls no longer fit the quotas has to ask again.
LEMMA AskAgainHandled ==
  ASSUME Inv, NEW p \in Purposes, NEW i \in In({"suspended"}, p), AskAgain(p, i),
         misread' \in BOOLEAN
  PROVE  Handled(p)
<1> DEFINE x == purpose[p]
           t == withoutWaitingForApproval(x.versions)
           v == [state |-> "waitingForApproval", calls |-> x.versions[i].calls]
<1>1. /\ x \in PurposeValue /\ Sound(x, p) /\ x.versions \in Seq(Version)
      /\ DOMAIN x.versions = 1..Len(x.versions) /\ Len(x.versions) \in Nat
  BY DEF Inv, PurposeValue
<1>2. i \in 1..Len(x.versions) /\ x.versions[i] \in Version /\ x.versions[i].state = "suspended"
  BY <1>1 DEF In
<1>3. \A j \in DOMAIN x.versions : x.versions[j].state = "waitingForApproval" => j = Len(x.versions)
  BY <1>1 DEF Sound, Places, Pending
<1>4. /\ t \in Seq(Version) /\ Len(t) <= Len(x.versions)
      /\ \A j \in 1..Len(t) : t[j] = x.versions[j] /\ t[j].state # "waitingForApproval"
      /\ \A j \in 1..Len(x.versions) : j > Len(t) => x.versions[j].state = "waitingForApproval"
  BY <1>1, <1>3, KeptShape
<1>5. v \in Version /\ v.state = "waitingForApproval"
  BY <1>2 DEF Version, VersionState
<1>6. Len(t) < MaxVersions[p] /\ SaveVersions(p, Append(t, v))
  BY DEF AskAgain
<1> HIDE DEF t, v
<1>7. Len(t) \in Nat /\ Len(t) >= 1
  BY <1>2, <1>4
<1>8. \A j \in 1..Len(t) : t[j].state \notin Pending
  <2>1. SUFFICES ASSUME NEW j \in 1..Len(t), t[j].state = "draft" PROVE FALSE
    BY <1>4 DEF Pending
  <2>2. j \in Places({"draft"}, x)
    BY <1>1, <1>4, <1>7, <2>1 DEF Places
  <2>3. Len(x.versions) = 1
    BY <1>1, <2>2 DEF Sound
  <2>4. i = j
    BY <1>1, <1>2, <1>4, <1>7, <2>3
  <2> QED BY <1>2, <1>4, <2>1, <2>4
<1>9. Places(InUse, x) # {}
  BY <1>1, <1>2 DEF Places, InUse
<1> QED BY <1>4, <1>5, <1>6, <1>7, <1>8, <1>9, AppendHandled

LEMMA SuspendHandled ==
  ASSUME Inv, NEW p \in Purposes, NEW i \in DOMAIN purpose[p].versions, NEW org,
         SuspendPurposeVersion(p, i, org)
  PROVE  Handled(p)
<1> DEFINE x == purpose[p]
           suspended == [x EXCEPT !.versions = SetState(@, i, "suspended")]
           s == SetState(x.versions, i, "suspended")
<1>1. /\ x \in PurposeValue /\ x.byConsumer \in BOOLEAN /\ x.byProducer \in BOOLEAN
      /\ (Owner[p] = Producer => ~x.byConsumer)
  BY DEF Inv, PurposeValue, Sound
<1>2. x.versions[i].state \in InUse /\ misread' \in BOOLEAN /\ "suspended" \in VersionState \ {"draft"}
  BY DEF SuspendPurposeVersion, In, VersionState
<1>3. suspended = [versions |-> s, byConsumer |-> x.byConsumer, byProducer |-> x.byProducer]
  BY <1>1, WithVersions
<1>4. \/ /\ getOrganizationRole(org, p) = "consumer"
         /\ Save(p, [suspended EXCEPT !.byConsumer = TRUE])
      \/ Save(p, [suspended EXCEPT !.byProducer = TRUE])
  BY DEF SuspendPurposeVersion
<1>5. getOrganizationRole(org, p) = "consumer" => Owner[p] # Producer
  BY DEF getOrganizationRole
<1> HIDE DEF suspended
<1>6. \/ /\ Owner[p] # Producer
         /\ Save(p, [versions |-> s, byConsumer |-> TRUE, byProducer |-> x.byProducer])
      \/ Save(p, [versions |-> s, byConsumer |-> x.byConsumer, byProducer |-> TRUE])
  <2>1. s \in Seq(Version)
    BY <1>1, <1>2, SetStateShape DEF PurposeValue
  <2> HIDE DEF s
  <2>2. /\ suspended \in PurposeValue /\ suspended.versions = s
        /\ suspended.byConsumer = x.byConsumer /\ suspended.byProducer = x.byProducer
    BY <1>1, <1>3, <2>1 DEF PurposeValue
  <2>3. /\ [suspended EXCEPT !.byConsumer = TRUE]
             = [versions |-> s, byConsumer |-> TRUE, byProducer |-> x.byProducer]
        /\ [suspended EXCEPT !.byProducer = TRUE]
             = [versions |-> s, byConsumer |-> x.byConsumer, byProducer |-> TRUE]
    BY <2>2, WithFlags
  <2> QED BY <1>4, <1>5, <2>3
<1>7. CASE /\ Owner[p] # Producer
           /\ Save(p, [versions |-> s, byConsumer |-> TRUE, byProducer |-> x.byProducer])
  BY <1>1, <1>2, <1>7, SetStateHandled DEF InUse
<1>8. CASE Save(p, [versions |-> s, byConsumer |-> x.byConsumer, byProducer |-> TRUE])
  BY <1>1, <1>2, <1>8, SetStateHandled DEF InUse
<1> QED BY <1>6, <1>7, <1>8

\* Either party lifts its suspension; the version is active when none is left.
LEMMA ResumeHandled ==
  ASSUME Inv, NEW p \in Purposes, NEW i \in In({"suspended"}, p),
         NEW role \in {"consumer", "producer", "selfConsumer"},
         role = "consumer" => Owner[p] # Producer,
         role = "selfConsumer" => Owner[p] = Producer,
         Resume(p, i, role), misread' \in BOOLEAN
  PROVE  Handled(p)
<1> DEFINE x == purpose[p]
           other == \/ x.byConsumer /\ role = "producer"
                    \/ x.byProducer /\ role = "consumer"
           state == IF other THEN "suspended" ELSE "active"
           s == SetState(x.versions, i, state)
           f == IF role = "consumer" THEN FALSE ELSE x.byConsumer
           g == IF role = "consumer" THEN x.byProducer ELSE FALSE
<1>1. x \in PurposeValue /\ Sound(x, p) /\ x.byConsumer \in BOOLEAN /\ x.byProducer \in BOOLEAN
  BY DEF Inv, PurposeValue
<1>2. i \in DOMAIN x.versions /\ x.versions[i].state = "suspended"
  BY DEF In
<1>3. [x EXCEPT !.versions = SetState(@, i, state)]
        = [versions |-> s, byConsumer |-> x.byConsumer, byProducer |-> x.byProducer]
  <2> HIDE DEF state
  <2> QED BY <1>1, WithVersions
<1>4. Save(p, IF role = "consumer"
              THEN [[x EXCEPT !.versions = SetState(@, i, state)] EXCEPT !.byConsumer = FALSE]
              ELSE [[x EXCEPT !.versions = SetState(@, i, state)] EXCEPT !.byProducer = FALSE])
  BY DEF Resume
<1>5. Save(p, [versions |-> s, byConsumer |-> f, byProducer |-> g])
  <2> HIDE DEF s, state
  <2> QED BY <1>3, <1>4
<1>6. f \in BOOLEAN /\ g \in BOOLEAN /\ (Owner[p] = Producer => ~f)
  BY <1>1 DEF Sound
<1>7. /\ state \in VersionState \ {"draft"} /\ state \in InUse /\ state # "waitingForApproval"
      /\ state = "suspended" => f \/ g
      /\ state = "active" => ~f /\ ~g
  BY <1>1 DEF VersionState, InUse, Sound
<1>8. x.versions[i].state \in InUse
  BY <1>2 DEF InUse
<1> HIDE DEF state, f, g
<1> QED BY <1>2, <1>5, <1>6, <1>7, <1>8, SetStateHandled

LEMMA ActivateHandled ==
  ASSUME Inv, NEW p \in Purposes, NEW i \in DOMAIN purpose[p].versions, NEW org,
         ActivatePurposeVersion(p, i, org)
  PROVE  Handled(p)
<1> DEFINE x == purpose[p]
           role == getOrganizationRole(org, p)
<1>1. /\ x \in PurposeValue /\ x.byConsumer \in BOOLEAN /\ x.byProducer \in BOOLEAN
      /\ (Owner[p] = Producer => ~x.byConsumer)
  BY DEF Inv, PurposeValue, Sound
<1>2. /\ role = "consumer" => Owner[p] # Producer
      /\ role = "selfConsumer" => Owner[p] = Producer
  BY DEF getOrganizationRole
<1>3. ASSUME ApprovePurposeVersion(p, i, org) PROVE Handled(p)
  <2>1. x.versions[i].state \in Pending /\ misread' \in BOOLEAN
    BY <1>3 DEF ApprovePurposeVersion, In, Pending
  <2>2. Save(p, [versions |-> Activated(p, i), byConsumer |-> FALSE, byProducer |-> FALSE])
    BY <1>3 DEF ApprovePurposeVersion
  <2> QED BY <2>1, <2>2, ActivatedHandled
<1>4. ASSUME UnsuspendUnchecked(p, i, org) PROVE Handled(p)
  <2>1. role \in {"producer", "consumer"} /\ Resume(p, i, role) /\ misread' \in BOOLEAN
        /\ i \in In({"suspended"}, p)
    BY <1>4 DEF UnsuspendUnchecked
  <2> HIDE DEF role
  <2> QED BY <1>2, <2>1, ResumeHandled
<1>5. ASSUME NEW over \in BOOLEAN, ActivateDraft(p, i, org, over) PROVE Handled(p)
  <2>1. x.versions[i].state = "draft" /\ x.versions[i].state \in Pending /\ misread' \in BOOLEAN
    BY <1>5 DEF ActivateDraft, In, Pending, isOverQuota
  <2>2. CASE over
    <3>1. Save(p, [versions |-> SetState(x.versions, i, "waitingForApproval"),
                   byConsumer |-> x.byConsumer, byProducer |-> x.byProducer])
      BY <1>1, <1>5, <2>2, WithVersions DEF ActivateDraft, SaveVersions
    <3>2. "waitingForApproval" \in VersionState \ {"draft"} /\ "waitingForApproval" \notin InUse
      BY DEF VersionState, InUse
    <3> QED BY <1>1, <2>1, <3>1, <3>2, SetStateHandled
  <2>3. CASE ~over
    <3>1. Save(p, [versions |-> Activated(p, i),
                   byConsumer |-> x.byConsumer, byProducer |-> x.byProducer])
      BY <1>1, <1>5, <2>3, WithVersions DEF ActivateDraft, SaveVersions
    <3> QED BY <1>1, <2>1, <3>1, ActivatedHandled
  <2> QED BY <2>2, <2>3
<1>6. ASSUME NEW over \in BOOLEAN, UnsuspendWithinQuota(p, i, org, over) PROVE Handled(p)
  <2>1. role \in {"selfConsumer", "consumer"} /\ misread' \in BOOLEAN /\ i \in In({"suspended"}, p)
    BY <1>6 DEF UnsuspendWithinQuota, isOverQuota
  <2>2. CASE over
    BY <1>6, <2>1, <2>2, AskAgainHandled DEF UnsuspendWithinQuota
  <2>3. CASE ~over
    <3>1. Resume(p, i, role)
      BY <1>6, <2>3 DEF UnsuspendWithinQuota
    <3> HIDE DEF role
    <3> QED BY <1>2, <2>1, <3>1, ResumeHandled
  <2> QED BY <2>2, <2>3
<1> QED BY <1>3, <1>4, <1>5, <1>6 DEF ActivatePurposeVersion

LEMMA RejectHandled ==
  ASSUME Inv, NEW p \in Purposes, NEW i \in DOMAIN purpose[p].versions, NEW org,
         RejectPurposeVersion(p, i, org)
  PROVE  Handled(p)
<1> DEFINE x == purpose[p]
<1>1. /\ x \in PurposeValue /\ x.byConsumer \in BOOLEAN /\ x.byProducer \in BOOLEAN
      /\ (Owner[p] = Producer => ~x.byConsumer)
  BY DEF Inv, PurposeValue, Sound
<1>2. x.versions[i].state \in InUse \cup Pending /\ misread' \in BOOLEAN
  BY DEF RejectPurposeVersion, In, Pending
<1>3. Save(p, [versions |-> SetState(x.versions, i, "rejected"),
               byConsumer |-> x.byConsumer, byProducer |-> x.byProducer])
  BY <1>1, WithVersions DEF RejectPurposeVersion, SaveVersions
<1>4. "rejected" \in VersionState \ {"draft"} /\ "rejected" \notin InUse
  BY DEF VersionState, InUse
<1> QED BY <1>1, <1>2, <1>3, <1>4, SetStateHandled

-----------------------------------------------------------------------------
(* The invariant *)

\* What a step does to the purposes.
Steps == \A p \in Purposes : Proper(purpose[p], purpose'[p])

LEMMA HandledStep ==
  ASSUME Inv, NEW p \in Purposes, Handled(p)
  PROVE  Inv' /\ Steps
<1>1. PICK y : Save(p, y) /\ Sound(y, p) /\ Proper(purpose[p], y)
  BY DEF Handled
<1>2. purpose' = [purpose EXCEPT ![p] = y] /\ UNCHANGED <<agreement, delegated>>
  BY <1>1 DEF Save
<1>3. y \in PurposeValue
  BY <1>1 DEF Sound
<1>4. purpose' \in [Purposes -> PurposeValue]
  BY <1>2, <1>3 DEF Inv
<1>5. \A q \in Purposes : purpose'[q] = IF q = p THEN y ELSE purpose[q]
  BY <1>2 DEF Inv
<1>6. \A q \in Purposes : Sound(purpose[q], q) /\ Proper(purpose[q], purpose[q])
  BY DEF Inv, Proper, Places
<1>7. \A q \in Purposes : Sound(purpose'[q], q) /\ Proper(purpose[q], purpose'[q])
  BY <1>1, <1>5, <1>6
<1> QED BY <1>2, <1>4, <1>7 DEF Inv, Steps, Handled

LEMMA StillStep ==
  ASSUME Inv, purpose' = purpose, agreement' \in [Consumers -> Descriptor \cup {None}],
         delegated' \in BOOLEAN, misread' \in BOOLEAN
  PROVE  Inv' /\ Steps
<1>1. \A q \in Purposes : Proper(purpose[q], purpose[q])
  BY DEF Proper, Places
<1> QED BY <1>1 DEF Inv, Steps

LEMMA NextInv == Inv /\ [Next]_vars => Inv' /\ Steps
<1> SUFFICES ASSUME Inv, [Next]_vars PROVE Inv' /\ Steps
  OBVIOUS
<1>1. ASSUME NEW p \in Purposes, Handled(p) PROVE Inv' /\ Steps
  BY <1>1, HandledStep
<1>2. ASSUME NEW p \in Purposes, Draft(p) PROVE Handled(p)
  BY <1>2, DraftHandled
<1>3. ASSUME NEW p \in Purposes, NEW calls \in Calls, NEW over \in BOOLEAN,
             CreatePurposeVersion(p, calls, over)
      PROVE  Handled(p)
  BY <1>3, CreateVersionHandled
<1>4. ASSUME NEW p \in Purposes, NEW i \in DOMAIN purpose[p].versions,
             DeletePurposeVersion(p, i) \/ ArchivePurposeVersion(p, i)
      PROVE  Handled(p)
  BY <1>4, DeleteVersionHandled, ArchiveHandled
<1>5. ASSUME NEW p \in Purposes, NEW i \in DOMAIN purpose[p].versions, NEW org \in Organizations,
             \/ RejectPurposeVersion(p, i, org) \/ SuspendPurposeVersion(p, i, org)
             \/ ActivatePurposeVersion(p, i, org)
      PROVE  Handled(p)
  BY <1>5, RejectHandled, SuspendHandled, ActivateHandled
<1>6. ASSUME NEW c \in Consumers, ChangeAgreement(c) PROVE Inv' /\ Steps
  BY <1>6, StillStep DEF ChangeAgreement, Inv
<1>7. ASSUME ChangeDelegation PROVE Inv' /\ Steps
  BY <1>7, StillStep DEF ChangeDelegation, Inv
<1>8. ASSUME UNCHANGED vars PROVE Inv' /\ Steps
  BY <1>8, StillStep DEF vars, Inv
<1> QED BY <1>1, <1>2, <1>3, <1>4, <1>5, <1>6, <1>7, <1>8 DEF Next

LEMMA InitInv == Init => Inv
<1> SUFFICES ASSUME Init PROVE Inv
  OBVIOUS
<1>1. Absent \in PurposeValue /\ \A p \in Purposes : Sound(Absent, p)
  BY QuotaAssumption DEF Sound, Absent, PurposeValue, Places
<1> QED BY <1>1 DEF Init, Inv

LEMMA Invariance == Spec => []Inv
<1>1. Init => Inv
  BY InitInv
<1>2. Inv /\ [Next]_vars => Inv'
  BY NextInv
<1> QED BY <1>1, <1>2, PTL DEF Spec

-----------------------------------------------------------------------------
(* A purpose keeps within its bound on versions, and one that does not exist  *)
(* has no flags.                                                              *)
THEOREM TypeCorrect == Spec => []TypeOK
<1>1. Inv => TypeOK
  BY DEF Inv, TypeOK, Sound, PurposeValue, Exists
<1> QED BY <1>1, Invariance, PTL

(* Whatever the order of new versions, suspensions, approvals and requests    *)
(* made again, one version is in use and only the newest waits: purposeService *)
(* picks the version to archive, suspend or count by looking for one.         *)
THEOREM SingleVersionInUse == Spec => []OneVersionInUse
<1>1. Inv => OneVersionInUse
  <2> SUFFICES ASSUME Inv, NEW p \in Purposes
               PROVE  /\ Cardinality(In(InUse, p)) <= 1
                      /\ In(Pending, p) \subseteq {Len(purpose[p].versions)}
                      /\ In({"draft"}, p) # {} => Len(purpose[p].versions) = 1
    BY DEF OneVersionInUse
  <2>1. \A states : In(states, p) = Places(states, purpose[p])
    BY DEF In, Places
  <2>2. Sound(purpose[p], p)
    BY DEF Inv
  <2>3. \A i, j \in In(InUse, p) : i = j
    BY <2>1, <2>2 DEF Sound
  <2>4. Cardinality(In(InUse, p)) <= 1
    <3>1. CASE In(InUse, p) = {}
      <4>1. Cardinality(In(InUse, p)) = 0
        BY <3>1, FS_EmptySet
      <4> QED BY <4>1
    <3>2. CASE In(InUse, p) # {}
      <4>1. PICK i : In(InUse, p) = {i}
        BY <2>3, <3>2
      <4>2. Cardinality(In(InUse, p)) = 1
        BY <4>1, FS_Singleton
      <4> QED BY <4>2
    <3> QED BY <3>1, <3>2
  <2> QED BY <2>1, <2>2, <2>4 DEF Sound
<1> QED BY <1>1, Invariance, PTL

(* Who finds a version suspended finds the party that suspended it and may    *)
(* lift that.                                                                 *)
THEOREM SuspensionHasOwner == Spec => []SuspendedBySomebody
<1>1. Inv => SuspendedBySomebody
  BY DEF Inv, Sound, Places, In, SuspendedBySomebody
<1> QED BY <1>1, Invariance, PTL

(* activatePurposeVersion makes a suspended or waiting version active only    *)
(* when neither party's suspension is left.                                   *)
THEOREM NoneLiftsTheOthers == Spec => ResumedWithoutFlags
<1>1. Inv /\ [Next]_vars =>
        [\A p \in Purposes : \A i \in DOMAIN purpose[p].versions :
           /\ i \in In({"suspended", "waitingForApproval"}, p)
           /\ i \in DOMAIN purpose'[p].versions /\ purpose'[p].versions[i].state = "active"
           => ~purpose'[p].byConsumer /\ ~purpose'[p].byProducer]_vars
  BY NextInv DEF Steps, Proper, Places, In
<1> QED BY <1>1, Invariance, PTL DEF Spec, ResumedWithoutFlags

(* An archived purpose, or one whose only request was rejected, never changes *)
(* again: createPurposeVersion finds no previous version and fails.           *)
THEOREM EndIsFinal == Spec => EndedIsFinal
<1>1. Inv /\ [Next]_vars =>
        [\A p \in Purposes :
           Exists(p) /\ In(InUse \cup Pending, p) = {} => purpose'[p] = purpose[p]]_vars
  BY NextInv DEF Steps, Proper, Places, In, Exists
<1> QED BY <1>1, Invariance, PTL DEF Spec, EndedIsFinal
=============================================================================
