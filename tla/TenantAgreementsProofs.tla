------------------------ MODULE TenantAgreementsProofs ------------------------
(* The proof that a tenant's attributes change only in the ways               *)
(* AgreementProcess takes into account, for any producers, dates and events,  *)
(* any agreements and descriptors.                                            *)
EXTENDS TenantAgreements, TLAPS

\* The kinds held now, and the mapped tenant events.
Held == HeldBy(attributes, Producer, now)
Message(event) == [kind |-> event.kind, held |-> HeldBy(event.attributes, Producer, now)]
Messages == [i \in DOMAIN events |-> Message(events[i])]

-----------------------------------------------------------------------------
(* What the filters of agreement-lifecycle make of the attributes *)

LEMMA HeldKinds ==
  ASSUME NEW attrs, NEW p, NEW t
  PROVE  /\ HeldBy(attrs, p, t) \subseteq AttributeKind
         /\ "certified" \in HeldBy(attrs, p, t) <=> attrs.certified = "held"
         /\ "declared" \in HeldBy(attrs, p, t) <=> attrs.declared = "held"
         /\ "verified" \in HeldBy(attrs, p, t)
              <=> p \in Verified(attrs) /\ ~Expired(attrs.verifiedBy[p], t)
BY DEF HeldBy, Holds, AttributeKind

\* A kind that the attributes agree on is held by both or by neither.
LEMMA SameKinds ==
  ASSUME NEW x, NEW y, NEW p, NEW t, NEW u, NEW kind \in AttributeKind,
         kind # "certified" => x.certified = y.certified,
         kind # "declared" => x.declared = y.declared,
         kind # "verified" => /\ p \in Verified(x) <=> p \in Verified(y)
                              /\ p \in Verified(x) =>
                                   (Expired(x.verifiedBy[p], t) <=> Expired(y.verifiedBy[p], u))
  PROVE  HeldBy(y, p, u) \in {HeldBy(x, p, t) \ {kind}, HeldBy(x, p, t) \cup {kind}}
<1> DEFINE X == HeldBy(x, p, t)
           Y == HeldBy(y, p, u)
<1>1. X \subseteq AttributeKind /\ Y \subseteq AttributeKind
  BY HeldKinds
<1>2. \A k \in AttributeKind \ {kind} : k \in X <=> k \in Y
  BY HeldKinds DEF AttributeKind
<1> HIDE DEF X, Y
<1>3. Y \in {X \ {kind}, X \cup {kind}}
  BY <1>1, <1>2
<1> QED BY <1>3 DEF X, Y

\* A verification that has expired stays so.
LEMMA ExpiresOnce ==
  ASSUME NEW v \in Verification, NEW t \in Nat, MaxTime \in Nat, Expired(v, t)
  PROVE  Expired(v, t + 1)
BY DEF Expired, Verification, Date, Undefined

LEMMA KindsExpire ==
  ASSUME NEW attrs \in Attributes, NEW p, NEW t \in Nat, MaxTime \in Nat
  PROVE  HeldBy(attrs, p, t + 1) \in {HeldBy(attrs, p, t), HeldBy(attrs, p, t) \ {"verified"}}
<1> DEFINE X == HeldBy(attrs, p, t)
           Y == HeldBy(attrs, p, t + 1)
<1>1. X \subseteq AttributeKind /\ Y \subseteq AttributeKind
  BY HeldKinds
<1>2. \A k \in AttributeKind \ {"verified"} : k \in X <=> k \in Y
  BY HeldKinds DEF AttributeKind
<1>3. "verified" \in Y => "verified" \in X
  <2>1. p \in Verified(attrs) => attrs.verifiedBy[p] \in Verification
    BY DEF Verified, Attributes
  <2> QED BY <2>1, HeldKinds, ExpiresOnce
<1> HIDE DEF X, Y
<1>4. Y \in {X, X \ {"verified"}}
  BY <1>1, <1>2, <1>3
<1> QED BY <1>4 DEF X, Y

-----------------------------------------------------------------------------
(* Every request writes attributes of the tenant, which differ from those     *)
(* before in one kind only.                                                   *)

Disjoint(attrs) == attrs.revokedBy \cap DOMAIN attrs.verifiedBy = {}

\* attrs may follow the present attributes by an event about kind.
Changed(attrs, kind) ==
  /\ kind \in AttributeKind
  /\ attrs \in Attributes /\ Disjoint(attrs)
  /\ HeldBy(attrs, Producer, now) \in {Held \ {kind}, Held \cup {kind}}

LEMMA CertifiedChange ==
  ASSUME TypeOK, NEW g \in Grant
  PROVE  Changed([attributes EXCEPT !.certified = g], "certified")
<1> DEFINE y == [attributes EXCEPT !.certified = g]
<1>1. attributes \in Attributes /\ Disjoint(attributes)
  BY DEF TypeOK, Disjoint
<1>2. y \in Attributes
  BY <1>1 DEF Attributes
<1>3. y.declared = attributes.declared /\ y.verifiedBy = attributes.verifiedBy
      /\ y.revokedBy = attributes.revokedBy
  BY <1>1 DEF Attributes
<1> HIDE DEF y
<1>4. "certified" \in AttributeKind
  BY DEF AttributeKind
<1>5. HeldBy(y, Producer, now) \in {Held \ {"certified"}, Held \cup {"certified"}}
  BY <1>3, <1>4, SameKinds DEF Held, Verified
<1>6. Changed(y, "certified")
  BY <1>1, <1>2, <1>3, <1>4, <1>5 DEF Changed, Disjoint
<1> QED BY <1>6 DEF y

LEMMA DeclaredChange ==
  ASSUME TypeOK, NEW g \in Grant
  PROVE  Changed([attributes EXCEPT !.declared = g], "declared")
<1> DEFINE y == [attributes EXCEPT !.declared = g]
<1>1. attributes \in Attributes /\ Disjoint(attributes)
  BY DEF TypeOK, Disjoint
<1>2. y \in Attributes
  BY <1>1 DEF Attributes
<1>3. y.certified = attributes.certified /\ y.verifiedBy = attributes.verifiedBy
      /\ y.revokedBy = attributes.revokedBy
  BY <1>1 DEF Attributes
<1> HIDE DEF y
<1>4. "declared" \in AttributeKind
  BY DEF AttributeKind
<1>5. HeldBy(y, Producer, now) \in {Held \ {"declared"}, Held \cup {"declared"}}
  BY <1>3, <1>4, SameKinds DEF Held, Verified
<1>6. Changed(y, "declared")
  BY <1>1, <1>2, <1>3, <1>4, <1>5 DEF Changed, Disjoint
<1> QED BY <1>6 DEF y

\* The present attributes with other verifications, given and taken back.
WithVerifications(V, R) ==
  [certified |-> attributes.certified, declared |-> attributes.declared,
   verifiedBy |-> V, revokedBy |-> R]

LEMMA ExceptVerifications ==
  ASSUME attributes \in Attributes, NEW V, NEW R
  PROVE  /\ [attributes EXCEPT !.verifiedBy = V] = WithVerifications(V, attributes.revokedBy)
         /\ [attributes EXCEPT !.verifiedBy = V, !.revokedBy = R] = WithVerifications(V, R)
<1> DEFINE x == [attributes EXCEPT !.verifiedBy = V]
<1>1. x = WithVerifications(V, attributes.revokedBy)
  BY DEF Attributes, WithVerifications
<1>2. [attributes EXCEPT !.verifiedBy = V, !.revokedBy = R] = [x EXCEPT !.revokedBy = R]
  OBVIOUS
<1> HIDE DEF x
<1>3. [x EXCEPT !.revokedBy = R] = WithVerifications(V, R)
  BY <1>1 DEF WithVerifications
<1> QED BY <1>1, <1>2, <1>3 DEF x

LEMMA VerifiedChange ==
  ASSUME TypeOK, NEW V \in UNION {[P -> Verification] : P \in SUBSET Verifiers},
         NEW R \in SUBSET Verifiers, R \cap DOMAIN V = {}
  PROVE  Changed(WithVerifications(V, R), "verified")
<1> DEFINE y == WithVerifications(V, R)
<1>1. attributes \in Attributes
  BY DEF TypeOK
<1>2. y \in Attributes
  BY <1>1 DEF Attributes, WithVerifications
<1>3. /\ y.certified = attributes.certified /\ y.declared = attributes.declared
      /\ y.verifiedBy = V /\ y.revokedBy = R
  BY DEF WithVerifications
<1> HIDE DEF y
<1>4. "verified" \in AttributeKind
  BY DEF AttributeKind
<1>5. HeldBy(y, Producer, now) \in {Held \ {"verified"}, Held \cup {"verified"}}
  BY <1>3, <1>4, SameKinds DEF Held
<1>6. Changed(y, "verified")
  BY <1>2, <1>3, <1>4, <1>5 DEF Changed, Disjoint
<1> QED BY <1>6 DEF y

LEMMA GrantChange ==
  ASSUME TypeOK, GrantRequest
  PROVE  \E attrs, kind : Changed(attrs, kind) /\ Announce(attrs, kind)
<1>1. "held" \in Grant /\ "revoked" \in Grant
  BY DEF Grant
<1>2. ASSUME AssignCertified
      PROVE  \E attrs, kind : Changed(attrs, kind) /\ Announce(attrs, kind)
  BY <1>1, <1>2, CertifiedChange DEF AssignCertified
<1>3. ASSUME RevokeCertified
      PROVE  \E attrs, kind : Changed(attrs, kind) /\ Announce(attrs, kind)
  BY <1>1, <1>3, CertifiedChange DEF RevokeCertified
<1>4. CASE AddDeclaredAttribute
  BY <1>1, <1>4, DeclaredChange DEF AddDeclaredAttribute
<1>5. CASE RevokeDeclaredAttribute
  BY <1>1, <1>5, DeclaredChange DEF RevokeDeclaredAttribute
<1>6. AssignCertified \/ RevokeCertified \/ AddDeclaredAttribute \/ RevokeDeclaredAttribute
  BY DEF GrantRequest, AddCertifiedAttribute, InternalAssignCertifiedAttribute,
         InternalUpsertTenant, M2mUpsertTenant, RevokeCertifiedAttributeById,
         InternalRevokeCertifiedAttribute, M2mRevokeCertifiedAttribute
<1> QED BY <1>2, <1>3, <1>4, <1>5, <1>6

LEMMA VerificationChange ==
  ASSUME TypeOK, VerificationRequest
  PROVE  \E attrs, kind : Changed(attrs, kind) /\ Announce(attrs, kind)
<1> DEFINE given == attributes.verifiedBy
           back == attributes.revokedBy
<1>1. /\ given \in UNION {[P -> Verification] : P \in SUBSET Verifiers}
      /\ DOMAIN given \subseteq Verifiers /\ \A q \in DOMAIN given : given[q] \in Verification
      /\ back \subseteq Verifiers /\ back \cap DOMAIN given = {} /\ now \in Date
      /\ attributes \in Attributes
  BY DEF TypeOK, Attributes, Date
<1> HIDE DEF given, back
<1>2. PICK p \in Verifiers : \/ \E date \in Date \cup {Undefined} : VerifyVerifiedAttribute(p, date)
                             \/ RevokeVerifiedAttribute(p)
  BY DEF VerificationRequest
<1>3. ASSUME NEW date \in Date \cup {Undefined}, VerifyVerifiedAttribute(p, date)
      PROVE  \E attrs, kind : Changed(attrs, kind) /\ Announce(attrs, kind)
  <2> DEFINE v == [verifiedAt |-> now, expiration |-> date, extension |-> date]
             V == [q \in DOMAIN given \cup {p} |-> IF q = p THEN v ELSE given[q]]
             R == back \ {p}
  <2>1. v \in Verification
    BY <1>1 DEF Verification
  <2> HIDE DEF v
  <2>2. V \in [DOMAIN given \cup {p} -> Verification] /\ DOMAIN given \cup {p} \subseteq Verifiers
    BY <1>1, <1>2, <2>1
  <2>3. V \in UNION {[P -> Verification] : P \in SUBSET Verifiers} /\ DOMAIN V = DOMAIN given \cup {p}
    BY <2>2
  <2>4. R \in SUBSET Verifiers /\ R \cap DOMAIN V = {}
    BY <1>1, <2>3
  <2>5. Announce([attributes EXCEPT !.verifiedBy = V, !.revokedBy = R], "verified")
    BY <1>3 DEF VerifyVerifiedAttribute, v, given, back
  <2> HIDE DEF V, R
  <2>6. Announce(WithVerifications(V, R), "verified")
    BY <1>1, <2>5, ExceptVerifications
  <2> QED BY <2>3, <2>4, <2>6, VerifiedChange
<1>4. ASSUME RevokeVerifiedAttribute(p)
      PROVE  \E attrs, kind : Changed(attrs, kind) /\ Announce(attrs, kind)
  <2> DEFINE V == [q \in DOMAIN given \ {p} |-> given[q]]
             R == back \cup {p}
  <2>1. V \in [DOMAIN given \ {p} -> Verification] /\ DOMAIN given \ {p} \subseteq Verifiers
    BY <1>1
  <2>2. V \in UNION {[P -> Verification] : P \in SUBSET Verifiers} /\ DOMAIN V = DOMAIN given \ {p}
    BY <2>1
  <2>3. R \in SUBSET Verifiers /\ R \cap DOMAIN V = {}
    BY <1>1, <1>2, <2>2
  <2>4. Announce([attributes EXCEPT !.verifiedBy = V, !.revokedBy = R], "verified")
    BY <1>4 DEF RevokeVerifiedAttribute, given, back
  <2> HIDE DEF V, R
  <2>5. Announce(WithVerifications(V, R), "verified")
    BY <1>1, <2>4, ExceptVerifications
  <2> QED BY <2>2, <2>3, <2>5, VerifiedChange
<1> QED BY <1>2, <1>3, <1>4

LEMMA DateChange ==
  ASSUME TypeOK, DateRequest
  PROVE  \E attrs : Changed(attrs, "verified") /\ Record(attrs)
<1> DEFINE given == attributes.verifiedBy
           back == attributes.revokedBy
<1>1. /\ given \in [DOMAIN given -> Verification] /\ DOMAIN given \subseteq Verifiers
      /\ back \subseteq Verifiers /\ back \cap DOMAIN given = {}
      /\ attributes \in Attributes
  BY DEF TypeOK, Attributes
<1> HIDE DEF given, back
<1>2. ASSUME NEW p \in DOMAIN given, NEW v \in Verification,
             Record([attributes EXCEPT !.verifiedBy = [given EXCEPT ![p] = v]])
      PROVE  \E attrs : Changed(attrs, "verified") /\ Record(attrs)
  <2> DEFINE V == [given EXCEPT ![p] = v]
  <2>1. V \in [DOMAIN given -> Verification]
    BY <1>1
  <2>2. V \in UNION {[P -> Verification] : P \in SUBSET Verifiers} /\ DOMAIN V = DOMAIN given
    BY <1>1, <2>1
  <2> HIDE DEF V
  <2>3. Record(WithVerifications(V, back))
    BY <1>1, <1>2, ExceptVerifications DEF V, back
  <2> QED BY <1>1, <2>2, <2>3, VerifiedChange
<1>3. PICK p \in Verifiers : \/ \E date \in Date \cup {Undefined} : UpdateTenantVerifiedAttribute(p, date)
                             \/ UpdateVerifiedAttributeExtensionDate(p)
  BY DEF DateRequest
<1>4. ASSUME NEW date \in Date \cup {Undefined}, UpdateTenantVerifiedAttribute(p, date)
      PROVE  \E attrs : Changed(attrs, "verified") /\ Record(attrs)
  <2> DEFINE v == [given[p] EXCEPT !.expiration = date]
  <2>1. p \in DOMAIN given
    BY <1>4 DEF UpdateTenantVerifiedAttribute, given
  <2>2. v \in Verification
    BY <1>1, <2>1 DEF Verification
  <2>3. Record([attributes EXCEPT !.verifiedBy = [given EXCEPT ![p] = v]])
    BY <1>4 DEF UpdateTenantVerifiedAttribute, given
  <2> HIDE DEF v
  <2> QED BY <1>2, <2>1, <2>2, <2>3
<1>5. ASSUME UpdateVerifiedAttributeExtensionDate(p)
      PROVE  \E attrs : Changed(attrs, "verified") /\ Record(attrs)
  <2> DEFINE old == IF given[p].extension # Undefined THEN given[p].extension ELSE given[p].expiration
             extension == old + (given[p].expiration - given[p].verifiedAt)
             v == [given[p] EXCEPT !.extension = extension]
  <2>1. p \in DOMAIN given /\ extension \in Date
    BY <1>5 DEF UpdateVerifiedAttributeExtensionDate, given
  <2>2. Record([attributes EXCEPT !.verifiedBy = [given EXCEPT ![p] = v]])
    BY <1>5 DEF UpdateVerifiedAttributeExtensionDate, given
  <2> HIDE DEF extension
  <2>3. v \in Verification
    BY <1>1, <2>1 DEF Verification
  <2> HIDE DEF v
  <2> QED BY <1>2, <2>1, <2>2, <2>3
<1> QED BY <1>3, <1>4, <1>5

-----------------------------------------------------------------------------
(* The types *)

LEMMA InitType == Init => TypeOK
<1> SUFFICES ASSUME Init PROVE TypeOK
  OBVIOUS
<1> DEFINE none == [q \in {} |-> Undefined]
<1>1. none \in [{} -> Verification] /\ DOMAIN none = {}
  OBVIOUS
<1>2. none \in UNION {[P -> Verification] : P \in SUBSET Verifiers}
  BY <1>1
<1>3. attributes = [certified |-> "never", declared |-> "never",
                    verifiedBy |-> none, revokedBy |-> {}]
  BY DEF Init, TenantInit
<1> HIDE DEF none
<1>4. attributes \in Attributes /\ attributes.revokedBy = {}
  BY <1>2, <1>3 DEF Attributes, Grant
<1>5. events = <<>> /\ version = 0 /\ now = 0
  BY DEF Init, TenantInit
<1>6. events \in Seq(AttributeEvent) /\ Len(events) = 0
  BY <1>5
<1> QED BY <1>4, <1>5, <1>6, BoundsAssumption DEF TypeOK

LEMMA AnnounceType ==
  ASSUME TypeOK, NEW attrs, NEW kind, Changed(attrs, kind), Announce(attrs, kind)
  PROVE  TypeOK'
<1> DEFINE event == [kind |-> kind, attributes |-> attrs]
<1>1. event \in AttributeEvent
  BY DEF Changed, AttributeEvent
<1>2. /\ events' = Append(events, event) /\ version' = version + 1 /\ attributes' = attrs
      /\ version < MaxVersion /\ Len(events) < MaxEvents /\ now' = now
  BY DEF Announce
<1> HIDE DEF event
<1>3. events' \in Seq(AttributeEvent) /\ Len(events') <= MaxEvents
  BY <1>1, <1>2, BoundsAssumption DEF TypeOK
<1> QED BY <1>2, <1>3, BoundsAssumption DEF TypeOK, Changed, Disjoint

LEMMA RecordType ==
  ASSUME TypeOK, NEW attrs, Changed(attrs, "verified"), Record(attrs)
  PROVE  TypeOK'
BY BoundsAssumption DEF TypeOK, Changed, Disjoint, Record

-----------------------------------------------------------------------------
(* Every step is one of AgreementProcess *)

LEMMA MessagesShape ==
  ASSUME TypeOK
  PROVE  /\ DOMAIN Messages = 1..Len(events) /\ Len(events) \in Nat
         /\ Messages \in Seq({Message(event) : event \in AttributeEvent})
         /\ Len(Messages) = Len(events)
<1> DEFINE n == Len(events)
           M == {Message(event) : event \in AttributeEvent}
<1>1. n \in Nat /\ DOMAIN events = 1..n /\ \A i \in 1..n : events[i] \in AttributeEvent
  BY DEF TypeOK
<1> HIDE DEF n
<1>2. \A i \in 1..n : Message(events[i]) \in M
  BY <1>1
<1> HIDE DEF M
<1>3. Messages \in [1..n -> M]
  BY <1>1, <1>2 DEF Messages
<1>4. Messages \in Seq(M) /\ Len(Messages) = n /\ DOMAIN Messages = 1..n
  BY <1>1, <1>3
<1> QED BY <1>1, <1>4 DEF n, M

LEMMA AppendAsFunction ==
  ASSUME NEW S, NEW s \in Seq(S), NEW e
  PROVE  Append(s, e) = [i \in 1..(Len(s) + 1) |-> IF i = Len(s) + 1 THEN e ELSE s[i]]
<1> DEFINE T == S \cup {e}
           t == Append(s, e)
<1>1. s \in Seq(T) /\ e \in T
  OBVIOUS
<1> HIDE DEF T
<1>2. /\ t \in Seq(T) /\ Len(t) = Len(s) + 1 /\ t[Len(s) + 1] = e
      /\ \A i \in 1..Len(s) : t[i] = s[i]
  BY <1>1
<1> HIDE DEF t
<1>3. t = [i \in 1..(Len(s) + 1) |-> t[i]]
  BY <1>2
<1>4. Len(s) \in Nat
  OBVIOUS
<1>5. \A i \in 1..(Len(s) + 1) : i # Len(s) + 1 => i \in 1..Len(s)
  BY <1>4
<1>6. t = [i \in 1..(Len(s) + 1) |-> IF i = Len(s) + 1 THEN e ELSE s[i]]
  BY <1>2, <1>3, <1>5
<1> QED BY <1>6 DEF t

LEMMA InitImplements == Init => A!Init
<1> SUFFICES ASSUME Init PROVE A!Init
  OBVIOUS
<1>1. HeldBy(attributes, Producer, now) \in SUBSET A!Kind
  BY HeldKinds DEF A!Kind, AttributeKind
<1>2. events = <<>>
  BY DEF Init, TenantInit
<1>3. [i \in DOMAIN events |-> [kind |-> events[i].kind,
          held |-> HeldBy(events[i].attributes, Producer, now)]] = <<>>
  BY <1>2
<1> QED BY <1>1, <1>3 DEF Init, A!Init

LEMMA AnnounceImplements ==
  ASSUME TypeOK, NEW attrs, NEW kind, Changed(attrs, kind), Announce(attrs, kind),
         UNCHANGED agreementVars, A!Remember
  PROVE  A!Next
<1> DEFINE event == [kind |-> kind, attributes |-> attrs]
<1>1. /\ events' = Append(events, event) /\ attributes' = attrs /\ now' = now
      /\ Len(events) < MaxEvents
  BY DEF Announce
<1>2. Held' = HeldBy(attrs, Producer, now)
  BY <1>1 DEF Held
<1>3. Held' \in {Held \ {kind}, Held \cup {kind}} /\ kind \in A!Kind
  BY <1>2 DEF Changed, A!Kind, AttributeKind
<1>4. Messages' = Append(Messages, [kind |-> kind, held |-> Held'])
  <2> DEFINE n == Len(events)
             m == [kind |-> kind, held |-> Held']
  <2>1. n \in Nat /\ DOMAIN events = 1..n /\ DOMAIN events' = 1..(n + 1)
        /\ events'[n + 1] = event /\ \A i \in 1..n : events'[i] = events[i]
    BY <1>1 DEF TypeOK
  <2>2. DOMAIN Messages = 1..n /\ Len(Messages) = n
    BY MessagesShape
  <2>3. event.kind = kind /\ event.attributes = attrs
    OBVIOUS
  <2> HIDE DEF n, event
  <2>4. Messages' = [i \in 1..(n + 1) |-> IF i = n + 1 THEN m ELSE Messages[i]]
    <3>1. ASSUME NEW i \in 1..n
          PROVE  Message(events[i])' = Messages[i]
      BY <1>1, <2>1 DEF Messages, Message
    <3>2. [kind |-> event.kind, held |-> HeldBy(event.attributes, Producer, now)] = m
      BY <1>2, <2>3
    <3>3. ASSUME NEW i \in 1..(n + 1)
          PROVE  [kind |-> events'[i].kind, held |-> HeldBy(events'[i].attributes, Producer, now')]
                   = IF i = n + 1 THEN m ELSE Messages[i]
      <4>1. CASE i = n + 1
        BY <1>1, <2>1, <3>2, <4>1
      <4>2. CASE i # n + 1
        <5>1. i \in 1..n
          BY <2>1, <4>2
        <5> QED BY <3>1, <4>2, <5>1 DEF Message
      <4> QED BY <4>1, <4>2
    <3> QED BY <2>1, <3>3 DEF Messages, Message
  <2> HIDE DEF m
  <2>5. Append(Messages, m) = [i \in 1..(n + 1) |-> IF i = n + 1 THEN m ELSE Messages[i]]
    BY <2>2, MessagesShape, AppendAsFunction
  <2> QED BY <2>4, <2>5 DEF m
<1>5. Len(Messages) < MaxEvents
  BY <1>1, MessagesShape
<1>6. A!ChangeAttribute(kind)
  BY <1>3, <1>4, <1>5 DEF A!ChangeAttribute, Held, Messages, Message, agreementVars
<1> QED BY <1>3, <1>6 DEF A!Next, A!Environment

LEMMA RecordImplements ==
  ASSUME TypeOK, NEW attrs, Changed(attrs, "verified"), Record(attrs), UNCHANGED agreementVars, A!Remember
  PROVE  A!Next
<1>1. attributes' = attrs /\ now' = now /\ events' = events
  BY DEF Record
<1>2. Held' \in {Held \ {"verified"}, Held \cup {"verified"}}
  BY <1>1 DEF Changed, Held
<1>3. A!RedateVerification
  BY <1>1, <1>2 DEF A!RedateVerification, Held, agreementVars
<1> QED BY <1>3 DEF A!Next, A!Environment

LEMMA TickImplements ==
  ASSUME TypeOK, Tick, UNCHANGED agreementVars, A!Remember
  PROVE  A!Next
<1>1. now' = now + 1 /\ attributes' = attributes /\ events' = events /\ now \in Nat /\ MaxTime \in Nat
  BY BoundsAssumption DEF Tick, TypeOK
<1>2. Held' \in {Held, Held \ {"verified"}}
  BY <1>1, KindsExpire DEF Held, TypeOK
<1> DEFINE n == Len(events)
           After(i) == HeldBy(events[i].attributes, Producer, now + 1)
           expired == {i \in 1..n : Messages[i].held # After(i)}
<1>3. n \in Nat /\ DOMAIN events = 1..n /\ DOMAIN Messages = 1..n
  BY MessagesShape DEF TypeOK
<1>4. ASSUME NEW i \in 1..n
      PROVE  /\ Messages[i] = [kind |-> events[i].kind, held |-> Messages[i].held]
             /\ Messages[i].kind = events[i].kind
             /\ After(i) \in {Messages[i].held, Messages[i].held \ {"verified"}}
  <2>1. events[i].attributes \in Attributes
    <3>1. events[i] \in AttributeEvent
      BY DEF TypeOK
    <3> QED BY <3>1 DEF AttributeEvent
  <2>2. Messages[i] = Message(events[i])
    BY <1>3 DEF Messages
  <2>3. Messages[i].held = HeldBy(events[i].attributes, Producer, now)
    BY <2>2 DEF Message
  <2> QED BY <1>1, <2>1, <2>2, <2>3, KindsExpire DEF Message
<1> HIDE DEF n
<1>5. Messages' = [i \in 1..n |-> [kind |-> events[i].kind, held |-> After(i)]]
  BY <1>1, <1>3 DEF Messages, Message
<1> HIDE DEF After
<1>6. Messages' = [i \in DOMAIN Messages |->
                     IF i \in expired
                     THEN [kind |-> Messages[i].kind, held |-> Messages[i].held \ {"verified"}]
                     ELSE Messages[i]]
  <2>1. ASSUME NEW i \in 1..n
        PROVE  [kind |-> events[i].kind, held |-> After(i)]
                 = IF i \in expired
                   THEN [kind |-> Messages[i].kind, held |-> Messages[i].held \ {"verified"}]
                   ELSE Messages[i]
    <3>1. CASE i \in expired
      BY <1>4, <3>1
    <3>2. CASE i \notin expired
      BY <1>4, <3>2
    <3> QED BY <3>1, <3>2
  <2> HIDE DEF expired
  <2> QED BY <1>3, <1>5, <2>1
<1>7. expired \in SUBSET DOMAIN Messages
  BY <1>3
<1> HIDE DEF expired
<1>8. A!ExpireVerifications
  BY <1>2, <1>6, <1>7 DEF A!ExpireVerifications, Held, Messages, Message, agreementVars
<1> QED BY <1>8 DEF A!Next, A!Environment

LEMMA NextImplements == TypeOK /\ [Next]_vars => TypeOK' /\ [A!Next]_(A!vars)
<1> SUFFICES ASSUME TypeOK, [Next]_vars PROVE TypeOK' /\ [A!Next]_(A!vars)
  OBVIOUS
<1>0. CASE UNCHANGED vars
  BY <1>0 DEF vars, TypeOK, A!vars
<1> SUFFICES ASSUME A!Remember, TenantStep \/ AgreementStep \/ Compute \/ ComputePartly
             PROVE  TypeOK' /\ [A!Next]_(A!vars)
  BY <1>0 DEF Next
<1>1. CASE TenantStep
  <2>1. UNCHANGED agreementVars /\ A!Remember
    BY <1>1 DEF TenantStep
  <2>2. CASE GrantRequest \/ VerificationRequest
    BY <2>1, <2>2, GrantChange, VerificationChange, AnnounceType, AnnounceImplements
  <2>3. CASE DateRequest
    BY <2>1, <2>3, DateChange, RecordType, RecordImplements
  <2>4. CASE Tick
    <3>1. TypeOK'
      BY <2>4, BoundsAssumption DEF TypeOK, Tick
    <3> QED BY <2>1, <2>4, <3>1, TickImplements
  <2> QED BY <1>1, <2>2, <2>3, <2>4 DEF TenantStep
<1>2. CASE AgreementStep
  <2>1. TypeOK'
    BY <1>2 DEF AgreementStep, tenantVars, TypeOK
  <2>2. A!Next
    BY <1>2 DEF AgreementStep, A!Next, A!Environment, A!Descriptor
  <2> QED BY <2>1, <2>2
<1>3. CASE Compute
  <2>1. events' \in Seq(AttributeEvent) /\ Len(events') <= MaxEvents
    BY <1>3, BoundsAssumption DEF Compute, TypeOK
  <2>2. TypeOK'
    BY <1>3, <2>1 DEF Compute, TypeOK
  <2>3. A!Next
    BY <1>3 DEF Compute, A!Next
  <2> QED BY <2>2, <2>3
<1>4. CASE ComputePartly
  <2>1. TypeOK'
    BY <1>4 DEF ComputePartly, tenantVars, TypeOK
  <2>2. A!Next
    BY <1>4 DEF ComputePartly, A!Next
  <2> QED BY <2>1, <2>2
<1> QED BY <1>1, <1>2, <1>3, <1>4

-----------------------------------------------------------------------------
(* A producer's verification is either given or taken back, and attributes,   *)
(* events and the clock keep their types.                                     *)
THEOREM TypeCorrect == Spec => []TypeOK
<1>1. Init => TypeOK
  BY InitType
<1>2. TypeOK /\ [Next]_vars => TypeOK'
  BY NextImplements
<1> QED BY <1>1, <1>2, PTL DEF Spec

(* The handlers of tenant-process, the clock and the consumer of its events   *)
(* change the kinds of attributes that count for the e-service, and the       *)
(* events still to be handled, only as AgreementProcess expects of its        *)
(* environment: what is proved there holds of the two services together.      *)
THEOREM TenantsAreTheEnvironment == Spec => ImplementsAgreements
<1>1. Init => A!Init
  BY InitImplements
<1>2. TypeOK /\ [Next]_vars => [A!Next]_(A!vars)
  BY NextImplements
<1> QED BY <1>1, <1>2, TypeCorrect, PTL DEF Spec, ImplementsAgreements, A!Spec
=============================================================================
