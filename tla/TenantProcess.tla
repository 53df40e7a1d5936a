--------------------------- MODULE TenantProcess ---------------------------
(***************************************************************************)
(* The attributes of one tenant, a consumer: the handlers of               *)
(* packages/tenant-process/src/services/tenantService.ts that assign,      *)
(* verify, revoke, date and extend them.  One attribute of each kind       *)
(* stands for all of them.  A verified attribute keeps one verification    *)
(* for each producer that gave it, which expires by the clock; no event    *)
(* is stored when it does.                                                 *)
(*                                                                         *)
(* A handler writes the tenant's stream only, so it has read the tenant's  *)
(* current version, or the event store refuses its event (EventStore).     *)
(***************************************************************************)
EXTENDS Integers, Sequences

CONSTANTS
  Verifiers,    \* producers with an agreement that asks for the verified attribute
  MaxTime,      \* bound on the clock, and on the dates given
  MaxVersion,   \* bound on the tenant's events
  MaxEvents     \* bound on the events compute-agreements-consumer has to handle

ASSUME BoundsAssumption ==
  MaxTime \in Nat /\ MaxVersion \in Nat /\ MaxEvents \in Nat

VARIABLES
  attributes,   \* the tenant's attributes
  version,      \* the tenant's version
  now,          \* the clock
  events        \* attribute events, with the attributes they carry

tenantVars == <<attributes, version, now, events>>

AttributeKind == {"certified", "declared", "verified"}
Date == 0..MaxTime
Undefined == MaxTime + 1    \* no date: later than the clock ever gets

\* A certified or declared attribute, by its revocationTimestamp.
Grant == {"never", "held", "revoked"}
Verification == [verifiedAt: Date, expiration: Date \cup {Undefined},
                 extension: Date \cup {Undefined}]
Attributes == [certified: Grant, declared: Grant,
               verifiedBy: UNION {[P -> Verification] : P \in SUBSET Verifiers},
               revokedBy: SUBSET Verifiers]

-----------------------------------------------------------------------------
(* agreement-lifecycle: the filters that say which attributes count.         *)

\* isVerificationExpired, at the time t.
Expired(v, t) == (IF v.extension # Undefined THEN v.extension ELSE v.expiration) <= t

\* The verifications that nobody took back.
Verified(attrs) == DOMAIN attrs.verifiedBy \ attrs.revokedBy

Holds(attrs, producer, kind, t) ==
  CASE kind = "certified" -> attrs.certified = "held"
    [] kind = "declared" -> attrs.declared = "held"
    [] kind = "verified" -> /\ producer \in Verified(attrs)
                            /\ ~Expired(attrs.verifiedBy[producer], t)

\* The kinds the tenant has, in the eyes of a producer.
HeldBy(attrs, producer, t) == {kind \in AttributeKind : Holds(attrs, producer, kind, t)}

-----------------------------------------------------------------------------
(* Writing to the event store. *)

\* An event that compute-agreements-consumer handles: it carries the tenant.
Announce(attrs, kind) ==
  /\ version < MaxVersion /\ Len(events) < MaxEvents
  /\ attributes' = attrs
  /\ version' = version + 1
  /\ events' = Append(events, [kind |-> kind, attributes |-> attrs])
  /\ UNCHANGED now

\* An event it passes over.
Record(attrs) ==
  /\ version < MaxVersion
  /\ attributes' = attrs
  /\ version' = version + 1
  /\ UNCHANGED <<now, events>>

-----------------------------------------------------------------------------
(* The handlers.  The change of the tenant's kind that may come in the same  *)
(* batch as a certified attribute is left out.                               *)

\* assignCertifiedAttribute: an attribute that was revoked is assigned again.
AssignCertified ==
  /\ attributes.certified # "held"
  /\ Announce([attributes EXCEPT !.certified = "held"], "certified")

\* revokeCertifiedAttribute
RevokeCertified ==
  /\ attributes.certified # "never"
  /\ Announce([attributes EXCEPT !.certified = "revoked"], "certified")

(* addCertifiedAttribute, asked for by the certifier *)
AddCertifiedAttribute == AssignCertified

(* internalAssignCertifiedAttribute, by an importer of a registry *)
InternalAssignCertifiedAttribute == AssignCertified

(* internalUpsertTenant and m2mUpsertTenant, for one attribute of their seed *)
InternalUpsertTenant == AssignCertified
M2mUpsertTenant == AssignCertified

(* revokeCertifiedAttributeById refuses an attribute that is revoked; the    *)
(* requests of importers and of certifiers' programs do not                  *)
RevokeCertifiedAttributeById == attributes.certified # "revoked" /\ RevokeCertified
InternalRevokeCertifiedAttribute == RevokeCertified
M2mRevokeCertifiedAttribute == RevokeCertified

(* addDeclaredAttribute *)
AddDeclaredAttribute == Announce([attributes EXCEPT !.declared = "held"], "declared")

\* Slip: the revocation is stored as an event that no agreement follows.
RevokeDeclaredQuietly ==
  /\ attributes.declared # "never"
  /\ Record([attributes EXCEPT !.declared = "revoked"])

(* revokeDeclaredAttribute *)
RevokeDeclaredAttribute ==
  /\ attributes.declared # "never"
  /\ Announce([attributes EXCEPT !.declared = "revoked"], "declared")

(* verifyVerifiedAttribute: a date in the past is not refused *)
VerifyVerifiedAttribute(p, date) ==
  LET verification == [verifiedAt |-> now, expiration |-> date, extension |-> date]
  IN Announce([attributes EXCEPT
                 !.verifiedBy = [q \in DOMAIN @ \cup {p} |->
                                   IF q = p THEN verification ELSE @[q]],
                 !.revokedBy = @ \ {p}],
              "verified")

(* revokeVerifiedAttribute *)
RevokeVerifiedAttribute(p) ==
  /\ p \in Verified(attributes)
  /\ Announce([attributes EXCEPT
                 !.verifiedBy = [q \in DOMAIN @ \ {p} |-> @[q]],
                 !.revokedBy = @ \cup {p}],
              "verified")

(* updateTenantVerifiedAttribute: the extension stays as it is *)
UpdateTenantVerifiedAttribute(p, date) ==
  /\ p \in DOMAIN attributes.verifiedBy
  /\ date >= now
  /\ Record([attributes EXCEPT !.verifiedBy[p].expiration = date])

(* updateVerifiedAttributeExtensionDate: the verification is prolonged by    *)
(* its first duration                                                        *)
UpdateVerifiedAttributeExtensionDate(p) ==
  /\ p \in DOMAIN attributes.verifiedBy
  /\ LET v == attributes.verifiedBy[p]
         old == IF v.extension # Undefined THEN v.extension ELSE v.expiration
         extension == old + (v.expiration - v.verifiedAt)
     IN /\ v.expiration # Undefined
        /\ extension \in Date
        /\ Record([attributes EXCEPT !.verifiedBy[p].extension = extension])

(* Time passes. *)
Tick ==
  /\ now < MaxTime
  /\ now' = now + 1
  /\ UNCHANGED <<attributes, version, events>>

-----------------------------------------------------------------------------
\* A tenant is onboarded without attributes (selfcareUpsertTenant).
TenantInit ==
  /\ attributes = [certified |-> "never", declared |-> "never",
                   verifiedBy |-> [q \in {} |-> Undefined], revokedBy |-> {}]
  /\ version = 0
  /\ now = 0
  /\ events = <<>>

\* What the tenant's certifiers and the tenant itself ask for.
GrantRequest ==
  \/ AddCertifiedAttribute \/ InternalAssignCertifiedAttribute
  \/ InternalUpsertTenant \/ M2mUpsertTenant
  \/ RevokeCertifiedAttributeById \/ InternalRevokeCertifiedAttribute
  \/ M2mRevokeCertifiedAttribute
  \/ AddDeclaredAttribute \/ RevokeDeclaredAttribute

\* What a producer that verified the tenant may ask for at any time.
DateRequest ==
  \E p \in Verifiers :
    \/ \E date \in Date \cup {Undefined} : UpdateTenantVerifiedAttribute(p, date)
    \/ UpdateVerifiedAttributeExtensionDate(p)

-----------------------------------------------------------------------------
AttributeEvent == [kind: AttributeKind, attributes: Attributes]

(* Type invariant: a producer's verification is either given or taken back. *)
TypeOK ==
  /\ attributes \in Attributes
  /\ attributes.revokedBy \cap DOMAIN attributes.verifiedBy = {}
  /\ version \in 0..MaxVersion /\ now \in 0..MaxTime
  /\ events \in Seq(AttributeEvent) /\ Len(events) <= MaxEvents
=============================================================================
