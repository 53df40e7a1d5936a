-------------------------- MODULE TenantAgreements --------------------------
(***************************************************************************)
(* The agreements of a consumer with an e-service (AgreementProcess)       *)
(* together with the consumer's attributes (TenantProcess), which          *)
(* agreement-process reads, and whose events compute-agreements-consumer   *)
(* forwards to it.  AgreementProcess says what the rest of the platform    *)
(* may do to the attributes; here tenant-process does it.                  *)
(***************************************************************************)
EXTENDS TenantProcess

CONSTANTS
  Agreements, Consumer, Producer, Delegate, MaxDescriptor, Requires, Automatic,
  StaleReads, OneChangeLag

VARIABLES store, dstate, delegated, was, misread   \* as in AgreementProcess

\* What AgreementProcess sees: the kinds the consumer has in the eyes of the
\* e-service's producer, now and according to each event.
A == INSTANCE AgreementProcess WITH
       MaxMessages <- MaxEvents,
       held <- HeldBy(attributes, Producer, now),
       messages <- [i \in DOMAIN events |->
                      [kind |-> events[i].kind,
                       held |-> HeldBy(events[i].attributes, Producer, now)]]

agreementVars == <<store, dstate, delegated, misread>>
vars == <<attributes, version, now, events, store, dstate, delegated, was, misread>>

-----------------------------------------------------------------------------
\* assertVerifiedAttributeOperationAllowed: the agreement asks for the verified
\* attribute.  Other producers have agreements of their own.
VerificationAllowed(p) ==
  p = Producer =>
    \E a \in Agreements : /\ store[a].state \in {"pending", "active", "suspended"}
                          /\ "verified" \in Requires[store[a].descriptor]

VerificationRequest ==
  \E p \in Verifiers \ {Consumer} :
    /\ VerificationAllowed(p)
    /\ \/ \E date \in Date \cup {Undefined} : VerifyVerifiedAttribute(p, date)
       \/ RevokeVerifiedAttribute(p)

TenantStep ==
  /\ UNCHANGED agreementVars
  /\ GrantRequest \/ VerificationRequest \/ DateRequest \/ Tick

AgreementStep ==
  /\ UNCHANGED tenantVars
  /\ A!ConsumerRequest \/ A!PartyRequest \/ \E d \in 1..MaxDescriptor : A!PublishDescriptor(d)

\* compute-agreements-consumer handles an event, all of it or not.
Compute ==
  /\ events # <<>>
  /\ events' = Tail(events) /\ UNCHANGED <<attributes, version, now>>
  /\ A!ComputeAgreements

ComputePartly ==
  /\ UNCHANGED tenantVars
  /\ A!ComputePartly

Init == TenantInit /\ A!Init

Next == (TenantStep \/ AgreementStep \/ Compute \/ ComputePartly) /\ A!Remember

Spec == Init /\ [][Next]_vars

\* compute-agreements-consumer keeps polling and retries a failed message.
FairSpec == Spec /\ WF_vars(Compute /\ A!Remember)

-----------------------------------------------------------------------------
(* What tenant-process does to the attributes is what AgreementProcess takes *)
(* into account: whatever is proved of it holds here.                        *)
ImplementsAgreements == A!Spec

\* The kinds that were granted and not taken back, expired or not.
Granted(attrs) ==
  {kind \in AttributeKind :
     CASE kind = "certified" -> attrs.certified = "held"
       [] kind = "declared" -> attrs.declared = "held"
       [] kind = "verified" -> Producer \in Verified(attrs)}

(* An agreement does not stay active once an attribute it requires has been  *)
(* revoked: the recomputation suspends it, through partial failures and      *)
(* retries, unless the attribute is granted again.  Not so where a handler   *)
(* decided about the agreement on past attributes, or the recomputation was  *)
(* shown a past state of it, passed over it and committed its message.  (An  *)
(* attribute that only expires is not announced, and the agreement stays     *)
(* active.)                                                                  *)
RevocationsEnforced ==
  \A a \in Agreements :
    /\ Consumer # Producer /\ store[a].state = "active"
    /\ ~A!AllSatisfied(store[a].descriptor, Granted(attributes))
    ~> \/ store[a].state # "active"
       \/ A!AllSatisfied(store[a].descriptor, Granted(attributes))
       \/ a \in misread.attributes

=============================================================================
