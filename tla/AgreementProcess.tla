-------------------------- MODULE AgreementProcess --------------------------
(***************************************************************************)
(* The agreements of one consumer with one e-service: the handlers of      *)
(* packages/agreement-process (services/agreementService.ts and the        *)
(* *Processor.ts files beside it), which move each agreement through its   *)
(* lifecycle.                                                              *)
(*                                                                         *)
(* A handler reads agreements, e-service, consumer and delegation from the *)
(* read model, which lags behind the event store, and then writes one      *)
(* batch of events.  The event store rejects the batch if an agreement it  *)
(* writes is no longer at the version that was read (EventStore), so a     *)
(* handler that changes anything has read the current version of what it   *)
(* writes, and possibly a past version of what it only reads.              *)
(***************************************************************************)
EXTENDS Integers, Sequences, FiniteSets

CONSTANTS
  Agreements,   \* agreement identifiers, each used for one agreement
  Consumer, Producer,   \* organizations, possibly the same
  Delegate,     \* the delegate producer, or Producer if there never is one
  MaxDescriptor,  \* the e-service's descriptors are versions 1..MaxDescriptor
  Requires,     \* descriptor -> the kinds of attributes it asks for
  Automatic,    \* the descriptors whose approval policy is automatic
  StaleReads,   \* may the read model lag?
  OneChangeLag, \* bound: by no more than the last change of what is read
  MaxMessages   \* bound on tenant attribute events waiting to be consumed

Descriptor == 1..MaxDescriptor
Kind == {"certified", "declared", "verified"}

ASSUME ConstantsAssumption ==
  /\ MaxDescriptor \in Nat
  /\ Requires \in [Descriptor -> SUBSET Kind]
  /\ Automatic \subseteq Descriptor
  /\ StaleReads \in BOOLEAN /\ OneChangeLag \in BOOLEAN
  /\ MaxMessages \in Nat

VARIABLES
  store,      \* the agreements, as their event streams define them
  dstate,     \* the state of each descriptor
  held,       \* the kinds of required attributes the consumer has
  delegated,  \* is there an active producer delegation for the e-service?
  messages,   \* tenant attribute events compute-agreements-consumer has to handle
  was,        \* the past values a lagging read model may still show
  misread     \* history: the agreements decided on such values, as the read
              \* model showed the pair's agreements and the consumer's attributes

vars == <<store, dstate, held, delegated, messages, was, misread>>

AgreementState == {"draft", "pending", "active", "suspended", "archived",
                   "missingCertifiedAttributes", "rejected"}
\* The stamps whose presence the state does not imply.
Stamp == {"activation", "suspensionByConsumer", "suspensionByProducer"}
Flag == {"unset", "no", "yes"}     \* boolean | undefined

Agreement == [state: AgreementState \cup {"absent"}, descriptor: Descriptor \cup {0},
              byConsumer: Flag, byProducer: Flag, byPlatform: Flag,
              stamps: SUBSET Stamp]

Absent == [state |-> "absent", descriptor |-> 0, byConsumer |-> "unset",
           byProducer |-> "unset", byPlatform |-> "unset", stamps |-> {}]

DescriptorState == {"draft", "published", "suspended", "deprecated", "archived"}

InForce == {"active", "suspended"}
Self == Consumer = Producer
Requesters == {Consumer, Producer, Delegate}

-----------------------------------------------------------------------------
(* What a handler may read. *)

Views(current, past) == IF StaleReads THEN past \cup {current} ELSE {current}

\* The agreements the read model shows to a handler that writes those of batch.
AgreementViews(batch) ==
  {v \in [Agreements -> UNION {Views(store[b], was.store[b]) : b \in Agreements}] :
     \A b \in Agreements :
       v[b] \in IF b \in batch THEN {store[b]} ELSE Views(store[b], was.store[b])}

HeldViews == Views(held, was.held)
DescriptorViews == Views(dstate, was.dstate)
DelegationViews == Views(delegated, was.delegated)

\* The values before the last change, or before every change.
Previous(current, next, past) ==
  IF next = current THEN past ELSE IF OneChangeLag THEN {current} ELSE past \cup {current}

Remember ==
  was' = IF StaleReads
         THEN [store |-> [a \in Agreements |->
                            Previous(store[a], store'[a], was.store[a])],
               held |-> Previous(held, held', was.held),
               dstate |-> Previous(dstate, dstate', was.dstate),
               delegated |-> Previous(delegated, delegated', was.delegated)]
         ELSE was

Mark(marked, a, stale) == IF stale THEN marked \cup {a} ELSE marked \ {a}

\* A handler decides about a on the agreements v and the attributes h.
Decided(a, v, h) ==
  misread' = [siblings |-> Mark(misread.siblings, a, v # store),
              attributes |-> Mark(misread.attributes, a, h # held)]

\* n takes a's place in the pair, on the attributes h.
Succeeded(a, n, h) ==
  misread' = [siblings |-> Mark(misread.siblings, n, a \in misread.siblings),
              attributes |-> Mark(misread.attributes, n, h # held)]

\* The recomputation passes over what v does not show as it is.
Recomputed(v) ==
  misread' = [misread EXCEPT !.attributes = @ \cup {b \in Agreements : v[b] # store[b]}]

-----------------------------------------------------------------------------
(* agreement-lifecycle and agreementStateProcessor.ts *)

Satisfied(kind, d, h) == kind \in Requires[d] => kind \in h
AllSatisfied(d, h) == \A kind \in Kind : Satisfied(kind, d, h)

\* Slip: the automatic approval policy wins over the verified attributes.
NextStateFromDraftUnverified(d, h) ==
  IF Self THEN "active"
  ELSE IF ~Satisfied("certified", d, h) THEN "missingCertifiedAttributes"
  ELSE IF ~Satisfied("declared", d, h) THEN "draft"
  ELSE IF d \in Automatic THEN "active" ELSE "pending"

NextStateFromDraft(d, h) ==
  CASE Self -> "active"
    [] ~Self /\ ~Satisfied("certified", d, h) -> "missingCertifiedAttributes"
    [] ~Self /\ AllSatisfied(d, h) /\ d \in Automatic -> "active"
    [] ~Self /\ Satisfied("certified", d, h) /\ Satisfied("declared", d, h)
         /\ ~(AllSatisfied(d, h) /\ d \in Automatic) -> "pending"
    [] OTHER -> "draft"

NextStateFromPending(d, h) ==
  CASE ~Satisfied("certified", d, h) -> "missingCertifiedAttributes"
    [] Satisfied("certified", d, h) /\ ~Satisfied("declared", d, h) -> "draft"
    [] AllSatisfied(d, h) -> "active"
    [] OTHER -> "pending"

NextStateFromActiveOrSuspended(d, h) ==
  IF Self \/ AllSatisfied(d, h) THEN "active" ELSE "suspended"

NextStateFromMissing(d, h) ==
  IF Satisfied("certified", d, h) THEN "draft" ELSE "missingCertifiedAttributes"

NextStateByAttributesFSM(ag, h) ==
  CASE ag.state = "draft" -> NextStateFromDraft(ag.descriptor, h)
    [] ag.state = "pending" -> NextStateFromPending(ag.descriptor, h)
    [] ag.state \in InForce -> NextStateFromActiveOrSuspended(ag.descriptor, h)
    [] ag.state = "missingCertifiedAttributes" -> NextStateFromMissing(ag.descriptor, h)
    [] OTHER -> ag.state

AgreementStateByFlags(next, byProducer, byConsumer, byPlatform) ==
  IF next = "active" /\ "yes" \in {byProducer, byConsumer, byPlatform}
  THEN "suspended" ELSE next

YesNo(b) == IF b THEN "yes" ELSE "no"

SuspendedByPlatformFlag(next) ==
  YesNo(next \in {"suspended", "missingCertifiedAttributes"})

\* The delegate's requests count as the producer's while the delegation is active.
ActsForProducer(r, deleg) == r = Producer \/ (deleg /\ r = Delegate)

SuspendedByConsumerFlag(ag, r, target) ==
  IF r = Consumer THEN YesNo(target = "suspended") ELSE ag.byConsumer

SuspendedByProducerFlag(ag, r, target, deleg) ==
  IF ActsForProducer(r, deleg) THEN YesNo(target = "suspended") ELSE ag.byProducer

\* suspendedByConsumerStamp and suspendedByProducerStamp.
SuspensionStamps(ag, r, target, deleg) ==
  LET own == (IF r = Consumer THEN {"suspensionByConsumer"} ELSE {})
               \cup (IF ActsForProducer(r, deleg) THEN {"suspensionByProducer"} ELSE {})
  IN IF target = "suspended" THEN ag.stamps \cup own ELSE ag.stamps \ own

\* Slip: active agreements are not in the table.
AllowedStateTransitionsWithoutActive(state) ==
  CASE state \in {"draft", "pending"} -> {"missingCertifiedAttributes"}
    [] state = "missingCertifiedAttributes" -> {"draft"}
    [] state = "suspended" -> {"active", "suspended"}
    [] OTHER -> {}

AllowedStateTransitions(state) ==
  CASE state \in {"draft", "pending"} -> {"missingCertifiedAttributes"}
    [] state = "missingCertifiedAttributes" -> {"draft"}
    [] state = "active" -> {"suspended"}
    [] state = "suspended" -> {"active", "suspended"}
    [] OTHER -> {}

-----------------------------------------------------------------------------
(* agreement-validators.ts *)

CanActAsProducer(r, deleg) == IF deleg THEN r = Delegate ELSE r = Producer
CanActAsConsumerOrProducer(r, deleg) == r = Consumer \/ CanActAsProducer(r, deleg)

\* d is the latest descriptor that was ever published, in one of the allowed states.
LatestDescriptor(ds, d, allowed) ==
  /\ d \in Descriptor /\ ds[d] \in allowed
  /\ \A e \in Descriptor : ds[e] # "draft" => e <= d

\* Slip: only agreements in force are in the way.
NoConflictInForce(v, conflicting) ==
  \A b \in Agreements : v[b].state \notin conflicting \cap InForce

NoConflict(v, conflicting) == \A b \in Agreements : v[b].state \notin conflicting

CreationConflicting == {"draft", "pending", "missingCertifiedAttributes"} \cup InForce
SubmissionConflicting == {"pending", "missingCertifiedAttributes"}

-----------------------------------------------------------------------------
(* Writing to the event store. *)

\* createEvents: the agreements of the batch get their new values.
Save(new) ==
  /\ store' = [b \in Agreements |-> IF b \in DOMAIN new THEN new[b] ELSE store[b]]
  /\ UNCHANGED <<dstate, held, delegated>>

Archived(ag) == [ag EXCEPT !.state = "archived"]

\* Slip: suspended agreements are not archived.
ArchivableActive(v, a) == {b \in Agreements \ {a} : v[b].state = "active"}

\* Slip: every earlier agreement of the pair is archived.
ArchivableAny(v, a) ==
  {b \in Agreements \ {a} : v[b].state \notin {"absent", "draft"}}

\* The other agreements of the pair that the read model shows in force.
Archivable(v, a) == {b \in Agreements \ {a} : v[b].state \in InForce}

\* The event store takes the batch only if what was read of it is current.
UpToDate(v, batch) == \A b \in batch : v[b] = store[b]

\* One batch: a gets its new value and the others are archived.
SaveAndArchive(a, new, others) ==
  Save([b \in {a} \cup others |-> IF b = a THEN new ELSE Archived(store[b])])

SetMissingCertifiedAttributes(ag) ==
  [ag EXCEPT !.state = "missingCertifiedAttributes", !.byPlatform = "yes"]

\* maybeCreateSetToMissingCertifiedAttributesByPlatformEvent
MustSetMissing(ag, next) ==
  next = "missingCertifiedAttributes" /\ ag.byPlatform # "yes"

-----------------------------------------------------------------------------
(* The handlers of agreementService.ts.  Requests they refuse change nothing.*)

(* createAgreement *)
CreateAgreement(a) ==
  /\ store[a] = Absent
  /\ \E v \in AgreementViews({a}), ds \in DescriptorViews, h \in HeldViews,
        d \in Descriptor :
       /\ LatestDescriptor(ds, d, {"published"})
       /\ NoConflict(v, CreationConflicting)
       /\ Self \/ Satisfied("certified", d, h)
       /\ Save([b \in {a} |-> [Absent EXCEPT !.state = "draft", !.descriptor = d]])
  /\ UNCHANGED <<messages, misread>>

(* deleteAgreementById *)
DeleteAgreement(a) ==
  /\ store[a].state \in {"draft", "missingCertifiedAttributes"}
  /\ Save([b \in {a} |-> Absent])
  /\ UNCHANGED <<messages, misread>>

\* createSubmissionUpdateAgreementSeed and calculateStamps.
Submitted(ag, newState, byPlatform) ==
  [ag EXCEPT !.state = newState, !.byPlatform = byPlatform,
             !.stamps = @ \cup (IF newState = "active" THEN {"activation"} ELSE {})]

(* submitAgreement *)
SubmitAgreement(a) ==
  /\ store[a].state = "draft"
  /\ \E v \in AgreementViews({a}), ds \in DescriptorViews, h \in HeldViews :
       LET ag == store[a]
           next == NextStateByAttributesFSM(ag, h)
           byPlatform == SuspendedByPlatformFlag(next)
           newState == AgreementStateByFlags(next, "unset", "unset", byPlatform)
           related == Archivable(v, a)
       IN /\ NoConflict(v, SubmissionConflicting)
          /\ LatestDescriptor(ds, ag.descriptor, {"published", "suspended"})
          /\ \/ /\ MustSetMissing(ag, next)
                /\ Save([b \in {a} |-> SetMissingCertifiedAttributes(ag)])
             \/ /\ newState = "pending"
                /\ Save([b \in {a} |-> Submitted(ag, newState, byPlatform)])
             \/ /\ newState = "active"
                /\ UpToDate(v, related)
                /\ SaveAndArchive(a, Submitted(ag, newState, byPlatform), related)
          /\ Decided(a, v, h)
  /\ UNCHANGED messages

(* activateAgreement *)
ActivateAgreement(a, r) ==
  /\ store[a].state \in {"pending", "suspended"}
  /\ ~(store[a].state = "pending" /\ r = Consumer /\ ~Self)
  /\ \E v \in AgreementViews({a}), ds \in DescriptorViews, h \in HeldViews,
        deleg \in DelegationViews :
       LET ag == store[a]
           next == NextStateByAttributesFSM(ag, h)
           byPlatform == SuspendedByPlatformFlag(next)
           byConsumer == SuspendedByConsumerFlag(ag, r, "active")
           byProducer == SuspendedByProducerFlag(ag, r, "active", deleg)
           newState == AgreementStateByFlags(next, byProducer, byConsumer, byPlatform)
           isFirstActivation == ag.state = "pending" /\ newState = "active"
           related == Archivable(v, a)
       IN /\ CanActAsConsumerOrProducer(r, deleg)
          /\ ds[ag.descriptor] \in {"published", "suspended", "deprecated"}
          /\ \/ /\ MustSetMissing(ag, next)
                /\ Save([b \in {a} |-> SetMissingCertifiedAttributes(ag)])
             \/ /\ newState \notin {"draft", "pending", "missingCertifiedAttributes"}
                /\ UpToDate(v, related)
                /\ SaveAndArchive(a,
                     [ag EXCEPT !.state = newState, !.byConsumer = byConsumer,
                        !.byProducer = byProducer, !.byPlatform = byPlatform,
                        !.stamps = IF isFirstActivation THEN @ \cup {"activation"}
                                   ELSE SuspensionStamps(ag, r, "active", deleg)],
                     related)
          /\ Decided(a, v, h)
  /\ UNCHANGED messages

\* createSuspensionUpdatedAgreement
Suspended(ag, r, h, deleg) ==
  LET byConsumer == SuspendedByConsumerFlag(ag, r, "suspended")
      byProducer == SuspendedByProducerFlag(ag, r, "suspended", deleg)
  IN [ag EXCEPT
        !.state = AgreementStateByFlags(NextStateByAttributesFSM(ag, h),
                                        byProducer, byConsumer, ag.byPlatform),
        !.byConsumer = byConsumer, !.byProducer = byProducer,
        !.stamps = SuspensionStamps(ag, r, "suspended", deleg)]

(* suspendAgreement *)
SuspendAgreement(a, r) ==
  /\ store[a].state \in InForce
  /\ \E h \in HeldViews, deleg \in DelegationViews :
       /\ CanActAsConsumerOrProducer(r, deleg)
       /\ Save([b \in {a} |-> Suspended(store[a], r, h, deleg)])
  /\ UNCHANGED <<messages, misread>>

(* rejectAgreement *)
RejectAgreement(a, r) ==
  /\ store[a].state = "pending"
  /\ \E deleg \in DelegationViews : CanActAsProducer(r, deleg)
  /\ Save([b \in {a} |->
       [store[a] EXCEPT !.state = "rejected", !.byConsumer = "unset",
          !.byProducer = "unset", !.byPlatform = "unset"]])
  /\ UNCHANGED <<messages, misread>>

(* archiveAgreement *)
ArchiveAgreement(a) ==
  /\ store[a].state \in InForce
  /\ Save([b \in {a} |-> Archived(store[a])])
  /\ UNCHANGED <<messages, misread>>

\* Slip: the successor of a suspended agreement has to be submitted again.
UpgradedInactive(ag, d) ==
  [ag EXCEPT !.state = IF @ = "suspended" THEN "draft" ELSE @,
             !.descriptor = d, !.byPlatform = "unset"]

\* createUpgradeOrNewDraft: a's successor on descriptor d.
Upgraded(ag, d) ==
  [ag EXCEPT !.descriptor = d, !.byPlatform = "unset"]

\* Slip: the stamps of the parties' suspensions are not copied.
UpgradeDraftUnstamped(ag, d) ==
  [ag EXCEPT !.state = "draft", !.descriptor = d, !.byPlatform = "unset", !.stamps = {}]

\* Slip: the platform's suspension is copied with those of the parties.
UpgradeDraftAllFlags(ag, d) ==
  [ag EXCEPT !.state = "draft", !.descriptor = d,
             !.stamps = @ \cap {"suspensionByConsumer", "suspensionByProducer"}]

UpgradeDraft(ag, d) ==
  [ag EXCEPT !.state = "draft", !.descriptor = d, !.byPlatform = "unset",
             !.stamps = @ \cap {"suspensionByConsumer", "suspensionByProducer"}]

(* upgradeAgreement, n being the new agreement *)
UpgradeAgreement(a, n) ==
  /\ store[a].state \in InForce
  /\ store[n] = Absent
  /\ \E v \in AgreementViews({a, n}), ds \in DescriptorViews, h \in HeldViews,
        d \in Descriptor :
       /\ ds[d] = "published" /\ \A e \in 1..(d - 1) : ds[e] # "published"
       /\ d > store[a].descriptor
       /\ Self \/ Satisfied("certified", d, h)
       /\ \/ /\ Satisfied("verified", d, h) /\ Satisfied("declared", d, h)
             /\ Save([b \in {a, n} |-> IF b = a THEN Archived(store[a])
                                               ELSE Upgraded(store[a], d)])
          \/ /\ ~(Satisfied("verified", d, h) /\ Satisfied("declared", d, h))
             /\ NoConflict(v, {"draft"})
             /\ Save([b \in {n} |-> UpgradeDraft(store[a], d)])
       /\ Succeeded(a, n, h)
  /\ UNCHANGED messages

(* cloneAgreement, n being the new agreement *)
CloneAgreement(a, n) ==
  /\ store[a].state = "rejected"
  /\ store[n] = Absent
  /\ \E v \in AgreementViews({n}), h \in HeldViews :
       /\ NoConflict(v, CreationConflicting)
       /\ Satisfied("certified", store[a].descriptor, h)
       /\ Save([b \in {n} |-> [store[a] EXCEPT !.state = "draft", !.stamps = {}]])
  /\ UNCHANGED <<messages, misread>>

-----------------------------------------------------------------------------
(* computeAgreementsStateByAttribute, called by compute-agreements-consumer  *)
(* for every tenant attribute event, with the tenant the event carries.      *)

Updated(ag, h) ==
  LET next == NextStateByAttributesFSM(ag, h)
      byPlatform == SuspendedByPlatformFlag(next)
  IN [ag EXCEPT !.state = AgreementStateByFlags(next, ag.byProducer, ag.byConsumer, byPlatform),
                !.byPlatform = byPlatform]

\* Does updateAgreementState emit an event for the agreement?
MustUpdate(ag, h) ==
  /\ Updated(ag, h).state \in AllowedStateTransitions(ag.state)
  /\ Updated(ag, h).byPlatform # ag.byPlatform

\* The agreements an attribute event asks to update, as the read model shows them.
ToUpdate(v, m) ==
  {b \in Agreements : m.kind \in UNION {Requires[d] : d \in Descriptor}
                         /\ MustUpdate(v[b], m.held)}

(* All the events are stored and the message's offset is committed. *)
ComputeAgreements ==
  /\ messages # <<>>
  /\ \E v \in AgreementViews({}) :
       LET m == Head(messages) IN
       /\ UpToDate(v, ToUpdate(v, m))
       /\ Save([b \in ToUpdate(v, m) |-> Updated(store[b], m.held)])
       /\ Recomputed(v)
  /\ messages' = Tail(messages)

\* Slip: the offset is committed though an event could not be stored.
ComputePartlyCommitted ==
  /\ messages # <<>>
  /\ \E v \in AgreementViews({}), batch \in SUBSET Agreements :
       LET m == Head(messages) IN
       /\ batch \subseteq ToUpdate(v, m) /\ UpToDate(v, batch)
       /\ Save([b \in batch |-> Updated(store[b], m.held)])
       /\ Recomputed(v)
  /\ messages' = Tail(messages)

(* One createEvent fails after others succeeded, or the consumer dies before *)
(* it commits the offset: the message will be handled again.                 *)
ComputePartly ==
  /\ messages # <<>>
  /\ \E v \in AgreementViews({}) :
       LET m == Head(messages) IN
       \E batch \in SUBSET ToUpdate(v, m) :
         /\ batch # {}
         /\ UpToDate(v, batch)
         /\ Save([b \in batch |-> Updated(store[b], m.held)])
  /\ UNCHANGED <<messages, misread>>

-----------------------------------------------------------------------------
(* What changes around the agreements. *)

(* tenant-process stores an attribute event: the consumer gains or loses a   *)
(* kind, or has it for another reason than before.                           *)
ChangeAttribute(kind) ==
  /\ Len(messages) < MaxMessages
  /\ held' \in {held \ {kind}, held \cup {kind}}
  /\ messages' = Append(messages, [kind |-> kind, held |-> held'])
  /\ UNCHANGED <<store, dstate, delegated, misread>>

(* The dates of a verification change, and no agreement is recomputed.       *)
RedateVerification ==
  /\ held' \in {held \ {"verified"}, held \cup {"verified"}}
  /\ UNCHANGED <<store, dstate, delegated, messages, misread>>

(* Verifications expire, in the tenant and in the events that carry it.      *)
ExpireVerifications ==
  /\ held' \in {held, held \ {"verified"}}
  /\ \E expired \in SUBSET DOMAIN messages :
       messages' = [i \in DOMAIN messages |->
                      IF i \in expired
                      THEN [kind |-> messages[i].kind,
                            held |-> messages[i].held \ {"verified"}]
                      ELSE messages[i]]
  /\ UNCHANGED <<store, dstate, delegated, misread>>

(* A new descriptor is published and the previous one deprecated.            *)
PublishDescriptor(d) ==
  /\ dstate[d] = "draft" /\ \A e \in 1..(d - 1) : dstate[e] # "draft"
  /\ dstate' = [e \in Descriptor |-> IF e = d THEN "published"
                  ELSE IF dstate[e] = "published" THEN "deprecated" ELSE dstate[e]]
  /\ UNCHANGED <<store, held, delegated, messages, misread>>

SuspendDescriptor(d) ==
  /\ dstate[d] \in {"published", "deprecated"}
  /\ dstate' = [dstate EXCEPT ![d] = "suspended"]
  /\ UNCHANGED <<store, held, delegated, messages, misread>>

ReactivateDescriptor(d) ==
  /\ dstate[d] = "suspended"
  /\ dstate' = [dstate EXCEPT ![d] =
       IF \E e \in Descriptor : e > d /\ dstate[e] \in {"published", "suspended", "deprecated"}
       THEN "deprecated" ELSE "published"]
  /\ UNCHANGED <<store, held, delegated, messages, misread>>

(* The producer delegation is approved or revoked (delegation-process). *)
ChangeDelegation ==
  /\ Delegate # Producer
  /\ delegated' = ~delegated
  /\ UNCHANGED <<store, dstate, held, messages, misread>>

-----------------------------------------------------------------------------
Init ==
  /\ store = [a \in Agreements |-> Absent]
  /\ dstate = [d \in Descriptor |-> "draft"]
  /\ held \in SUBSET Kind
  /\ delegated = FALSE
  /\ messages = <<>>
  /\ was = [store |-> [a \in Agreements |-> {}], held |-> {}, dstate |-> {},
            delegated |-> {}]
  /\ misread = [siblings |-> {}, attributes |-> {}]

ConsumerRequest ==
  \E a \in Agreements :
    \/ CreateAgreement(a) \/ DeleteAgreement(a) \/ SubmitAgreement(a)
    \/ ArchiveAgreement(a)
    \/ \E n \in Agreements \ {a} : UpgradeAgreement(a, n) \/ CloneAgreement(a, n)

PartyRequest ==
  \E a \in Agreements, r \in Requesters :
    ActivateAgreement(a, r) \/ SuspendAgreement(a, r) \/ RejectAgreement(a, r)

Environment ==
  \/ \E kind \in Kind : ChangeAttribute(kind)
  \/ RedateVerification \/ ExpireVerifications
  \/ \E d \in Descriptor :
       PublishDescriptor(d) \/ SuspendDescriptor(d) \/ ReactivateDescriptor(d)
  \/ ChangeDelegation

Next ==
  /\ ConsumerRequest \/ PartyRequest \/ ComputeAgreements \/ ComputePartly
       \/ Environment
  /\ Remember

Spec == Init /\ [][Next]_vars

-----------------------------------------------------------------------------
(* Type invariant: a deleted agreement leaves nothing behind, an existing one *)
(* is for a descriptor.                                                      *)
TypeOK ==
  /\ store \in [Agreements -> Agreement]
  /\ \A a \in Agreements :
       IF store[a].state = "absent" THEN store[a] = Absent
       ELSE store[a].descriptor \in Descriptor
  /\ dstate \in [Descriptor -> DescriptorState]
  /\ held \subseteq Kind
  /\ delegated \in BOOLEAN
  /\ messages \in Seq([kind: Kind, held: SUBSET Kind])
  /\ misread \in [siblings: SUBSET Agreements, attributes: SUBSET Agreements]

(* The platform flag tells why an agreement cannot proceed: one waiting for  *)
(* certified attributes has it set, one in draft or pending never, so that   *)
(* updateAgreementState, which acts only when the flag changes, can always   *)
(* move an agreement out of and into missingCertifiedAttributes.             *)
PlatformFlagTracksCertified ==
  \A a \in Agreements :
    /\ store[a].state = "missingCertifiedAttributes" => store[a].byPlatform = "yes"
    /\ store[a].state \in {"draft", "pending"} => store[a].byPlatform # "yes"

(* A party's suspension is never recorded without who did it and when: flags *)
(* and stamps are copied together through upgrades, clones and activations.  *)
StampForFlag ==
  \A a \in Agreements : store[a].state # "rejected" =>
    /\ store[a].byConsumer = "yes" => "suspensionByConsumer" \in store[a].stamps
    /\ store[a].byProducer = "yes" => "suspensionByProducer" \in store[a].stamps

(* Nothing happens to an archived or rejected agreement any more, neither on *)
(* a request nor when attributes change or a sibling is activated.           *)
TerminalStates ==
  [][\A a \in Agreements :
       store[a].state \in {"archived", "rejected"} => store'[a] = store[a]]_vars

(* A consumer never loses its access to an upgrade that gives it none: when  *)
(* a batch archives an agreement and writes another one too, another one of  *)
(* the pair is in force afterwards.                                          *)
ArchivedForSuccessor ==
  [][\A a, b \in Agreements :
       /\ a # b /\ store[a].state # "archived" /\ store'[a].state = "archived"
       /\ store'[b] # store[b]
       => \E c \in Agreements : store'[c].state \in InForce]_vars

(* An agreement a party had suspended becomes active again only when no flag *)
(* of any party is left, whoever asks (agreementStateByFlags).               *)
ResumedWithoutFlags ==
  [][\A a \in Agreements :
       store[a].state = "suspended" /\ store'[a].state = "active" =>
         "yes" \notin {store'[a].byConsumer, store'[a].byProducer, store'[a].byPlatform}]_vars

(* Of a consumer's agreements with an e-service at most one is in force, as  *)
(* long as the activation of neither went by a past state of the others.     *)
OneInForce ==
  \A a, b \in Agreements :
    store[a].state \in InForce /\ store[b].state \in InForce =>
      a = b \/ {a, b} \cap misread.siblings # {}

(* ... and at most one waits for the producer (verifySubmissionConflicting-  *)
(* Agreements), as long as neither submission went by a past state.          *)
OnePending ==
  \A a, b \in Agreements :
    store[a].state = "pending" /\ store[b].state = "pending" =>
      a = b \/ {a, b} \cap misread.siblings # {}

(* Nobody gains access without the attributes the descriptor requires, as    *)
(* they are or as a tenant event not yet handled says; the producer itself   *)
(* excepted, and the agreements a handler decides on past attributes.        *)
ActiveNeedsAttributes ==
  [][\A a \in Agreements :
       store[a].state # "active" /\ store'[a].state = "active" =>
         \/ Self \/ AllSatisfied(store'[a].descriptor, held)
         \/ \E i \in DOMAIN messages :
              AllSatisfied(store'[a].descriptor, messages[i].held)
         \/ a \in misread'.attributes]_vars

\* The event that the consumer lost a kind waits to be handled.
LossWaits(kind) ==
  \E i \in DOMAIN messages : messages[i].kind = kind /\ kind \notin messages[i].held

(* A revocation is not lost on its way to an agreement: while one is active  *)
(* without a certified or declared attribute it requires, the event of the   *)
(* loss waits to be handled, however often the agreements are activated,     *)
(* upgraded and recomputed in between and the recomputation fails half way.  *)
(* Excepted are the agreements a handler judged on past attributes, and      *)
(* those the recomputation passed over because it was shown their past.      *)
RevocationWaits ==
  \A a \in Agreements, kind \in {"certified", "declared"} :
    /\ ~Self /\ store[a].state = "active"
    /\ kind \in Requires[store[a].descriptor] \ held
    => LossWaits(kind) \/ a \in misread.attributes

=============================================================================
