---------------------------- MODULE CatalogProofs ----------------------------
(***************************************************************************)
(* Proofs about catalog-process: the lifecycle of descriptors, for any     *)
(* number of e-services, descriptors and agreements and any lag of the     *)
(* read model the model has (CatalogProcess), and the attributes of one    *)
(* descriptor, for any kinds, groups and attributes (DescriptorAttributes). *)
(***************************************************************************)
EXTENDS CatalogProcess, DescriptorAttributes, FiniteSetTheorems, WellFoundedInduction, TLAPS

\* A newer version of d's e-service has been published.
Superseded(d) ==
  /\ WasPublished(d)
  /\ \E n \in Descriptors : /\ WasPublished(n) /\ Siblings(d, n)
                            /\ descriptor[d].version < descriptor[n].version

\* Where anything was published there is a newest one (a set of versions that
\* grows for ever would have none).
NewestExists ==
  \A d \in Descriptors : WasPublished(d) =>
    \E n \in Descriptors : WasPublished(n) /\ Siblings(d, n) /\ Newest(n)

Order == VersionsUnique /\ DraftIsNewest /\ PublishedIsNewest /\ NewestIsOffered
           /\ NewestExists

\* What PublicationIsFinal says of a step, and a little more.
Final ==
  \A d \in Descriptors : WasPublished(d) =>
    /\ WasPublished(d)'
    /\ descriptor'[d].eservice = descriptor[d].eservice
    /\ descriptor'[d].version = descriptor[d].version
    /\ descriptor[d].state = "archived" => descriptor'[d] = descriptor[d]

\* Whatever the archiver may still see, it only asks for what is superseded.
ArchiverInv ==
  /\ \A d \in archiving : Superseded(d)
  /\ \A ds \in was.descriptor, d \in Descriptors : Archivable(ds, d) => Superseded(d)

Inv == TypeOK /\ Order /\ ArchiverInv

-----------------------------------------------------------------------------
(* Type correctness *)

LEMMA TypeInit == Init => TypeOK
  BY DEF Init, TypeOK, NoEService, NoDescriptor, NoAgreement, NoRisk, EService,
         Descriptor, Agreement, RiskState, AgreementState, DelegationState

\* Dropping an interface leaves the rest of a descriptor alone.
LEMMA WithoutInterfaceType ==
  ASSUME NEW x \in Descriptor
  PROVE  /\ WithoutInterface(x) \in Descriptor
         /\ WithoutInterface(x).state = x.state
         /\ WithoutInterface(x).eservice = x.eservice
         /\ WithoutInterface(x).version = x.version
         /\ WithoutInterface(x).audience = x.audience
         /\ x = NoDescriptor => WithoutInterface(x) = NoDescriptor
<1>1. NoDescriptor.interface = FALSE
  BY DEF NoDescriptor
<1>2. x = NoDescriptor => WithoutInterface(x) = NoDescriptor
  BY <1>1 DEF WithoutInterface, NoDescriptor
<1> QED BY <1>2 DEF WithoutInterface, Descriptor

\* Setting the state and contents of a descriptor that exists.
LEMMA TypeReplace ==
  ASSUME TypeOK, NEW d \in Descriptors, descriptor[d].state # "absent",
         NEW state \in DescriptorState, NEW interface \in BOOLEAN, NEW audience \in BOOLEAN,
         Replace(d, [descriptor[d] EXCEPT !.state = state, !.interface = interface,
                                          !.audience = audience])
  PROVE  TypeOK'
<1> DEFINE new == [descriptor[d] EXCEPT !.state = state, !.interface = interface,
                                        !.audience = audience]
<1>a. descriptor \in [Descriptors -> Descriptor]
  BY DEF TypeOK
<1>b. /\ new \in Descriptor /\ new.state # "absent"
      /\ new.eservice = descriptor[d].eservice /\ new.version = descriptor[d].version
  BY <1>a DEF Descriptor, DescriptorState
<1>c. descriptor' = [descriptor EXCEPT ![d] = new]
  BY DEF Replace
<1> HIDE DEF new
<1>1. descriptor' \in [Descriptors -> Descriptor]
  BY <1>a, <1>b, <1>c
<1>2. /\ descriptor'[d].state # "absent"
      /\ descriptor'[d].eservice = descriptor[d].eservice
      /\ descriptor'[d].version = descriptor[d].version
  BY <1>a, <1>b, <1>c
<1>3. \A n \in Descriptors \ {d} : descriptor'[n] = descriptor[n]
  BY <1>a, <1>c
<1> QED
  BY <1>1, <1>2, <1>3 DEF TypeOK, Replace, Elsewhere, OtherStreams

LEMMA TypeStep == Inv /\ [Next]_vars => TypeOK'
<1> SUFFICES ASSUME TypeOK, \A d \in archiving : Superseded(d), [Next]_vars PROVE TypeOK'
  BY DEF Inv, ArchiverInv
<1> USE DEF TypeOK
<1>1. ASSUME NEW e \in EServices, NEW d \in Descriptors, CreateEService(e, d) PROVE TypeOK'
  <2>1. eservice' \in [EServices -> EService] /\ eservice'[e].exists
        /\ \A x \in EServices \ {e} : eservice'[x] = eservice[x]
    BY <1>1 DEF CreateEService, EService, NoRisk, RiskState
  <2>2. /\ descriptor' \in [Descriptors -> Descriptor]
        /\ \A n \in Descriptors \ {d} : descriptor'[n] = descriptor[n]
        /\ descriptor'[d].state # "absent" /\ descriptor'[d].eservice = e
        /\ descriptor'[d].version > 0
    BY <1>1 DEF CreateEService, Descriptor, DescriptorState
  <2> QED BY <1>1, <2>1, <2>2 DEF CreateEService, Elsewhere, OtherStreams
<1>2. ASSUME NEW e \in EServices, UpdateEService(e) PROVE TypeOK'
  <2>1. PICK receive \in BOOLEAN, newTechnology \in BOOLEAN :
          /\ eservice' = [eservice EXCEPT ![e] =
               [exists |-> TRUE, receive |-> receive,
                risk |-> IF receive THEN eservice[e].risk ELSE NoRisk]]
          /\ descriptor' = [d \in Descriptors |->
               IF d \in Of(e) /\ newTechnology THEN WithoutInterface(descriptor[d])
               ELSE descriptor[d]]
    BY <1>2 DEF UpdateEService
  <2>2. /\ eservice' \in [EServices -> EService]
        /\ \A x \in EServices : eservice'[x].exists = eservice[x].exists
    BY <1>2, <2>1 DEF UpdateEService, EService, NoRisk, RiskState
  <2>3. /\ descriptor' \in [Descriptors -> Descriptor]
        /\ \A n \in Descriptors : /\ descriptor'[n].state = descriptor[n].state
                                  /\ descriptor'[n].eservice = descriptor[n].eservice
                                  /\ descriptor'[n].version = descriptor[n].version
                                  /\ descriptor[n] = NoDescriptor => descriptor'[n] = NoDescriptor
    <3>1. ASSUME NEW n \in Descriptors
          PROVE  /\ descriptor'[n] \in Descriptor
                 /\ descriptor'[n].state = descriptor[n].state
                 /\ descriptor'[n].eservice = descriptor[n].eservice
                 /\ descriptor'[n].version = descriptor[n].version
                 /\ descriptor[n] = NoDescriptor => descriptor'[n] = NoDescriptor
      <4>1. descriptor[n] \in Descriptor
        OBVIOUS
      <4>2. descriptor'[n] \in {descriptor[n], WithoutInterface(descriptor[n])}
        BY <2>1
      <4> QED BY <4>1, <4>2, WithoutInterfaceType
    <3>2. descriptor' = [n \in Descriptors |-> descriptor'[n]]
      BY <2>1
    <3> QED BY <3>1, <3>2
  <2> QED BY <1>2, <2>2, <2>3 DEF UpdateEService, Elsewhere, OtherStreams
<1>3. ASSUME NEW e \in EServices, NEW ds \in SUBSET Descriptors, ds \subseteq Of(e),
             Of(e) \cap ds # {} \/ Of(e) = {}, DeleteDescriptors(e, ds), Elsewhere
      PROVE  TypeOK'
  <2>1. /\ descriptor' \in [Descriptors -> Descriptor]
        /\ \A n \in Descriptors : descriptor'[n] = IF n \in ds THEN NoDescriptor ELSE descriptor[n]
    BY <1>3 DEF DeleteDescriptors, Descriptor, NoDescriptor
  <2>2. /\ eservice' \in [EServices -> EService]
        /\ \A x \in EServices \ {e} : eservice'[x] = eservice[x]
        /\ ~(Of(e) \subseteq ds) => eservice' = eservice
    BY <1>3 DEF DeleteDescriptors, EService, NoEService, NoRisk, RiskState
  <2>3. \A n \in Descriptors : descriptor'[n].state # "absent" =>
          /\ descriptor'[n] = descriptor[n]
          /\ eservice'[descriptor[n].eservice].exists
    BY <2>1, <2>2 DEF Of, NoDescriptor
  <2>4. \A n \in Descriptors : descriptor'[n].state = "absent" => descriptor'[n] = NoDescriptor
    BY <2>1
  <2> QED BY <1>3, <2>1, <2>2, <2>3, <2>4 DEF Elsewhere, OtherStreams
<1>4. ASSUME NEW e \in EServices, DeleteEService(e) PROVE TypeOK'
  BY <1>4, <1>3 DEF DeleteEService, Of
<1>5. ASSUME NEW e \in EServices, ChangeDelegation(e) PROVE TypeOK'
  BY <1>5 DEF ChangeDelegation, Around, DelegationState
<1>6. ASSUME NEW e \in EServices, NEW d \in Descriptors, CreateDescriptor(e, d) PROVE TypeOK'
  <2>1. PICK v \in NextVersions(e), audience \in BOOLEAN :
          Replace(d, [eservice |-> e, version |-> v, state |-> "draft",
                      interface |-> FALSE, audience |-> audience])
    BY <1>6 DEF CreateDescriptor
  <2>2. v \in Nat /\ v > 0
    BY DEF NextVersions, Of, Descriptor
  <2>3. /\ descriptor' \in [Descriptors -> Descriptor]
        /\ \A n \in Descriptors \ {d} : descriptor'[n] = descriptor[n]
        /\ descriptor'[d].state # "absent" /\ descriptor'[d].eservice = e
        /\ descriptor'[d].version > 0
    BY <2>1, <2>2 DEF Replace, Descriptor, DescriptorState
  <2> QED BY <1>6, <2>1, <2>3 DEF CreateDescriptor, Replace, Elsewhere, OtherStreams
<1>7. ASSUME NEW e \in EServices, NEW from \in Descriptors, NEW d \in Descriptors,
             CloneDescriptor(from, e, d)
      PROVE  TypeOK'
  <2>1. eservice' \in [EServices -> EService] /\ eservice'[e].exists
        /\ \A x \in EServices \ {e} : eservice'[x] = eservice[x]
    BY <1>7 DEF CloneDescriptor, EService
  <2>2. /\ descriptor' \in [Descriptors -> Descriptor]
        /\ \A n \in Descriptors \ {d} : descriptor'[n] = descriptor[n]
        /\ descriptor'[d].state # "absent" /\ descriptor'[d].eservice = e
        /\ descriptor'[d].version > 0
    <3> DEFINE new == [descriptor[from] EXCEPT !.eservice = e, !.version = 1, !.state = "draft"]
    <3>1. descriptor[from] \in Descriptor
      OBVIOUS
    <3>2. /\ new \in Descriptor /\ new.state # "absent"
          /\ new.eservice = e /\ new.version = 1
      BY <3>1 DEF Descriptor, DescriptorState
    <3>3. descriptor' = [descriptor EXCEPT ![d] = new]
      BY <1>7 DEF CloneDescriptor
    <3> HIDE DEF new
    <3> QED BY <3>2, <3>3
  <2> QED BY <1>7, <2>1, <2>2 DEF CloneDescriptor, Elsewhere, OtherStreams
<1>8. ASSUME NEW e \in EServices, NEW r \in RiskAnalyses,
             CreateRiskAnalysis(e, r) \/ UpdateRiskAnalysis(e, r) \/ DeleteRiskAnalysis(e, r)
      PROVE  TypeOK'
  <2>1. PICK allowed \in SUBSET RiskState, value \in RiskState : SetRiskAnalysis(e, r, allowed, value)
    BY <1>8 DEF CreateRiskAnalysis, UpdateRiskAnalysis, DeleteRiskAnalysis, RiskState
  <2>2. /\ eservice' \in [EServices -> EService]
        /\ \A x \in EServices : eservice'[x].exists = eservice[x].exists
    BY <2>1 DEF SetRiskAnalysis, EService
  <2> QED BY <2>1, <2>2 DEF SetRiskAnalysis, Elsewhere, OtherStreams
<1>9. ASSUME NEW d \in Descriptors, DeleteDraftDescriptor(d) PROVE TypeOK'
  <2>1. descriptor[d].eservice \in EServices /\ d \in Of(descriptor[d].eservice)
    BY <1>9 DEF DeleteDraftDescriptor, Of
  <2> QED BY <1>9, <1>3, <2>1 DEF DeleteDraftDescriptor
<1>10. ASSUME NEW d \in Descriptors, 
              UpdateDraftDescriptor(d) \/ UploadInterface(d) \/ DeleteInterface(d)
       PROVE  TypeOK'
  <2>1. descriptor[d].state \in DescriptorState /\ descriptor[d] \in Descriptor
    BY <1>10 DEF UpdateDraftDescriptor, UploadInterface, DeleteInterface, DescriptorState, Offered
  <2>2. PICK interface \in BOOLEAN, audience \in BOOLEAN :
          Replace(d, [descriptor[d] EXCEPT !.state = descriptor[d].state,
                        !.interface = interface, !.audience = audience])
    <3>1. CASE UpdateDraftDescriptor(d)
      <4>1. PICK audience \in BOOLEAN : Replace(d, [descriptor[d] EXCEPT !.audience = audience])
        BY <3>1 DEF UpdateDraftDescriptor
      <4>2. [descriptor[d] EXCEPT !.audience = audience]
              = [descriptor[d] EXCEPT !.state = descriptor[d].state,
                   !.interface = descriptor[d].interface, !.audience = audience]
        BY <2>1 DEF Descriptor
      <4> QED BY <4>1, <4>2, <2>1 DEF Descriptor
    <3>2. CASE UploadInterface(d) \/ DeleteInterface(d)
      <4>1. PICK interface \in BOOLEAN : Replace(d, [descriptor[d] EXCEPT !.interface = interface])
        BY <3>2 DEF UploadInterface, DeleteInterface
      <4>2. [descriptor[d] EXCEPT !.interface = interface]
              = [descriptor[d] EXCEPT !.state = descriptor[d].state,
                   !.interface = interface, !.audience = descriptor[d].audience]
        BY <2>1 DEF Descriptor
      <4> QED BY <4>1, <4>2, <2>1 DEF Descriptor
    <3> QED BY <1>10, <3>1, <3>2
  <2> QED BY <2>1, <2>2, TypeReplace DEF DescriptorState

<1>11. ASSUME NEW d \in Descriptors, NEW state \in DescriptorState,
              descriptor[d].state # "absent", SetState(d, state)
       PROVE  TypeOK'
  <2>1. [descriptor[d] EXCEPT !.state = state]
          = [descriptor[d] EXCEPT !.state = state, !.interface = descriptor[d].interface,
                                  !.audience = descriptor[d].audience]
    BY DEF Descriptor
  <2>2. descriptor[d].interface \in BOOLEAN /\ descriptor[d].audience \in BOOLEAN
    BY DEF Descriptor
  <2> QED BY <1>11, <2>1, <2>2, TypeReplace DEF SetState
<1>12. ASSUME NEW d \in Descriptors, descriptor[d].state # "absent", Publication(d) PROVE TypeOK'
  <2>1. CASE SetState(d, "published")
    BY <1>11, <1>12, <2>1 DEF DescriptorState
  <2>2. ASSUME NEW o \in Descriptors, descriptor[o].state = "published",
               NEW s \in {"archived", "deprecated"},
               descriptor' = [descriptor EXCEPT ![d].state = "published", ![o].state = s],
               UNCHANGED eservice, OtherStreams, misread' \subseteq Descriptors
        PROVE  TypeOK'
    <3>1. \A n \in Descriptors \ {d, o} : descriptor'[n] = descriptor[n]
      BY <2>2
    <3>2. /\ descriptor' \in [Descriptors -> Descriptor]
          /\ \A n \in {d, o} : /\ descriptor'[n].state # "absent"
                              /\ descriptor'[n].eservice = descriptor[n].eservice
                              /\ descriptor'[n].version = descriptor[n].version
      <4> DEFINE new == [descriptor[d] EXCEPT !.state = "published"]
                 middle == [descriptor EXCEPT ![d] = new]
                 old == [middle[o] EXCEPT !.state = s]
      <4>1. descriptor \in [Descriptors -> Descriptor]
        OBVIOUS
      <4>2. /\ new \in Descriptor /\ new.state # "absent"
            /\ new.eservice = descriptor[d].eservice /\ new.version = descriptor[d].version
        BY <4>1 DEF Descriptor, DescriptorState
      <4> HIDE DEF new
      <4>3. middle \in [Descriptors -> Descriptor] /\ middle[d] = new
        BY <4>1, <4>2
      <4>4. \A n \in Descriptors \ {d} : middle[n] = descriptor[n]
        BY <4>1
      <4>5. middle[o].eservice = descriptor[o].eservice /\ middle[o].version = descriptor[o].version
        BY <4>2, <4>3, <4>4
      <4> HIDE DEF middle
      <4>6. /\ old \in Descriptor /\ old.state # "absent"
            /\ old.eservice = descriptor[o].eservice /\ old.version = descriptor[o].version
        BY <2>2, <4>3, <4>5 DEF Descriptor, DescriptorState
      <4>7. descriptor' = [middle EXCEPT ![o] = old]
        BY <2>2 DEF middle, new
      <4> HIDE DEF old
      <4>8. descriptor' \in [Descriptors -> Descriptor] /\ descriptor'[o] = old
        BY <4>3, <4>6, <4>7
      <4>9. d # o => descriptor'[d] = new
        BY <4>3, <4>7
      <4> QED BY <4>2, <4>6, <4>8, <4>9
    <3> QED BY <1>12, <2>2, <3>1, <3>2 DEF Elsewhere, OtherStreams
  <2> QED BY <1>12, <2>1, <2>2 DEF Publication, Of, Decided
<1>13. ASSUME NEW d \in Descriptors,
              \/ PublishDescriptor(d) \/ ApproveDescriptor(d) \/ RejectDescriptor(d)
              \/ SuspendDescriptor(d) \/ ActivateDescriptor(d)
       PROVE  TypeOK'
  BY <1>13, <1>11, <1>12 DEF PublishDescriptor, ApproveDescriptor, RejectDescriptor,
     SuspendDescriptor, ActivateDescriptor, DescriptorState
<1>14. ASSUME NEW a \in Agreements,
              DeleteAgreement(a) \/ ActivateAgreement(a) \/ RejectAgreement(a) \/ ArchiveAgreement(a)
       PROVE  TypeOK'
  <2>1. /\ agreement' \in [Agreements -> Agreement]
        /\ agreement'[a].state # "absent" => agreement'[a].descriptor = agreement[a].descriptor
        /\ \A b \in Agreements \ {a} : agreement'[b] = agreement[b]
        /\ agreement[a].state \in {"waiting", "inForce"}
    BY <1>14 DEF DeleteAgreement, ActivateAgreement, RejectAgreement, ArchiveAgreement,
       Agreement, AgreementState, NoAgreement
  <2>3. misread' \subseteq Descriptors
    BY <1>14, <2>1 DEF DeleteAgreement, ActivateAgreement, RejectAgreement, ArchiveAgreement, Decided
  <2>2. messages' \subseteq {b \in Agreements : agreement'[b].state = "archived"}
    <3>1. \/ messages' = messages
          \/ messages' = messages \cup {a} /\ agreement'[a].state = "archived"
      BY <1>14 DEF DeleteAgreement, ActivateAgreement, RejectAgreement, ArchiveAgreement, Agreement
    <3> QED BY <2>1, <3>1
  <2> QED
    BY <1>14, <2>1, <2>2, <2>3 DEF DeleteAgreement, ActivateAgreement, RejectAgreement,
       ArchiveAgreement, Around
<1>15. ASSUME NEW a \in Agreements, NEW d \in Descriptors, CreateAgreement(a, d) PROVE TypeOK'
  BY <1>15 DEF CreateAgreement, Decided, Around, Agreement, AgreementState, NoAgreement
<1>16. ASSUME NEW a \in Agreements, NEW n \in Agreements, NEW d \in Descriptors,
              UpgradeAgreement(a, n, d)
       PROVE  TypeOK'
  <2>1. /\ agreement' \in [Agreements -> Agreement]
        /\ \A b \in Agreements \ {a, n} : agreement'[b] = agreement[b]
        /\ a # n /\ agreement'[a].state = "archived"
        /\ agreement'[a].descriptor = agreement[a].descriptor
        /\ agreement[a].state = "inForce" /\ agreement[n].state = "absent"
        /\ agreement'[n].descriptor = d
    BY <1>16 DEF UpgradeAgreement, Agreement, AgreementState, NoAgreement
  <2>2. messages' \subseteq {b \in Agreements : agreement'[b].state = "archived"}
    BY <1>16, <2>1 DEF UpgradeAgreement
  <2> QED BY <1>16, <2>1, <2>2 DEF UpgradeAgreement, Decided, Around
<1>17. ASSUME NEW a \in Agreements, RequestArchiving(a) \/ SkipArchiving(a) PROVE TypeOK'
  <2>1. agreement[a].descriptor \in Descriptors
    BY <1>17 DEF RequestArchiving, SkipArchiving
  <2> QED BY <1>17, <2>1 DEF RequestArchiving, SkipArchiving, Decided
<1>18. ASSUME NEW d \in Descriptors, ArchiveDescriptor(d) PROVE TypeOK'
  <2>1. descriptor[d].state # "absent"
    BY <1>18 DEF ArchiveDescriptor, Superseded, WasPublished, Offered
  <2>2. /\ descriptor' \in [Descriptors -> Descriptor]
        /\ descriptor'[d].state = "archived"
        /\ descriptor'[d].eservice = descriptor[d].eservice
        /\ descriptor'[d].version = descriptor[d].version
        /\ \A n \in Descriptors \ {d} : descriptor'[n] = descriptor[n]
    BY <1>18 DEF ArchiveDescriptor, Descriptor, DescriptorState
  <2> QED BY <1>18, <2>1, <2>2 DEF ArchiveDescriptor
<1>19. CASE UNCHANGED vars
  BY <1>19 DEF vars
<1> QED
  BY <1>1, <1>2, <1>4, <1>5, <1>6, <1>7, <1>8, <1>9, <1>10, <1>13, <1>14, <1>15, <1>16,
     <1>18, <1>19, <1>17
     DEF Next, EServiceRequest, DescriptorRequest, AgreementRequest, Archiver

-----------------------------------------------------------------------------
(* The order of versions, by the way a step changes the descriptors *)

LEMMA ExistsState ==
  TypeOK => \A d \in Descriptors : Exists(d) <=> descriptor[d].state # "absent"
  BY DEF TypeOK, Exists, NoDescriptor

LEMMA ExistsStateAfter ==
  TypeOK' => \A d \in Descriptors : Exists(d)' <=> descriptor'[d].state # "absent"
  BY DEF TypeOK, Exists, NoDescriptor

\* n is as it was, as far as the order goes.
Same(n) == /\ descriptor'[n].eservice = descriptor[n].eservice
           /\ descriptor'[n].version = descriptor[n].version
           /\ descriptor'[n].state = descriptor[n].state

\* The order of what was published only looks at what was published.
LEMMA OrderOfPublished ==
  ASSUME Order, NEW d \in Descriptors,
         \A n \in Descriptors : WasPublished(n)' <=> WasPublished(n),
         \A n \in Descriptors : WasPublished(n) =>
            /\ descriptor'[n].eservice = descriptor[n].eservice
            /\ descriptor'[n].version = descriptor[n].version,
         \A n \in Descriptors \ {d} : WasPublished(n) => descriptor'[n].state = descriptor[n].state,
         WasPublished(d) => /\ descriptor'[d].state = "published" => Newest(d)
                            /\ Newest(d) => descriptor'[d].state \in {"published", "suspended"}
  PROVE  PublishedIsNewest' /\ NewestIsOffered' /\ NewestExists'
<1>1. \A n \in Descriptors : WasPublished(n) => (Newest(n)' <=> Newest(n))
  <2> SUFFICES ASSUME NEW n \in Descriptors, WasPublished(n) PROVE Newest(n)' <=> Newest(n)
    OBVIOUS
  <2>1. \A x \in Descriptors :
          (WasPublished(x)' /\ Siblings(n, x)' => descriptor'[x].version <= descriptor'[n].version)
          <=> (WasPublished(x) /\ Siblings(n, x) => descriptor[x].version <= descriptor[n].version)
    BY DEF Siblings
  <2> QED BY <2>1 DEF Newest
<1>2. PublishedIsNewest'
  <2> SUFFICES ASSUME NEW n \in Descriptors, descriptor'[n].state = "published" PROVE Newest(n)'
    BY DEF PublishedIsNewest
  <2>1. WasPublished(n)' /\ WasPublished(n)
    BY DEF WasPublished, Offered
  <2> QED BY <1>1, <2>1 DEF Order, PublishedIsNewest
<1>3. NewestIsOffered'
  BY <1>1 DEF Order, NewestIsOffered
<1>4. NewestExists'
  BY <1>1 DEF Order, NewestExists, Siblings
<1> QED BY <1>2, <1>3, <1>4

LEMMA OrderSame ==
  ASSUME TypeOK, TypeOK', Order, \A n \in Descriptors : Same(n)
  PROVE  Order'
<1>1. \A n \in Descriptors : /\ WasPublished(n)' <=> WasPublished(n)
                             /\ Unpublished(n)' <=> Unpublished(n)
                             /\ Exists(n)' <=> Exists(n)
  BY ExistsState, ExistsStateAfter DEF WasPublished, Unpublished, Same, Offered
<1>2. VersionsUnique' /\ DraftIsNewest'
  BY <1>1 DEF Order, VersionsUnique, DraftIsNewest, Siblings, Same
<1>3. PublishedIsNewest' /\ NewestIsOffered' /\ NewestExists'
  <2>1. CASE Descriptors = {}
    BY <2>1 DEF PublishedIsNewest, NewestIsOffered, NewestExists
  <2>2. ASSUME NEW d \in Descriptors PROVE PublishedIsNewest' /\ NewestIsOffered' /\ NewestExists'
    <3>1. WasPublished(d) => /\ descriptor'[d].state = "published" => Newest(d)
                             /\ Newest(d) => descriptor'[d].state \in {"published", "suspended"}
      BY DEF Same, Order, PublishedIsNewest, NewestIsOffered
    <3>2. \A n \in Descriptors : /\ descriptor'[n].eservice = descriptor[n].eservice
                                 /\ descriptor'[n].version = descriptor[n].version
                                 /\ descriptor'[n].state = descriptor[n].state
      BY DEF Same
    <3> QED BY <1>1, <3>1, <3>2, OrderOfPublished
  <2> QED BY <2>1, <2>2
<1> QED BY <1>2, <1>3 DEF Order

\* createEService, cloneDescriptor, createDescriptor
LEMMA OrderNewDraft ==
  ASSUME TypeOK, TypeOK', Order, NEW d \in Descriptors, NEW e \in EServices,
         descriptor[d].state = "absent",
         descriptor'[d].state = "draft", descriptor'[d].eservice = e,
         \A n \in Of(e) : ~Unpublished(n) /\ descriptor[n].version < descriptor'[d].version,
         \A n \in Descriptors \ {d} : Same(n)
  PROVE  Order'
<1>1. \A n \in Descriptors : WasPublished(n)' <=> WasPublished(n)
  BY DEF WasPublished, Same, Offered
<1>2. /\ \A n \in Descriptors \ {d} : /\ Exists(n)' <=> Exists(n)
                                      /\ Unpublished(n)' <=> Unpublished(n)
                                      /\ descriptor'[n].eservice = descriptor[n].eservice
                                      /\ descriptor'[n].version = descriptor[n].version
      /\ Exists(d)' /\ Unpublished(d)'
  BY ExistsState, ExistsStateAfter DEF Same, Unpublished
<1>3. \A n \in Descriptors : Siblings(d, n)' /\ n # d =>
         ~Unpublished(n) /\ descriptor[n].version < descriptor'[d].version
  BY <1>2 DEF Siblings, Of
<1>4. \A n \in Descriptors : descriptor[n].version \in Nat /\ descriptor'[n].version \in Nat
  BY DEF TypeOK, Descriptor
<1>5. VersionsUnique'
  <2> SUFFICES ASSUME NEW x \in Descriptors, NEW y \in Descriptors, Exists(x)', Exists(y)',
                      Siblings(x, y)', descriptor'[x].version = descriptor'[y].version
               PROVE  x = y
    BY DEF VersionsUnique
  <2>1. CASE x # d /\ y # d
    BY <2>1, <1>2 DEF Order, VersionsUnique, Siblings
  <2>2. CASE x = d \/ y = d
    BY <2>2, <1>2, <1>3, <1>4 DEF Siblings
  <2> QED BY <2>1, <2>2
<1>6. DraftIsNewest'
  <2> SUFFICES ASSUME NEW x \in Descriptors, NEW y \in Descriptors, Unpublished(x)', Exists(y)',
                      Siblings(x, y)', y # x
               PROVE  ~Unpublished(y)' /\ descriptor'[y].version < descriptor'[x].version
    BY DEF DraftIsNewest
  <2>1. CASE x # d /\ y # d
    BY <2>1, <1>2 DEF Order, DraftIsNewest, Siblings
  <2>2. CASE x = d
    BY <2>2, <1>2, <1>3
  <2>3. CASE y = d
    BY <2>3, <1>2, <1>3 DEF Siblings
  <2> QED BY <2>1, <2>2, <2>3
<1>7. ~WasPublished(d)
  BY DEF WasPublished, Offered
<1>8. \A n \in Descriptors \ {d} : descriptor'[n].state = descriptor[n].state
  BY DEF Same
<1>9. PublishedIsNewest' /\ NewestIsOffered' /\ NewestExists'
  BY <1>1, <1>2, <1>7, <1>8, OrderOfPublished
<1> QED BY <1>5, <1>6, <1>9 DEF Order

\* deleteEService, deleteDraftDescriptor
LEMMA OrderDelete ==
  ASSUME TypeOK, TypeOK', Order, NEW ds \in SUBSET Descriptors, NEW d \in Descriptors,
         \A n \in ds : descriptor[n].state = "draft" /\ descriptor'[n] = NoDescriptor,
         \A n \in Descriptors \ ds : Same(n)
  PROVE  Order'
<1>1. \A n \in Descriptors : WasPublished(n)' <=> WasPublished(n)
  BY DEF WasPublished, Same, Offered, NoDescriptor
<1>2. \A n \in Descriptors : Exists(n)' => Same(n) /\ Exists(n)
  BY ExistsState, ExistsStateAfter DEF NoDescriptor, Same
<1>3. VersionsUnique'
  BY <1>2 DEF Order, VersionsUnique, Siblings, Same
<1>4. DraftIsNewest'
  BY <1>2, ExistsStateAfter DEF Order, DraftIsNewest, Unpublished, Siblings, Same
<1>5. \A n \in Descriptors : WasPublished(n) => Same(n)
  BY DEF WasPublished, Offered
<1>6. WasPublished(d) => /\ descriptor'[d].state = "published" => Newest(d)
                         /\ Newest(d) => descriptor'[d].state \in {"published", "suspended"}
  BY <1>5 DEF Same, Order, PublishedIsNewest, NewestIsOffered
<1>7. \A n \in Descriptors : WasPublished(n) => /\ descriptor'[n].eservice = descriptor[n].eservice
                                                /\ descriptor'[n].version = descriptor[n].version
                                                /\ descriptor'[n].state = descriptor[n].state
  BY <1>5 DEF Same
<1>8. PublishedIsNewest' /\ NewestIsOffered' /\ NewestExists'
  BY <1>1, <1>6, <1>7, OrderOfPublished
<1> QED BY <1>3, <1>4, <1>8 DEF Order

\* The transitions of a descriptor that is neither created nor deleted.
Moves(d) ==
  /\ descriptor'[d].eservice = descriptor[d].eservice
  /\ descriptor'[d].version = descriptor[d].version
  /\ \A n \in Descriptors \ {d} : Same(n)

\* submission by the delegate and rejection
LEMMA OrderUnpublished ==
  ASSUME TypeOK, TypeOK', Order, NEW d \in Descriptors, Unpublished(d), Unpublished(d)', Moves(d)
  PROVE  Order'
<1>1. \A n \in Descriptors : /\ WasPublished(n)' <=> WasPublished(n)
                             /\ Unpublished(n)' <=> Unpublished(n)
                             /\ Exists(n)' <=> Exists(n)
                             /\ descriptor'[n].eservice = descriptor[n].eservice
                             /\ descriptor'[n].version = descriptor[n].version
                             /\ WasPublished(n) => descriptor'[n].state = descriptor[n].state
  BY ExistsState, ExistsStateAfter DEF Moves, WasPublished, Unpublished, Same, Offered
<1>2. VersionsUnique' /\ DraftIsNewest'
  BY <1>1 DEF Order, VersionsUnique, DraftIsNewest, Siblings
<1>3. ~WasPublished(d)
  BY DEF WasPublished, Unpublished, Offered
<1>4. PublishedIsNewest' /\ NewestIsOffered' /\ NewestExists'
  BY <1>1, <1>3, OrderOfPublished
<1> QED BY <1>2, <1>4 DEF Order

\* suspension, reactivation and archiving
LEMMA OrderPublished ==
  ASSUME TypeOK, TypeOK', Order, NEW d \in Descriptors, WasPublished(d), WasPublished(d)', Moves(d),
         descriptor'[d].state = "published" => Newest(d),
         Newest(d) => descriptor'[d].state \in {"published", "suspended"}
  PROVE  Order'
<1>1. \A n \in Descriptors : /\ WasPublished(n)' <=> WasPublished(n)
                             /\ Unpublished(n)' <=> Unpublished(n)
                             /\ Exists(n)' <=> Exists(n)
                             /\ descriptor'[n].eservice = descriptor[n].eservice
                             /\ descriptor'[n].version = descriptor[n].version
                             /\ n # d => descriptor'[n].state = descriptor[n].state
  BY ExistsState, ExistsStateAfter DEF Moves, WasPublished, Unpublished, Same, Offered
<1>2. VersionsUnique' /\ DraftIsNewest'
  BY <1>1 DEF Order, VersionsUnique, DraftIsNewest, Siblings
<1>3. PublishedIsNewest' /\ NewestIsOffered' /\ NewestExists'
  BY <1>1, OrderOfPublished
<1> QED BY <1>2, <1>3 DEF Order

\* What a publication does to the descriptors: a published one gives way.
Gives(d) ==
  /\ descriptor'[d].state = "published"
  /\ descriptor'[d].eservice = descriptor[d].eservice
  /\ descriptor'[d].version = descriptor[d].version
  /\ \A n \in Descriptors \ {d} :
       /\ descriptor'[n].eservice = descriptor[n].eservice
       /\ descriptor'[n].version = descriptor[n].version
       /\ descriptor'[n].state # descriptor[n].state =>
            /\ Siblings(d, n) /\ descriptor[n].state = "published"
            /\ descriptor'[n].state \in {"archived", "deprecated"}
       /\ descriptor[n].state = "archived" => descriptor'[n] = descriptor[n]

\* Nothing else that is published remains beside d.
LEMMA PublicationGives ==
  ASSUME TypeOK, Order, NEW d \in Descriptors, Unpublished(d), Publication(d)
  PROVE  Gives(d) /\ \A n \in Descriptors \ {d} : Siblings(d, n) => descriptor'[n].state # "published"
<1> USE DEF Siblings
<1>1. CASE SetState(d, "published") /\ \A o \in Of(descriptor[d].eservice) : descriptor[o].state # "published"
  <2>1. /\ descriptor'[d].state = "published"
        /\ descriptor'[d].eservice = descriptor[d].eservice
        /\ descriptor'[d].version = descriptor[d].version
        /\ \A n \in Descriptors \ {d} : descriptor'[n] = descriptor[n]
    BY <1>1 DEF SetState, Replace, TypeOK, Descriptor
  <2> QED BY <1>1, <2>1 DEF Gives, Of
<1>2. ASSUME NEW o \in Of(descriptor[d].eservice), descriptor[o].state = "published",
             NEW s \in {"archived", "deprecated"},
             descriptor' = [descriptor EXCEPT ![d].state = "published", ![o].state = s]
      PROVE  /\ Gives(d)
             /\ \A n \in Descriptors \ {d} : Siblings(d, n) => descriptor'[n].state # "published"
  <2>1. o \in Descriptors /\ o # d /\ Siblings(d, o)
    BY <1>2 DEF Of, Unpublished
  <2>2. /\ descriptor'[d].state = "published"
        /\ descriptor'[d].eservice = descriptor[d].eservice
        /\ descriptor'[d].version = descriptor[d].version
        /\ descriptor'[o].state = s
        /\ descriptor'[o].eservice = descriptor[o].eservice
        /\ descriptor'[o].version = descriptor[o].version
        /\ \A n \in Descriptors \ {d, o} : descriptor'[n] = descriptor[n]
    BY <1>2, <2>1 DEF TypeOK, Descriptor
  <2>3. ASSUME NEW n \in Descriptors, n # o, Siblings(d, n) PROVE descriptor[n].state # "published"
    <3> SUFFICES ASSUME descriptor[n].state = "published" PROVE FALSE
      OBVIOUS
    <3>1. Newest(n) /\ Newest(o) /\ WasPublished(n) /\ WasPublished(o)
      BY <1>2, <2>1 DEF Order, PublishedIsNewest, WasPublished, Offered
    <3>2. descriptor[n].version = descriptor[o].version
      <4>1. descriptor[n].version \in Nat /\ descriptor[o].version \in Nat
        BY <2>1 DEF TypeOK, Descriptor
      <4>2. descriptor[n].version <= descriptor[o].version
        BY <2>1, <2>3, <3>1 DEF Newest
      <4>3. descriptor[o].version <= descriptor[n].version
        BY <2>1, <2>3, <3>1 DEF Newest
      <4> QED BY <4>1, <4>2, <4>3
    <3>3. Exists(n) /\ Exists(o)
      BY <1>2, <2>1, ExistsState
    <3> QED BY <2>1, <2>3, <3>2, <3>3 DEF Order, VersionsUnique
  <2> QED BY <1>2, <2>1, <2>2, <2>3 DEF Gives
<1> QED BY <1>1, <1>2 DEF Publication, SetState

\* publication, by the producer or on its approval
LEMMA OrderPublication ==
  ASSUME TypeOK, TypeOK', Order, NEW d \in Descriptors, Unpublished(d), Gives(d),
         \A n \in Descriptors \ {d} : Siblings(d, n) => descriptor'[n].state # "published"
  PROVE  Order'
<1>1. \A n \in Descriptors : /\ Exists(n)' <=> Exists(n)
                             /\ descriptor'[n].eservice = descriptor[n].eservice
                             /\ descriptor'[n].version = descriptor[n].version
                             /\ n # d => (Unpublished(n)' <=> Unpublished(n))
                             /\ n # d => (WasPublished(n)' <=> WasPublished(n))
                             /\ WasPublished(n) => Exists(n)
  BY ExistsState, ExistsStateAfter DEF Gives, Unpublished, WasPublished, Offered
<1>2. ~Unpublished(d)' /\ WasPublished(d)' /\ ~WasPublished(d) /\ Exists(d)
  BY ExistsState DEF Gives, Unpublished, WasPublished, Offered
<1>3. \A n \in Descriptors : descriptor[n].version \in Nat
  BY DEF TypeOK, Descriptor
<1>4. \A n \in Descriptors \ {d} : Exists(n) /\ Siblings(d, n) =>
         ~Unpublished(n) /\ descriptor[n].version < descriptor[d].version
  BY DEF Order, DraftIsNewest
<1>5. \A x, y \in Descriptors : Siblings(x, y)' <=> Siblings(x, y)
  BY <1>1 DEF Siblings
<1>6. VersionsUnique'
  BY <1>1, <1>5 DEF Order, VersionsUnique
<1>7. DraftIsNewest'
  BY <1>1, <1>2, <1>5 DEF Order, DraftIsNewest
<1>8. Newest(d)'
  BY <1>1, <1>3, <1>4, <1>5 DEF Newest, Siblings
<1>9. \A x \in Descriptors : ~Siblings(d, x) =>
         /\ WasPublished(x)' <=> WasPublished(x)
         /\ descriptor'[x].state = descriptor[x].state
         /\ Newest(x)' <=> Newest(x)
  <2> SUFFICES ASSUME NEW x \in Descriptors, ~Siblings(d, x)
               PROVE  /\ WasPublished(x)' <=> WasPublished(x)
                      /\ descriptor'[x].state = descriptor[x].state
                      /\ Newest(x)' <=> Newest(x)
    OBVIOUS
  <2>1. x # d
    BY DEF Siblings
  <2>2. descriptor'[x].state = descriptor[x].state
    BY <2>1 DEF Gives
  <2>3. \A n \in Descriptors : Siblings(x, n) => n # d
    BY DEF Siblings
  <2>4. \A n \in Descriptors :
          (WasPublished(n)' /\ Siblings(x, n)' => descriptor'[n].version <= descriptor'[x].version)
          <=> (WasPublished(n) /\ Siblings(x, n) => descriptor[n].version <= descriptor[x].version)
    BY <1>1, <1>5, <2>3
  <2>5. Newest(x)' <=> Newest(x)
    BY <2>4 DEF Newest
  <2> QED BY <1>1, <2>1, <2>2, <2>5
<1>10. PublishedIsNewest'
  <2> SUFFICES ASSUME NEW x \in Descriptors, descriptor'[x].state = "published" PROVE Newest(x)'
    BY DEF PublishedIsNewest
  <2>1. CASE x = d
    BY <1>8, <2>1
  <2>2. CASE x # d
    BY <1>9, <2>2 DEF Order, PublishedIsNewest
  <2> QED BY <2>1, <2>2
<1>11. \A x \in Descriptors : WasPublished(x)' /\ Siblings(d, x) /\ x # d => ~Newest(x)'
  <2> SUFFICES ASSUME NEW x \in Descriptors, WasPublished(x)', Siblings(d, x), x # d, Newest(x)'
               PROVE  FALSE
    OBVIOUS
  <2>1. descriptor'[d].version <= descriptor'[x].version
    BY <1>2, <1>5 DEF Newest, Siblings
  <2> QED BY <1>1, <1>3, <1>4, <2>1
<1>12. NewestIsOffered'
  <2> SUFFICES ASSUME NEW x \in Descriptors, WasPublished(x)', Newest(x)'
               PROVE  descriptor'[x].state \in {"published", "suspended"}
    BY DEF NewestIsOffered
  <2>1. CASE x = d
    BY <2>1 DEF Gives
  <2>2. CASE x # d
    BY <1>9, <1>11, <2>2 DEF Order, NewestIsOffered
  <2> QED BY <2>1, <2>2
<1>13. NewestExists'
  <2> SUFFICES ASSUME NEW x \in Descriptors, WasPublished(x)'
               PROVE  \E n \in Descriptors : WasPublished(n)' /\ Siblings(x, n)' /\ Newest(n)'
    BY DEF NewestExists
  <2>1. CASE Siblings(d, x)
    <3>1. Siblings(x, d)'
      BY <2>1, <1>5 DEF Siblings
    <3> QED BY <1>2, <1>8, <3>1
  <2>2. CASE ~Siblings(d, x)
    <3>1. PICK n \in Descriptors : WasPublished(n) /\ Siblings(x, n) /\ Newest(n)
      BY <1>9, <2>2 DEF Order, NewestExists
    <3>2. ~Siblings(d, n)
      BY <2>2, <3>1 DEF Siblings
    <3> QED BY <1>5, <1>9, <3>1, <3>2
  <2> QED BY <2>1, <2>2
<1> QED BY <1>6, <1>7, <1>10, <1>12, <1>13 DEF Order

-----------------------------------------------------------------------------
(* Every step keeps the order, and what was published *)

\* A step that leaves the descriptors alone.
LEMMA StillStep ==
  ASSUME TypeOK, TypeOK', Order, descriptor' = descriptor
  PROVE  Order' /\ Final
<1>1. \A n \in Descriptors : Same(n)
  BY DEF Same
<1> QED BY <1>1, OrderSame DEF Final, WasPublished

\* A descriptor is prepared for an e-service without another one in preparation.
LEMMA NewDraftStep ==
  ASSUME TypeOK, TypeOK', Order, NEW d \in Descriptors, NEW e \in EServices,
         descriptor[d] = NoDescriptor, NEW new \in Descriptor,
         descriptor' = [descriptor EXCEPT ![d] = new],
         new.state = "draft", new.eservice = e,
         \A n \in Of(e) : ~Unpublished(n) /\ descriptor[n].version < new.version
  PROVE  Order' /\ Final
<1>1. /\ descriptor'[d] = new
      /\ \A n \in Descriptors \ {d} : descriptor'[n] = descriptor[n]
      /\ descriptor[d].state = "absent"
  BY DEF TypeOK, NoDescriptor
<1>2. Order'
  BY <1>1, OrderNewDraft DEF Same
<1>3. Final
  BY <1>1 DEF Final, WasPublished, Offered
<1> QED BY <1>2, <1>3

LEMMA NoneYet ==
  ASSUME TypeOK, NEW e \in EServices, ~eservice[e].exists
  PROVE  Of(e) = {}
  BY NoneAssumption DEF TypeOK, Of, NoDescriptor

\* Drafts disappear.
LEMMA DeleteStep ==
  ASSUME TypeOK, TypeOK', Order, NEW e \in EServices, NEW d \in Descriptors,
         NEW ds \in SUBSET Descriptors,
         \A n \in ds : descriptor[n].state = "draft", DeleteDescriptors(e, ds)
  PROVE  Order' /\ Final
<1>1. \A n \in Descriptors : descriptor'[n] = IF n \in ds THEN NoDescriptor ELSE descriptor[n]
  BY DEF DeleteDescriptors
<1>2. Order'
  BY <1>1, OrderDelete DEF Same
<1>3. Final
  BY <1>1 DEF Final, WasPublished, Offered
<1> QED BY <1>2, <1>3

LEMMA ReplaceStep ==
  ASSUME TypeOK, TypeOK', Order, NEW d \in Descriptors, NEW new,
         Replace(d, new), new.state = descriptor[d].state,
         new.eservice = descriptor[d].eservice, new.version = descriptor[d].version,
         descriptor[d].state # "archived"
  PROVE  Order' /\ Final
<1>1. /\ descriptor'[d] = new
      /\ \A n \in Descriptors \ {d} : descriptor'[n] = descriptor[n]
  BY DEF TypeOK, Replace
<1>2. \A n \in Descriptors : Same(n)
  BY <1>1 DEF Same
<1>3. \A n \in Descriptors : descriptor[n].state = "archived" => descriptor'[n] = descriptor[n]
  BY <1>1
<1> QED BY <1>2, <1>3, OrderSame DEF Final, WasPublished, Same

LEMMA SetStateMoves ==
  ASSUME TypeOK, NEW d \in Descriptors, NEW state, SetState(d, state)
  PROVE  /\ Moves(d) /\ descriptor'[d].state = state
         /\ \A n \in Descriptors \ {d} : descriptor'[n] = descriptor[n]
  BY DEF TypeOK, Descriptor, SetState, Replace, Moves, Same

\* submission and rejection
LEMMA UnpublishedStep ==
  ASSUME TypeOK, TypeOK', Order, NEW d \in Descriptors, Unpublished(d),
         NEW state \in {"draft", "waitingForApproval"}, SetState(d, state)
  PROVE  Order' /\ Final
<1>1. /\ Moves(d) /\ descriptor'[d].state = state
      /\ \A n \in Descriptors \ {d} : descriptor'[n] = descriptor[n]
  BY SetStateMoves
<1>2. Unpublished(d)' /\ ~WasPublished(d)
  BY <1>1 DEF Unpublished, WasPublished, Offered
<1>3. Final
  BY <1>1, <1>2 DEF Final, WasPublished
<1> QED BY <1>1, <1>2, <1>3, OrderUnpublished

LEMMA PublicationStep ==
  ASSUME TypeOK, TypeOK', Order, NEW d \in Descriptors, Unpublished(d), Publication(d)
  PROVE  Order' /\ Final
<1>1. /\ Gives(d)
      /\ \A n \in Descriptors \ {d} : Siblings(d, n) => descriptor'[n].state # "published"
  BY PublicationGives
<1>2. Final
  BY <1>1 DEF Gives, Final, WasPublished, Unpublished, Offered
<1> QED BY <1>1, <1>2, OrderPublication

LEMMA SuspendStep ==
  ASSUME TypeOK, TypeOK', Order, NEW d \in Descriptors, SuspendDescriptor(d)
  PROVE  Order' /\ Final
<1>1. /\ Moves(d) /\ descriptor'[d].state = "suspended"
      /\ \A n \in Descriptors \ {d} : descriptor'[n] = descriptor[n]
  BY SetStateMoves DEF SuspendDescriptor
<1>2. WasPublished(d) /\ WasPublished(d)' /\ descriptor[d].state # "archived"
  BY <1>1 DEF SuspendDescriptor, WasPublished, Offered
<1>3. Final
  BY <1>1, <1>2 DEF Final, WasPublished, Moves
<1> QED BY <1>1, <1>2, <1>3, OrderPublished

\* The newest descriptor is offered, so it is enough to look among those.
LEMMA NewestAmongOffered ==
  ASSUME TypeOK, Order, NEW d \in Descriptors, WasPublished(d)
  PROVE  Newer(descriptor, d, Offered) = {} <=> Newest(d)
<1> USE DEF Siblings
<1>1. \A n \in Descriptors : descriptor[n].version \in Nat
  BY DEF TypeOK, Descriptor
<1>2. ASSUME Newer(descriptor, d, Offered) = {} PROVE Newest(d)
  <2>1. PICK n \in Descriptors : WasPublished(n) /\ Siblings(d, n) /\ Newest(n)
    BY DEF Order, NewestExists
  <2>2. descriptor[n].state \in Offered
    BY <2>1 DEF Order, NewestIsOffered, Offered
  <2>3. descriptor[n].version <= descriptor[d].version
    BY <1>1, <1>2, <2>1, <2>2 DEF Newer
  <2>4. \A x \in Descriptors : WasPublished(x) /\ Siblings(d, x) =>
           descriptor[x].version <= descriptor[n].version
    BY <2>1 DEF Newest
  <2> QED BY <1>1, <2>3, <2>4 DEF Newest
<1>3. ASSUME Newest(d) PROVE Newer(descriptor, d, Offered) = {}
  <2> SUFFICES ASSUME NEW n \in Newer(descriptor, d, Offered) PROVE FALSE
    OBVIOUS
  <2>1. /\ n \in Descriptors /\ WasPublished(n) /\ Siblings(d, n)
        /\ descriptor[n].version > descriptor[d].version
    BY DEF Newer, WasPublished
  <2> QED BY <1>1, <1>3, <2>1 DEF Newest
<1> QED BY <1>2, <1>3

LEMMA ActivateStep ==
  ASSUME TypeOK, TypeOK', Order, NEW d \in Descriptors, ActivateDescriptor(d)
  PROVE  Order' /\ Final
<1> DEFINE state == IF Newer(descriptor, d, Offered) = {} THEN "published" ELSE "deprecated"
<1>0. SetState(d, state)
  BY DEF ActivateDescriptor
<1>1. /\ Moves(d) /\ descriptor'[d].state = state
      /\ \A n \in Descriptors \ {d} : descriptor'[n] = descriptor[n]
  BY <1>0, SetStateMoves
<1>2. WasPublished(d) /\ WasPublished(d)' /\ descriptor[d].state # "archived"
  BY <1>1 DEF ActivateDescriptor, WasPublished, Offered
<1>3. Final
  BY <1>1, <1>2 DEF Final, WasPublished, Moves
<1>4. (state = "published" <=> Newest(d)) /\ (Newest(d) => state \in {"published", "suspended"})
  BY <1>2, NewestAmongOffered
<1> QED BY <1>1, <1>2, <1>3, <1>4, OrderPublished

LEMMA ArchiveStep ==
  ASSUME TypeOK, TypeOK', Order, NEW d \in Descriptors, ArchiveDescriptor(d), Superseded(d)
  PROVE  Order' /\ Final
<1>1. /\ descriptor'[d].state = "archived"
      /\ descriptor'[d].eservice = descriptor[d].eservice
      /\ descriptor'[d].version = descriptor[d].version
      /\ descriptor[d].state = "archived" => descriptor'[d] = descriptor[d]
      /\ \A n \in Descriptors \ {d} : descriptor'[n] = descriptor[n]
  BY DEF ArchiveDescriptor, TypeOK, Descriptor
<1>2. WasPublished(d) /\ WasPublished(d)' /\ Moves(d)
  BY <1>1 DEF Superseded, WasPublished, Moves, Same
<1>3. ~Newest(d)
  <2>1. PICK n \in Descriptors : /\ WasPublished(n) /\ Siblings(d, n)
                                 /\ descriptor[d].version < descriptor[n].version
    BY DEF Superseded
  <2>2. descriptor[d].version \in Nat /\ descriptor[n].version \in Nat
    BY DEF TypeOK, Descriptor
  <2> QED BY <2>1, <2>2 DEF Newest
<1>4. Final
  BY <1>1, <1>2 DEF Final, WasPublished
<1> QED BY <1>1, <1>2, <1>3, <1>4, OrderPublished

LEMMA OrderStep == Inv /\ TypeOK' /\ [Next]_vars => Order' /\ Final
<1> SUFFICES ASSUME TypeOK, TypeOK', Order, \A d \in archiving : Superseded(d), [Next]_vars
             PROVE  Order' /\ Final
  BY DEF Inv, ArchiverInv
<1>1. ASSUME NEW e \in EServices, NEW d \in Descriptors, CreateEService(e, d)
      PROVE  Order' /\ Final
  <2>1. PICK audience \in BOOLEAN :
          descriptor' = [descriptor EXCEPT ![d] =
            [eservice |-> e, version |-> 1, state |-> "draft", interface |-> FALSE,
             audience |-> audience]]
    BY <1>1 DEF CreateEService
  <2>2. Of(e) = {}
    BY <1>1, NoneYet DEF CreateEService
  <2>3. [eservice |-> e, version |-> 1, state |-> "draft", interface |-> FALSE,
         audience |-> audience] \in Descriptor
    BY DEF Descriptor, DescriptorState
  <2> QED BY <1>1, <2>1, <2>2, <2>3, NewDraftStep DEF CreateEService
<1>2. ASSUME NEW e \in EServices, UpdateEService(e) PROVE Order' /\ Final
  <2>1. \A n \in Descriptors : /\ Same(n)
                               /\ descriptor[n].state # "draft" => descriptor'[n] = descriptor[n]
    <3> SUFFICES ASSUME NEW n \in Descriptors
                 PROVE  /\ Same(n)
                        /\ descriptor[n].state # "draft" => descriptor'[n] = descriptor[n]
      OBVIOUS
    <3>1. descriptor[n] \in Descriptor
      BY DEF TypeOK
    <3>2. \/ descriptor'[n] = descriptor[n]
          \/ n \in Of(e) /\ descriptor'[n] = WithoutInterface(descriptor[n])
      BY <1>2 DEF UpdateEService
    <3>3. n \in Of(e) => descriptor[n].state = "draft"
      BY <1>2 DEF UpdateEService, IsDraftEService
    <3> QED BY <3>1, <3>2, <3>3, WithoutInterfaceType DEF Same
  <2> QED BY <2>1, OrderSame DEF Final, WasPublished, Same
<1>3. ASSUME NEW e \in EServices, DeleteEService(e) PROVE Order' /\ Final
  <2>1. CASE Of(e) = {}
    <3>1. descriptor' = descriptor
      BY <1>3, <2>1 DEF DeleteEService, DeleteDescriptors, TypeOK
    <3> QED BY <3>1, StillStep
  <2>2. ASSUME NEW d \in Of(e) PROVE Order' /\ Final
    BY <1>3, DeleteStep DEF DeleteEService, IsDraftEService, Of
  <2> QED BY <2>1, <2>2
<1>4. ASSUME NEW e \in EServices, NEW d \in Descriptors, CreateDescriptor(e, d)
      PROVE  Order' /\ Final
  <2>1. PICK v \in NextVersions(e), audience \in BOOLEAN :
          Replace(d, [eservice |-> e, version |-> v, state |-> "draft",
                      interface |-> FALSE, audience |-> audience])
    BY <1>4 DEF CreateDescriptor
  <2>2. v \in Nat /\ \A n \in Of(e) : descriptor[n].version < v
    BY DEF NextVersions, Of, TypeOK, Descriptor
  <2>3. [eservice |-> e, version |-> v, state |-> "draft",
         interface |-> FALSE, audience |-> audience] \in Descriptor
    BY <2>2 DEF Descriptor, DescriptorState
  <2> QED BY <1>4, <2>1, <2>2, <2>3, NewDraftStep DEF CreateDescriptor, Replace
<1>5. ASSUME NEW e \in EServices, NEW from \in Descriptors, NEW d \in Descriptors,
             CloneDescriptor(from, e, d)
      PROVE  Order' /\ Final
  <2> DEFINE new == [descriptor[from] EXCEPT !.eservice = e, !.version = 1, !.state = "draft"]
  <2>0. descriptor[from] \in Descriptor
    BY DEF TypeOK
  <2>1. new \in Descriptor /\ new.eservice = e /\ new.state = "draft"
    BY <2>0 DEF Descriptor, DescriptorState
  <2>2. Of(e) = {}
    BY <1>5, NoneYet DEF CloneDescriptor
  <2>3. descriptor' = [descriptor EXCEPT ![d] = new] /\ descriptor[d] = NoDescriptor
    BY <1>5 DEF CloneDescriptor
  <2> HIDE DEF new
  <2> QED BY <2>1, <2>2, <2>3, NewDraftStep
<1>6. ASSUME NEW d \in Descriptors, DeleteDraftDescriptor(d) PROVE Order' /\ Final
  <2>1. descriptor[d].eservice \in EServices
    BY <1>6 DEF DeleteDraftDescriptor, TypeOK
  <2> QED BY <1>6, <2>1, DeleteStep DEF DeleteDraftDescriptor
<1>7. ASSUME NEW d \in Descriptors,
             UpdateDraftDescriptor(d) \/ UploadInterface(d) \/ DeleteInterface(d)
      PROVE  Order' /\ Final
  <2>1. descriptor[d] \in Descriptor /\ descriptor[d].state # "archived"
    BY <1>7 DEF TypeOK, UpdateDraftDescriptor, UploadInterface, DeleteInterface, Offered
  <2>2. PICK new : /\ Replace(d, new) /\ new.state = descriptor[d].state
                   /\ new.eservice = descriptor[d].eservice /\ new.version = descriptor[d].version
    <3>1. CASE UpdateDraftDescriptor(d)
      <4>1. PICK audience \in BOOLEAN : Replace(d, [descriptor[d] EXCEPT !.audience = audience])
        BY <3>1 DEF UpdateDraftDescriptor
      <4> DEFINE new == [descriptor[d] EXCEPT !.audience = audience]
      <4>2. /\ new.state = descriptor[d].state
            /\ new.eservice = descriptor[d].eservice /\ new.version = descriptor[d].version
        BY <2>1 DEF Descriptor
      <4>3. Replace(d, new)
        BY <4>1
      <4> HIDE DEF new
      <4> QED BY <4>2, <4>3
    <3>2. CASE UploadInterface(d) \/ DeleteInterface(d)
      <4>1. PICK interface \in BOOLEAN : Replace(d, [descriptor[d] EXCEPT !.interface = interface])
        BY <3>2 DEF UploadInterface, DeleteInterface
      <4> DEFINE new == [descriptor[d] EXCEPT !.interface = interface]
      <4>2. /\ new.state = descriptor[d].state
            /\ new.eservice = descriptor[d].eservice /\ new.version = descriptor[d].version
        BY <2>1 DEF Descriptor
      <4>3. Replace(d, new)
        BY <4>1
      <4> HIDE DEF new
      <4> QED BY <4>2, <4>3
    <3> QED BY <1>7, <3>1, <3>2
  <2> QED BY <2>1, <2>2, ReplaceStep
<1>8. ASSUME NEW d \in Descriptors, PublishDescriptor(d) \/ ApproveDescriptor(d) \/ RejectDescriptor(d)
      PROVE  Order' /\ Final
  <2>1. Unpublished(d)
    BY <1>8 DEF PublishDescriptor, ApproveDescriptor, RejectDescriptor, Unpublished
  <2>2. \/ Publication(d)
        \/ \E state \in {"draft", "waitingForApproval"} : SetState(d, state)
    BY <1>8 DEF PublishDescriptor, ApproveDescriptor, RejectDescriptor
  <2> QED BY <2>1, <2>2, PublicationStep, UnpublishedStep
<1>9. ASSUME NEW d \in Descriptors, SuspendDescriptor(d) \/ ActivateDescriptor(d)
      PROVE  Order' /\ Final
  BY <1>9, SuspendStep, ActivateStep
<1>10. ASSUME NEW d \in Descriptors, ArchiveDescriptor(d) PROVE Order' /\ Final
  BY <1>10, ArchiveStep DEF ArchiveDescriptor
<1>11. CASE descriptor' = descriptor
  BY <1>11, StillStep
<1>12. ASSUME NEW e \in EServices, NEW r \in RiskAnalyses,
             CreateRiskAnalysis(e, r) \/ UpdateRiskAnalysis(e, r) \/ DeleteRiskAnalysis(e, r)
       PROVE  descriptor' = descriptor
  BY <1>12 DEF CreateRiskAnalysis, UpdateRiskAnalysis, DeleteRiskAnalysis, SetRiskAnalysis
<1>13. ASSUME NEW e \in EServices, ChangeDelegation(e) PROVE descriptor' = descriptor
  BY <1>13 DEF ChangeDelegation, Around
<1>14. AgreementRequest => descriptor' = descriptor
  BY DEF AgreementRequest, DeleteAgreement, ActivateAgreement, RejectAgreement, ArchiveAgreement,
         CreateAgreement, UpgradeAgreement, Around
<1>15. ASSUME NEW a \in Agreements, RequestArchiving(a) \/ SkipArchiving(a)
       PROVE  descriptor' = descriptor
  BY <1>15 DEF RequestArchiving, SkipArchiving
<1>16. UNCHANGED vars => descriptor' = descriptor
  BY DEF vars
<1> QED
  BY <1>1, <1>2, <1>3, <1>4, <1>5, <1>6, <1>7, <1>8, <1>9, <1>10, <1>11, <1>12, <1>13, <1>14,
     <1>15, <1>16
     DEF Next, EServiceRequest, DescriptorRequest, Archiver

\* What is superseded stays superseded.
LEMMA SupersededStays ==
  ASSUME TypeOK, Final, NEW d \in Descriptors, Superseded(d)
  PROVE  Superseded(d)'
BY DEF Final, Superseded, Siblings

\* The archiver may only ask for what is superseded.
LEMMA ArchivableIsSuperseded ==
  ASSUME TypeOK, Order, NEW d \in Descriptors, Archivable(descriptor, d)
  PROVE  Superseded(d)
<1>1. WasPublished(d)
  BY DEF Archivable, WasPublished, Offered
<1>2. CASE descriptor[d].state = "deprecated"
  <2>1. PICK n \in Descriptors : /\ WasPublished(n) /\ Siblings(d, n)
                                 /\ ~(descriptor[n].version <= descriptor[d].version)
    BY <1>1, <1>2 DEF Order, NewestIsOffered, Newest
  <2>2. descriptor[n].version \in Nat /\ descriptor[d].version \in Nat
    BY DEF TypeOK, Descriptor
  <2> QED BY <1>1, <2>1, <2>2 DEF Superseded
<1>3. CASE Newer(descriptor, d, {"published", "suspended"}) # {}
  <2>1. PICK n \in Descriptors : /\ descriptor[n].eservice = descriptor[d].eservice
                                 /\ descriptor[n].state \in {"published", "suspended"}
                                 /\ descriptor[n].version > descriptor[d].version
    BY <1>3 DEF Newer
  <2>2. descriptor[n].version \in Nat /\ descriptor[d].version \in Nat
    BY DEF TypeOK, Descriptor
  <2> QED BY <1>1, <2>1, <2>2 DEF Superseded, WasPublished, Siblings, Offered
<1> QED BY <1>2, <1>3 DEF Archivable

LEMMA ArchiverStep == Inv /\ Final /\ [Next]_vars => ArchiverInv'
<1> SUFFICES ASSUME Inv, Final, [Next]_vars PROVE ArchiverInv'
  OBVIOUS
<1>1. \A d \in Descriptors : Superseded(d) => Superseded(d)'
  BY SupersededStays DEF Inv
<1>2. \A d \in Descriptors : Archivable(descriptor, d) => Superseded(d)
  BY ArchivableIsSuperseded DEF Inv
<1>3. \A ds \in DescriptorViews, d \in Descriptors : Archivable(ds, d) => Superseded(d)
  BY <1>2 DEF DescriptorViews, Views, Inv, ArchiverInv
<1>4. archiving \subseteq Descriptors /\ \A d \in archiving : Superseded(d)
  BY DEF Inv, ArchiverInv, TypeOK
<1>5. \A d \in archiving' : d \in Descriptors /\ Superseded(d)
  <2>1. ASSUME NEW a \in Agreements, RequestArchiving(a) PROVE \A d \in archiving' : d \in Descriptors /\ Superseded(d)
    <3>1. agreement[a].descriptor \in Descriptors
      BY <2>1 DEF RequestArchiving, Inv, TypeOK
    <3> QED BY <2>1, <3>1, <1>3, <1>4 DEF RequestArchiving
  <2>2. ASSUME NEW d \in Descriptors, ArchiveDescriptor(d) PROVE archiving' \subseteq archiving
    BY <2>2 DEF ArchiveDescriptor
  <2>3. ASSUME NEW a \in Agreements, SkipArchiving(a) PROVE archiving' = archiving
    BY <2>3 DEF SkipArchiving
  <2>4. AgreementRequest => archiving' = archiving
    BY DEF AgreementRequest, DeleteAgreement, ActivateAgreement, RejectAgreement, ArchiveAgreement,
           CreateAgreement, UpgradeAgreement, Around
  <2>5. EServiceRequest => archiving' = archiving
    BY DEF EServiceRequest, UpdateEService, DeleteEService, ChangeDelegation, CreateEService,
           CreateDescriptor, CloneDescriptor, CreateRiskAnalysis, UpdateRiskAnalysis,
           DeleteRiskAnalysis, SetRiskAnalysis, Replace, Elsewhere, OtherStreams, Around
  <2>6. DescriptorRequest => archiving' = archiving
    BY DEF DescriptorRequest, DeleteDraftDescriptor, UpdateDraftDescriptor, UploadInterface,
           DeleteInterface, PublishDescriptor, ApproveDescriptor, RejectDescriptor,
           SuspendDescriptor, ActivateDescriptor, Publication, SetState, Replace, Elsewhere, OtherStreams
  <2>7. UNCHANGED vars => archiving' = archiving
    BY DEF vars
  <2> QED BY <1>4, <2>1, <2>2, <2>3, <2>4, <2>5, <2>6, <2>7 DEF Next, Archiver
<1>6. was'.descriptor \subseteq was.descriptor \cup {descriptor}
  <2>1. CASE Remember
    BY <2>1 DEF Remember, Previous
  <2>2. CASE UNCHANGED vars
    BY <2>2 DEF vars
  <2> QED BY <2>1, <2>2 DEF Next
<1>7. \A ds \in was'.descriptor, d \in Descriptors : Archivable(ds, d) => Superseded(d)
  BY <1>2, <1>6 DEF Inv, ArchiverInv
<1> QED BY <1>1, <1>5, <1>7 DEF ArchiverInv, Archivable, Newer

LEMMA InitInv == Init => Inv
<1> SUFFICES ASSUME Init PROVE Inv
  OBVIOUS
<1>1. \A d \in Descriptors : ~WasPublished(d) /\ ~Exists(d) /\ ~Unpublished(d)
  BY DEF Init, WasPublished, Exists, Unpublished, NoDescriptor, Offered
<1>2. Order
  BY <1>1 DEF Order, VersionsUnique, DraftIsNewest, PublishedIsNewest, NewestIsOffered, NewestExists,
              WasPublished, Offered
<1>3. ArchiverInv
  BY DEF Init, ArchiverInv
<1> QED BY <1>2, <1>3, TypeInit DEF Inv

LEMMA NextInv == Inv /\ [Next]_vars => Inv' /\ Final
  BY TypeStep, OrderStep, ArchiverStep DEF Inv

-----------------------------------------------------------------------------
(* The invariant holds of every execution, ... *)
LEMMA Invariant == Spec => []Inv
<1>1. Init => Inv
  BY InitInv
<1>2. Inv /\ [Next]_vars => Inv'
  BY NextInv
<1> QED BY <1>1, <1>2, PTL DEF Spec

(* ... so every descriptor belongs to an e-service that exists, and a handled *)
(* message is for an archived agreement: catalogService.ts creates and deletes *)
(* the two together.                                                          *)
THEOREM TypeCorrect == Spec => []TypeOK
<1>1. Inv => TypeOK
  BY DEF Inv
<1> QED BY <1>1, Invariant, PTL

(* No two descriptors of an e-service have the same version, though          *)
(* nextDescriptorVersion uses the number of a deleted draft again.           *)
THEOREM UniqueVersions == Spec => []VersionsUnique
<1>1. Inv => VersionsUnique
  BY DEF Inv, Order
<1> QED BY <1>1, Invariant, PTL

(* An e-service has one descriptor in preparation, its greatest version,     *)
(* through submissions, rejections, approvals and deletions.                 *)
THEOREM OneInPreparation == Spec => []DraftIsNewest
<1>1. Inv => DraftIsNewest
  BY DEF Inv, Order
<1> QED BY <1>1, Invariant, PTL

(* No old version is ever published again beside or instead of a newer one,  *)
(* however stale the read model that the archiver acts upon.                 *)
THEOREM NoReturn == Spec => []PublishedIsNewest
<1>1. Inv => PublishedIsNewest
  BY DEF Inv, Order
<1> QED BY <1>1, Invariant, PTL

(* The newest version ever published is never deprecated or archived: the    *)
(* archiver's late calls only reach versions that are superseded.            *)
THEOREM LatestKept == Spec => []NewestIsOffered
<1>1. Inv => NewestIsOffered
  BY DEF Inv, Order
<1> QED BY <1>1, Invariant, PTL

(* A descriptor that was published never becomes a draft again and is never  *)
(* deleted, and archiving is final.                                          *)
THEOREM FinalPublication == Spec => PublicationIsFinal
<1>1. Inv /\ [Next]_vars =>
        [\A d \in Descriptors :
           WasPublished(d) => /\ descriptor'[d].state \in Offered \cup {"archived"}
                              /\ descriptor[d].state = "archived" =>
                                   descriptor'[d] = descriptor[d]]_vars
  BY NextInv DEF Final, WasPublished
<1> QED BY <1>1, Invariant, PTL DEF Spec, PublicationIsFinal

-----------------------------------------------------------------------------
(* What a publication has checked *)

\* The descriptors that passed publishDescriptor's checks.
Submitted(d) == WasPublished(d) \/ descriptor[d].state = "waitingForApproval"

\* What those checks look at stays as it is.
Unaltered(d) ==
  /\ descriptor'[d].interface = descriptor[d].interface
  /\ descriptor'[d].audience = descriptor[d].audience
  /\ eservice'[descriptor'[d].eservice] = eservice[descriptor[d].eservice]

\* A step only leaves complete descriptors submitted.
Checked == \A d \in Descriptors : Submitted(d)' => Publishable(d)'

LEMMA UnalteredStays ==
  ASSUME NEW d \in Descriptors, Publishable(d), Unaltered(d)
  PROVE  Publishable(d)'
<1> DEFINE e == eservice[descriptor[d].eservice]
<1>1. eservice'[descriptor'[d].eservice] = e
  BY DEF Unaltered
<1>2. e.receive => RiskAnalysesComplete(e)
  BY DEF Publishable
<1>3. RiskAnalysesComplete(e)' <=> RiskAnalysesComplete(eservice'[descriptor'[d].eservice])
  BY DEF RiskAnalysesComplete
<1> QED BY <1>1, <1>2, <1>3 DEF Publishable, Unaltered, RiskAnalysesComplete

\* It is enough to look at the descriptor a handler writes, if it leaves the
\* e-services of what is submitted alone.
LEMMA CheckedStep ==
  ASSUME OfferedIsComplete, NEW ds \in SUBSET Descriptors,
         \A n \in Descriptors \ ds : descriptor'[n] = descriptor[n],
         \A n \in Descriptors :
            Submitted(n) => eservice'[descriptor[n].eservice] = eservice[descriptor[n].eservice],
         \A n \in ds : Submitted(n)' => Publishable(n) /\ Unaltered(n)
  PROVE  Checked
<1> SUFFICES ASSUME NEW n \in Descriptors, Submitted(n)' PROVE Publishable(n)'
  BY DEF Checked
<1>1. CASE n \in ds
  BY <1>1, UnalteredStays
<1>2. CASE n \notin ds
  <2>1. descriptor'[n] = descriptor[n]
    BY <1>2
  <2>2. Submitted(n)
    BY <2>1 DEF Submitted, WasPublished
  <2>3. Publishable(n) /\ Unaltered(n)
    BY <2>1, <2>2 DEF OfferedIsComplete, Submitted, Unaltered
  <2> QED BY <2>3, UnalteredStays
<1> QED BY <1>1, <1>2

\* An e-service may change as long as all its descriptors are drafts.
LEMMA CheckedDraftEService ==
  ASSUME TypeOK, OfferedIsComplete, NEW e \in EServices,
         \A n \in Of(e) : descriptor[n].state = "draft",
         \A x \in EServices \ {e} : eservice'[x] = eservice[x],
         \A n \in Descriptors \ Of(e) : descriptor'[n] = descriptor[n],
         \A n \in Of(e) : ~Submitted(n)'
  PROVE  Checked
<1>1. Of(e) \in SUBSET Descriptors
  BY DEF Of
<1>2. ASSUME NEW n \in Descriptors, Submitted(n)
      PROVE  eservice'[descriptor[n].eservice] = eservice[descriptor[n].eservice]
  <2>1. n \notin Of(e) /\ descriptor[n].eservice \in EServices
    BY <1>2 DEF Submitted, WasPublished, Offered, TypeOK, NoDescriptor
  <2>2. descriptor[n].eservice # e
    BY <2>1 DEF Of
  <2> QED BY <2>1, <2>2
<1> QED BY <1>1, <1>2, CheckedStep

\* A handler that writes one descriptor and leaves the e-services alone.
LEMMA CheckedReplace ==
  ASSUME TypeOK, OfferedIsComplete, NEW d \in Descriptors, UNCHANGED eservice,
         \A n \in Descriptors \ {d} : descriptor'[n] = descriptor[n],
         Submitted(d)' => /\ Publishable(d)
                          /\ descriptor'[d].interface = descriptor[d].interface
                          /\ descriptor'[d].audience = descriptor[d].audience
                          /\ descriptor'[d].eservice = descriptor[d].eservice
  PROVE  Checked
<1>1. \A n \in {d} : Submitted(n)' => Publishable(n) /\ Unaltered(n)
  BY DEF Unaltered
<1>2. {d} \in SUBSET Descriptors
  OBVIOUS
<1> QED BY <1>1, <1>2, CheckedStep

\* Another state does not change what the checks look at.
LEMMA CheckedState ==
  ASSUME TypeOK, OfferedIsComplete, NEW d \in Descriptors, NEW state,
         SetState(d, state), state # "draft" => Publishable(d)
  PROVE  Checked
<1>1. /\ descriptor'[d].state = state
      /\ descriptor'[d].interface = descriptor[d].interface
      /\ descriptor'[d].audience = descriptor[d].audience
      /\ descriptor'[d].eservice = descriptor[d].eservice
      /\ \A n \in Descriptors \ {d} : descriptor'[n] = descriptor[n]
      /\ UNCHANGED eservice
  BY DEF TypeOK, Descriptor, SetState, Replace
<1>2. state = "draft" => ~Submitted(d)'
  BY <1>1 DEF Submitted, WasPublished, Offered
<1> QED BY <1>1, <1>2, CheckedReplace

LEMMA CheckedPublication ==
  ASSUME TypeOK, OfferedIsComplete, NEW d \in Descriptors, Publishable(d), Publication(d)
  PROVE  Checked
<1>1. CASE SetState(d, "published")
  BY <1>1, CheckedState
<1>2. ASSUME NEW o \in Descriptors, descriptor[o].state = "published",
             NEW s \in {"archived", "deprecated"},
             descriptor' = [descriptor EXCEPT ![d].state = "published", ![o].state = s],
             UNCHANGED eservice
      PROVE  Checked
  <2>1. \A n \in Descriptors \ {d, o} : descriptor'[n] = descriptor[n]
    BY <1>2 DEF TypeOK
  <2>2. \A n \in {d, o} : Unaltered(n)
    BY <1>2 DEF TypeOK, Descriptor, Unaltered
  <2>3. \A n \in {d, o} : Publishable(n)
    BY <1>2 DEF OfferedIsComplete, WasPublished, Offered
  <2>4. {d, o} \in SUBSET Descriptors
    OBVIOUS
  <2> QED BY <1>2, <2>1, <2>2, <2>3, <2>4, CheckedStep
<1> QED BY <1>1, <1>2 DEF Publication, Of

\* A new descriptor is a draft, and its e-service new or none of the checked ones.
LEMMA CheckedNew ==
  ASSUME TypeOK, OfferedIsComplete, NEW d \in Descriptors, NEW e \in EServices,
         ~Submitted(d)', ~eservice[e].exists,
         \A n \in Descriptors \ {d} : descriptor'[n] = descriptor[n],
         \A x \in EServices \ {e} : eservice'[x] = eservice[x]
  PROVE  Checked
<1>1. ASSUME NEW n \in Descriptors, Submitted(n)
      PROVE  eservice'[descriptor[n].eservice] = eservice[descriptor[n].eservice]
  BY <1>1 DEF Submitted, WasPublished, Offered, TypeOK
<1>2. \A n \in {d} : ~Submitted(n)'
  OBVIOUS
<1>3. {d} \in SUBSET Descriptors
  OBVIOUS
<1> QED BY <1>1, <1>2, <1>3, CheckedStep

LEMMA CompleteStep ==
  Inv /\ OfferedIsComplete /\ [Next]_vars => OfferedIsComplete'
<1> SUFFICES ASSUME TypeOK, \A d \in archiving : Superseded(d), OfferedIsComplete, [Next]_vars
             PROVE  Checked
  BY DEF Inv, ArchiverInv, Checked, OfferedIsComplete, Submitted
<1>1. ASSUME NEW e \in EServices, NEW d \in Descriptors, CreateEService(e, d) PROVE Checked
  <2>1. descriptor'[d].state = "draft"
    BY <1>1 DEF CreateEService, TypeOK
  <2>2. ~Submitted(d)'
    BY <2>1 DEF Submitted, WasPublished, Offered
  <2>3. /\ \A n \in Descriptors \ {d} : descriptor'[n] = descriptor[n]
        /\ \A x \in EServices \ {e} : eservice'[x] = eservice[x]
        /\ ~eservice[e].exists
    BY <1>1 DEF CreateEService, TypeOK
  <2> QED BY <2>2, <2>3, CheckedNew
<1>2. ASSUME NEW e \in EServices, NEW from \in Descriptors, NEW d \in Descriptors,
             CloneDescriptor(from, e, d)
      PROVE  Checked
  <2>1. descriptor'[d].state = "draft"
    BY <1>2 DEF CloneDescriptor, TypeOK, Descriptor
  <2>2. ~Submitted(d)'
    BY <2>1 DEF Submitted, WasPublished, Offered
  <2>3. /\ \A n \in Descriptors \ {d} : descriptor'[n] = descriptor[n]
        /\ \A x \in EServices \ {e} : eservice'[x] = eservice[x]
        /\ ~eservice[e].exists
    BY <1>2 DEF CloneDescriptor, TypeOK
  <2> QED BY <2>2, <2>3, CheckedNew
<1>3. ASSUME NEW e \in EServices, UpdateEService(e) PROVE Checked
  <2>1. /\ \A n \in Of(e) : descriptor[n].state = "draft"
        /\ \A x \in EServices \ {e} : eservice'[x] = eservice[x]
        /\ \A n \in Descriptors \ Of(e) : descriptor'[n] = descriptor[n]
    BY <1>3 DEF UpdateEService, IsDraftEService, TypeOK
  <2>2. ASSUME NEW n \in Of(e) PROVE descriptor'[n].state = "draft"
    <3>1. n \in Descriptors /\ descriptor[n] \in Descriptor
      BY DEF Of, TypeOK
    <3>2. descriptor'[n] \in {descriptor[n], WithoutInterface(descriptor[n])}
      BY <1>3, <3>1 DEF UpdateEService
    <3> QED BY <2>1, <3>1, <3>2, WithoutInterfaceType
  <2>3. \A n \in Of(e) : ~Submitted(n)'
    BY <2>2 DEF Submitted, WasPublished, Offered
  <2> QED BY <2>1, <2>3, CheckedDraftEService
<1>4. ASSUME NEW e \in EServices, DeleteEService(e) PROVE Checked
  <2>1. /\ \A n \in Of(e) : descriptor[n].state = "draft"
        /\ \A x \in EServices \ {e} : eservice'[x] = eservice[x]
        /\ \A n \in Descriptors \ Of(e) : descriptor'[n] = descriptor[n]
        /\ \A n \in Of(e) : descriptor'[n] = NoDescriptor
    BY <1>4 DEF DeleteEService, DeleteDescriptors, IsDraftEService, Of, TypeOK
  <2>2. \A n \in Of(e) : ~Submitted(n)'
    BY <2>1 DEF Submitted, WasPublished, Offered, NoDescriptor
  <2> QED BY <2>1, <2>2, CheckedDraftEService
<1>5. ASSUME NEW e \in EServices, NEW r \in RiskAnalyses,
             CreateRiskAnalysis(e, r) \/ UpdateRiskAnalysis(e, r) \/ DeleteRiskAnalysis(e, r)
      PROVE  Checked
  <2>1. /\ \A n \in Of(e) : descriptor[n].state = "draft"
        /\ \A x \in EServices \ {e} : eservice'[x] = eservice[x]
        /\ descriptor' = descriptor
    BY <1>5 DEF CreateRiskAnalysis, UpdateRiskAnalysis, DeleteRiskAnalysis, SetRiskAnalysis,
                IsDraftEService, TypeOK
  <2>2. \A n \in Of(e) : ~Submitted(n)'
    BY <2>1 DEF Submitted, WasPublished, Offered
  <2> QED BY <2>1, <2>2, CheckedDraftEService
<1>6. ASSUME NEW e \in EServices, NEW d \in Descriptors, CreateDescriptor(e, d) PROVE Checked
  <2>1. /\ descriptor'[d].state = "draft" /\ UNCHANGED eservice
        /\ \A n \in Descriptors \ {d} : descriptor'[n] = descriptor[n]
    BY <1>6 DEF CreateDescriptor, Replace, TypeOK
  <2>2. ~Submitted(d)'
    BY <2>1 DEF Submitted, WasPublished, Offered
  <2> QED BY <2>1, <2>2, CheckedReplace
<1>7. ASSUME NEW d \in Descriptors, DeleteDraftDescriptor(d) PROVE Checked
  <2> DEFINE e == descriptor[d].eservice
  <2>1. /\ e \in EServices
        /\ descriptor[d].state = "draft"
        /\ \A n \in Descriptors \ {d} : descriptor'[n] = descriptor[n]
        /\ descriptor'[d] = NoDescriptor
    BY <1>7 DEF DeleteDraftDescriptor, DeleteDescriptors, TypeOK
  <2>2. ~Submitted(d)'
    BY <2>1 DEF Submitted, WasPublished, Offered, NoDescriptor
  <2>3. CASE Of(e) \subseteq {d}
    <3>1. /\ \A n \in Of(e) : descriptor[n].state = "draft" /\ ~Submitted(n)'
          /\ \A x \in EServices \ {e} : eservice'[x] = eservice[x]
          /\ \A n \in Descriptors \ Of(e) : descriptor'[n] = descriptor[n]
      BY <1>7, <2>1, <2>2, <2>3 DEF DeleteDraftDescriptor, DeleteDescriptors, TypeOK, Of
    <3> QED BY <2>1, <3>1, CheckedDraftEService
  <2>4. CASE ~(Of(e) \subseteq {d})
    <3>1. UNCHANGED eservice
      BY <1>7, <2>4 DEF DeleteDraftDescriptor, DeleteDescriptors
    <3> QED BY <2>1, <2>2, <3>1, CheckedReplace
  <2> QED BY <2>3, <2>4
<1>8. ASSUME NEW d \in Descriptors, UpdateDraftDescriptor(d) \/ DeleteInterface(d) PROVE Checked
  <2>1. /\ descriptor'[d].state = "draft" /\ UNCHANGED eservice
        /\ \A n \in Descriptors \ {d} : descriptor'[n] = descriptor[n]
    BY <1>8 DEF UpdateDraftDescriptor, DeleteInterface, Replace, TypeOK, Descriptor
  <2>2. ~Submitted(d)'
    BY <2>1 DEF Submitted, WasPublished, Offered
  <2> QED BY <2>1, <2>2, CheckedReplace
<1>9. ASSUME NEW d \in Descriptors, UploadInterface(d) PROVE Checked
  <2>1. /\ descriptor'[d].state = descriptor[d].state /\ UNCHANGED eservice
        /\ \A n \in Descriptors \ {d} : descriptor'[n] = descriptor[n]
        /\ ~descriptor[d].interface
    BY <1>9 DEF UploadInterface, Replace, TypeOK, Descriptor
  <2>2. ~Submitted(d)
    BY <2>1 DEF OfferedIsComplete, Publishable, Submitted
  <2>3. ~Submitted(d)'
    BY <2>1, <2>2 DEF Submitted, WasPublished
  <2> QED BY <2>1, <2>3, CheckedReplace
<1>10. ASSUME NEW d \in Descriptors, PublishDescriptor(d) PROVE Checked
  BY <1>10, CheckedPublication, CheckedState DEF PublishDescriptor
<1>11. ASSUME NEW d \in Descriptors, ApproveDescriptor(d) PROVE Checked
  <2>1. Publishable(d)
    BY <1>11 DEF ApproveDescriptor, OfferedIsComplete
  <2> QED BY <1>11, <2>1, CheckedPublication DEF ApproveDescriptor
<1>12. ASSUME NEW d \in Descriptors, RejectDescriptor(d) PROVE Checked
  BY <1>12, CheckedState DEF RejectDescriptor
<1>13. ASSUME NEW d \in Descriptors, SuspendDescriptor(d) \/ ActivateDescriptor(d) PROVE Checked
  <2>1. Publishable(d)
    BY <1>13 DEF SuspendDescriptor, ActivateDescriptor, OfferedIsComplete, WasPublished, Offered
  <2>2. \E state : SetState(d, state)
    BY <1>13 DEF SuspendDescriptor, ActivateDescriptor
  <2> QED BY <2>1, <2>2, CheckedState
<1>14. ASSUME NEW d \in Descriptors, ArchiveDescriptor(d) PROVE Checked
  <2>1. Publishable(d)
    BY <1>14 DEF ArchiveDescriptor, Superseded, OfferedIsComplete
  <2>2. /\ \A n \in Descriptors \ {d} : descriptor'[n] = descriptor[n]
        /\ descriptor'[d].interface = descriptor[d].interface
        /\ descriptor'[d].audience = descriptor[d].audience
        /\ descriptor'[d].eservice = descriptor[d].eservice
        /\ UNCHANGED eservice
    BY <1>14 DEF ArchiveDescriptor, TypeOK, Descriptor
  <2> QED BY <2>1, <2>2, CheckedReplace
<1>15. CASE UNCHANGED <<descriptor, eservice>>
  <2>1. \A n \in Descriptors : Submitted(n)' => Publishable(n) /\ Unaltered(n)
    BY <1>15 DEF Submitted, WasPublished, OfferedIsComplete, Unaltered
  <2> QED BY <2>1, UnalteredStays DEF Checked
<1>16. ASSUME NEW e \in EServices, ChangeDelegation(e) PROVE UNCHANGED <<descriptor, eservice>>
  BY <1>16 DEF ChangeDelegation, Around
<1>17. AgreementRequest => UNCHANGED <<descriptor, eservice>>
  BY DEF AgreementRequest, DeleteAgreement, ActivateAgreement, RejectAgreement, ArchiveAgreement,
         CreateAgreement, UpgradeAgreement, Around
<1>18. ASSUME NEW a \in Agreements, RequestArchiving(a) \/ SkipArchiving(a)
       PROVE  UNCHANGED <<descriptor, eservice>>
  BY <1>18 DEF RequestArchiving, SkipArchiving
<1>19. UNCHANGED vars => UNCHANGED <<descriptor, eservice>>
  BY DEF vars
<1> QED
  BY <1>1, <1>2, <1>3, <1>4, <1>5, <1>6, <1>7, <1>8, <1>9, <1>10, <1>11, <1>12, <1>13, <1>14,
     <1>15, <1>16, <1>17, <1>18, <1>19
     DEF Next, EServiceRequest, DescriptorRequest, Archiver

(* What publishDescriptor checks holds of every descriptor that was ever     *)
(* submitted: while the producer has not answered and ever after, nobody     *)
(* takes away its interface, its audience or a risk analysis of its          *)
(* e-service, or replaces one by that of another kind of tenant, however far *)
(* the read model lags.  The kind is the one found at the submission, which  *)
(* need not be the producer's at the approval.                               *)
THEOREM CompleteOnceSubmitted == Spec => []OfferedIsComplete
<1>1. Init => OfferedIsComplete
  BY DEF Init, OfferedIsComplete, WasPublished, Offered, NoDescriptor
<1> QED BY <1>1, CompleteStep, Invariant, PTL DEF Spec

-----------------------------------------------------------------------------
(* Descriptors in use *)

\* Nobody uses, or still applies for, a descriptor the archiver is archiving,
\* unless somebody misread.
ArchivingUnused ==
  \A d \in archiving \ misread, a \in Agreements :
    agreement[a].descriptor = d => agreement[a].state \notin Used

\* Nothing is forgotten.
LEMMA MisreadGrows == [Next]_vars => misread \subseteq misread'
<1> USE DEF Decided
<1>1. EServiceRequest => misread \subseteq misread'
  BY DEF EServiceRequest, UpdateEService, DeleteEService, ChangeDelegation, CreateEService,
         CreateDescriptor, CloneDescriptor, CreateRiskAnalysis, UpdateRiskAnalysis,
         DeleteRiskAnalysis, SetRiskAnalysis, Replace, Elsewhere
<1>2. DescriptorRequest => misread \subseteq misread'
  BY DEF DescriptorRequest, DeleteDraftDescriptor, UpdateDraftDescriptor, UploadInterface,
         DeleteInterface, PublishDescriptor, ApproveDescriptor, RejectDescriptor,
         SuspendDescriptor, ActivateDescriptor, Publication, SetState, Replace, Elsewhere
<1>3. AgreementRequest => misread \subseteq misread'
  BY DEF AgreementRequest, DeleteAgreement, ActivateAgreement, RejectAgreement, ArchiveAgreement,
         CreateAgreement, UpgradeAgreement
<1>4. Archiver => misread \subseteq misread'
  BY DEF Archiver, RequestArchiving, SkipArchiving, ArchiveDescriptor
<1> QED BY <1>1, <1>2, <1>3, <1>4 DEF Next, vars

\* What is superseded is neither the published nor the latest descriptor.
LEMMA SupersededNotPublished ==
  ASSUME TypeOK, Order, NEW d \in Descriptors, Superseded(d)
  PROVE  descriptor[d].state # "published"
<1>1. PICK n \in Descriptors : /\ WasPublished(n) /\ Siblings(d, n)
                               /\ descriptor[d].version < descriptor[n].version
  BY DEF Superseded
<1>2. descriptor[n].version \in Nat /\ descriptor[d].version \in Nat
  BY DEF TypeOK, Descriptor
<1> QED BY <1>1, <1>2 DEF Order, PublishedIsNewest, Newest

LEMMA UnusedStep ==
  ASSUME Inv, ArchivingUnused, [Next]_vars
  PROVE  ArchivingUnused'
<1> USE DEF Used
<1>0. /\ \A d \in archiving : descriptor[d].state # "published"
      /\ archiving \subseteq Descriptors
      /\ misread \subseteq misread'
  BY SupersededNotPublished, MisreadGrows DEF Inv, ArchiverInv, TypeOK
<1>a. /\ agreement \in [Agreements -> Agreement]
      /\ messages \subseteq {a \in Agreements : agreement[a].state = "archived"}
  BY DEF Inv, TypeOK
<1>1. ASSUME NEW a \in Agreements, RequestArchiving(a) PROVE ArchivingUnused'
  <2> DEFINE d == agreement[a].descriptor
  <2>1. agreement[a].state = "archived" /\ agreement' = agreement /\ archiving' = archiving \cup {d}
    BY <1>1, <1>a DEF RequestArchiving
  <2>2. ASSUME NEW b \in Agreements \ {a}, agreement[b].descriptor = d, d \notin misread'
        PROVE  agreement[b].state \notin Used
    BY <1>1, <2>2 DEF RequestArchiving, Decided, HasAgreement
  <2> QED BY <1>0, <2>1, <2>2 DEF ArchivingUnused
<1>2. ASSUME NEW d \in Descriptors, ArchiveDescriptor(d) PROVE ArchivingUnused'
  BY <1>0, <1>2 DEF ArchiveDescriptor, ArchivingUnused
<1>3. CASE UNCHANGED <<agreement, archiving>>
  BY <1>0, <1>3 DEF ArchivingUnused
<1>4. ASSUME NEW a \in Agreements, DeleteAgreement(a) PROVE ArchivingUnused'
  <2>1. /\ archiving' = archiving /\ agreement'[a].state = "absent"
        /\ \A b \in Agreements \ {a} : agreement'[b] = agreement[b]
    BY <1>4, <1>a DEF DeleteAgreement, Around, NoAgreement
  <2> QED BY <1>0, <2>1 DEF ArchivingUnused
<1>5. ASSUME NEW a \in Agreements, ActivateAgreement(a) \/ RejectAgreement(a) PROVE ArchivingUnused'
  <2>1. /\ archiving' = archiving /\ agreement[a].state = "waiting"
        /\ agreement'[a].descriptor = agreement[a].descriptor
        /\ \A b \in Agreements \ {a} : agreement'[b] = agreement[b]
    BY <1>5, <1>a DEF ActivateAgreement, RejectAgreement, Around, Agreement
  <2> QED BY <1>0, <2>1 DEF ArchivingUnused
<1>6. ASSUME NEW a \in Agreements, ArchiveAgreement(a) PROVE ArchivingUnused'
  <2>1. /\ archiving' = archiving /\ agreement'[a].state = "archived"
        /\ \A b \in Agreements \ {a} : agreement'[b] = agreement[b]
    BY <1>6, <1>a DEF ArchiveAgreement, Around, Agreement
  <2> QED BY <1>0, <2>1 DEF ArchivingUnused
<1>7. ASSUME NEW a \in Agreements, NEW d \in Descriptors, CreateAgreement(a, d)
      PROVE  ArchivingUnused'
  <2>1. /\ archiving' = archiving
        /\ descriptor[d].state = "published" \/ d \in misread'
        /\ agreement'[a].descriptor = d
        /\ \A b \in Agreements \ {a} : agreement'[b] = agreement[b]
    BY <1>0, <1>7, <1>a DEF CreateAgreement, Decided, Around
  <2> QED BY <1>0, <2>1 DEF ArchivingUnused
<1>8. ASSUME NEW a \in Agreements, NEW n \in Agreements, NEW d \in Descriptors,
             UpgradeAgreement(a, n, d)
      PROVE  ArchivingUnused'
  <2>1. /\ archiving' = archiving /\ a # n
        /\ descriptor[d].state = "published" \/ d \in misread'
        /\ agreement'[a].state = "archived"
        /\ agreement'[n].descriptor = d
        /\ \A b \in Agreements \ {a, n} : agreement'[b] = agreement[b]
    BY <1>0, <1>8, <1>a DEF UpgradeAgreement, Decided, Around, Agreement, NoAgreement
  <2> QED BY <1>0, <2>1 DEF ArchivingUnused
<1>9. EServiceRequest => UNCHANGED <<agreement, archiving>>
  BY DEF EServiceRequest, UpdateEService, DeleteEService, ChangeDelegation, CreateEService,
         CreateDescriptor, CloneDescriptor, CreateRiskAnalysis, UpdateRiskAnalysis,
         DeleteRiskAnalysis, SetRiskAnalysis, Replace, Elsewhere, OtherStreams, Around
<1>10. DescriptorRequest => UNCHANGED <<agreement, archiving>>
  BY DEF DescriptorRequest, DeleteDraftDescriptor, UpdateDraftDescriptor, UploadInterface,
         DeleteInterface, PublishDescriptor, ApproveDescriptor, RejectDescriptor,
         SuspendDescriptor, ActivateDescriptor, Publication, SetState, Replace, Elsewhere, OtherStreams
<1>11. ASSUME NEW a \in Agreements, SkipArchiving(a) PROVE UNCHANGED <<agreement, archiving>>
  BY <1>11 DEF SkipArchiving
<1>12. UNCHANGED vars => UNCHANGED <<agreement, archiving>>
  BY DEF vars
<1> QED
  BY <1>1, <1>2, <1>3, <1>4, <1>5, <1>6, <1>7, <1>8, <1>9, <1>10, <1>11, <1>12
     DEF Next, AgreementRequest, Archiver

\* A descriptor is archived when another one is published and nobody uses it, or
\* when the archiver asks for it, or by a mistake that is remembered.
LEMMA NewlyArchived ==
  ASSUME Inv, [Next]_vars, NEW o \in Descriptors,
         descriptor[o].state # "archived", descriptor'[o].state = "archived"
  PROVE  /\ agreement' = agreement
         /\ \/ o \in archiving \/ o \in misread'
            \/ \A a \in Agreements : agreement[a].descriptor = o => agreement[a].state # "inForce"
<1> USE DEF Inv, TypeOK
<1>1. ASSUME NEW d \in Descriptors, Publication(d)
      PROVE  /\ agreement' = agreement
             /\ \/ o \in misread'
                \/ \A a \in Agreements : agreement[a].descriptor = o => agreement[a].state # "inForce"
  <2>1. ~SetState(d, "published")
    BY DEF SetState, Replace, Descriptor
  <2>2. PICK p \in Descriptors, s \in {"archived", "deprecated"} :
          /\ descriptor' = [descriptor EXCEPT ![d].state = "published", ![p].state = s]
          /\ OtherStreams
          /\ Decided(p, s = "deprecated" <=> HasAgreement(p, {"inForce"}, Agreements))
    BY <1>1, <2>1 DEF Publication, Of
  <2>3. p = o /\ s = "archived"
    BY <2>2 DEF Descriptor
  <2>4. o \in misread' \/ ~HasAgreement(o, {"inForce"}, Agreements)
    BY <2>2, <2>3 DEF Decided
  <2> QED BY <2>2, <2>4 DEF OtherStreams, HasAgreement
<1>2. ASSUME NEW d \in Descriptors, NEW state, SetState(d, state), state # "archived" PROVE FALSE
  BY <1>2 DEF SetState, Replace, Descriptor
<1>3. ASSUME NEW d \in Descriptors, ArchiveDescriptor(d) PROVE agreement' = agreement /\ o \in archiving
  BY <1>3 DEF ArchiveDescriptor
<1>4. ~EServiceRequest
  <2>1. ASSUME NEW e \in EServices, UpdateEService(e) PROVE FALSE
    <3>1. descriptor[o] \in Descriptor
      OBVIOUS
    <3>2. descriptor'[o] \in {descriptor[o], WithoutInterface(descriptor[o])}
      BY <2>1 DEF UpdateEService
    <3> QED BY <3>1, <3>2, WithoutInterfaceType
  <2>2. ASSUME NEW e \in EServices, DeleteEService(e) PROVE FALSE
    BY <2>2 DEF DeleteEService, DeleteDescriptors, NoDescriptor
  <2>3. ASSUME NEW e \in EServices, NEW d \in Descriptors,
               CreateEService(e, d) \/ CreateDescriptor(e, d)
        PROVE  FALSE
    BY <2>3 DEF CreateEService, CreateDescriptor, Replace
  <2>4. ASSUME NEW e \in EServices, NEW from \in Descriptors, NEW d \in Descriptors,
               CloneDescriptor(from, e, d)
        PROVE  FALSE
    BY <2>4 DEF CloneDescriptor, Descriptor
  <2>5. ASSUME NEW e \in EServices, NEW r \in RiskAnalyses,
               CreateRiskAnalysis(e, r) \/ UpdateRiskAnalysis(e, r) \/ DeleteRiskAnalysis(e, r)
        PROVE  FALSE
    BY <2>5 DEF CreateRiskAnalysis, UpdateRiskAnalysis, DeleteRiskAnalysis, SetRiskAnalysis
  <2>6. ASSUME NEW e \in EServices, ChangeDelegation(e) PROVE FALSE
    BY <2>6 DEF ChangeDelegation, Around
  <2> QED BY <2>1, <2>2, <2>3, <2>4, <2>5, <2>6 DEF EServiceRequest
<1>5. ASSUME NEW d \in Descriptors, DeleteDraftDescriptor(d) PROVE FALSE
  BY <1>5 DEF DeleteDraftDescriptor, DeleteDescriptors, NoDescriptor
<1>6. ASSUME NEW d \in Descriptors,
             UpdateDraftDescriptor(d) \/ UploadInterface(d) \/ DeleteInterface(d)
      PROVE  FALSE
  BY <1>6 DEF UpdateDraftDescriptor, UploadInterface, DeleteInterface, Replace, Descriptor
<1>7. ASSUME NEW d \in Descriptors,
             PublishDescriptor(d) \/ ApproveDescriptor(d) \/ RejectDescriptor(d)
      PROVE  Publication(d)
  BY <1>7, <1>2 DEF PublishDescriptor, ApproveDescriptor, RejectDescriptor
<1>8. ASSUME NEW d \in Descriptors, SuspendDescriptor(d) \/ ActivateDescriptor(d) PROVE FALSE
  BY <1>8, <1>2 DEF SuspendDescriptor, ActivateDescriptor
<1>9. ~AgreementRequest
  BY DEF AgreementRequest, DeleteAgreement, ActivateAgreement, RejectAgreement, ArchiveAgreement,
         CreateAgreement, UpgradeAgreement, Around
<1>10. ASSUME NEW a \in Agreements, RequestArchiving(a) \/ SkipArchiving(a) PROVE FALSE
  BY <1>10 DEF RequestArchiving, SkipArchiving
<1>11. ~UNCHANGED vars
  BY DEF vars
<1> QED
  BY <1>1, <1>3, <1>4, <1>5, <1>6, <1>7, <1>8, <1>9, <1>10, <1>11
     DEF Next, DescriptorRequest, Archiver

\* An agreement comes into force on a descriptor that is not archived, or by a
\* mistake that is remembered.
LEMMA NewlyInForce ==
  ASSUME Inv, [Next]_vars, NEW a \in Agreements,
         agreement'[a].state = "inForce",
         agreement[a].state # "inForce" \/ agreement'[a].descriptor # agreement[a].descriptor
  PROVE  /\ descriptor' = descriptor
         /\ \/ descriptor[agreement'[a].descriptor].state # "archived"
            \/ agreement'[a].descriptor \in misread'
<1>0. agreement \in [Agreements -> Agreement]
  BY DEF Inv, TypeOK
<1>1. ASSUME NEW b \in Agreements, ActivateAgreement(b)
      PROVE  /\ descriptor' = descriptor
             /\ \/ descriptor[agreement'[a].descriptor].state # "archived"
                \/ agreement'[a].descriptor \in misread'
  <2>1. a = b /\ agreement'[a].descriptor = agreement[a].descriptor
    BY <1>0, <1>1 DEF ActivateAgreement, Agreement
  <2> QED BY <1>0, <1>1, <2>1 DEF ActivateAgreement, Decided, Around, Offered
<1>2. ASSUME NEW b \in Agreements, NEW n \in Agreements, NEW d \in Descriptors,
             UpgradeAgreement(b, n, d)
      PROVE  /\ descriptor' = descriptor
             /\ \/ descriptor[agreement'[a].descriptor].state # "archived"
                \/ agreement'[a].descriptor \in misread'
  <2>1. a = n /\ agreement'[a].descriptor = d
    BY <1>0, <1>2 DEF UpgradeAgreement, Agreement
  <2> QED BY <1>0, <1>2, <2>1 DEF UpgradeAgreement, Decided, Around
<1>3. ASSUME NEW b \in Agreements,
             DeleteAgreement(b) \/ RejectAgreement(b) \/ ArchiveAgreement(b)
      PROVE  FALSE
  BY <1>0, <1>3 DEF DeleteAgreement, RejectAgreement, ArchiveAgreement, Agreement, NoAgreement
<1>4. ASSUME NEW b \in Agreements, NEW d \in Descriptors, CreateAgreement(b, d) PROVE FALSE
  BY <1>0, <1>4 DEF CreateAgreement
<1>5. ~EServiceRequest
  BY DEF EServiceRequest, UpdateEService, DeleteEService, ChangeDelegation, CreateEService,
         CreateDescriptor, CloneDescriptor, CreateRiskAnalysis, UpdateRiskAnalysis,
         DeleteRiskAnalysis, SetRiskAnalysis, Replace, Elsewhere, OtherStreams, Around
<1>6. ~DescriptorRequest
  BY DEF DescriptorRequest, DeleteDraftDescriptor, UpdateDraftDescriptor, UploadInterface,
         DeleteInterface, PublishDescriptor, ApproveDescriptor, RejectDescriptor,
         SuspendDescriptor, ActivateDescriptor, Publication, SetState, Replace, Elsewhere, OtherStreams
<1>7. ~Archiver
  BY DEF Archiver, RequestArchiving, SkipArchiving, ArchiveDescriptor
<1>8. ~UNCHANGED vars
  BY DEF vars
<1> QED BY <1>1, <1>2, <1>3, <1>4, <1>5, <1>6, <1>7, <1>8 DEF Next, AgreementRequest

LEMMA UsedStep ==
  ASSUME Inv, ArchivingUnused, UsedNotArchived, [Next]_vars
  PROVE  UsedNotArchived'
<1> SUFFICES ASSUME NEW a \in Agreements, agreement'[a].state = "inForce",
                    agreement'[a].descriptor \notin misread',
                    descriptor'[agreement'[a].descriptor].state = "archived"
             PROVE  FALSE
  BY DEF UsedNotArchived
<1> DEFINE d == agreement'[a].descriptor
<1>1. agreement[a].state = "inForce" /\ d = agreement[a].descriptor
  BY NewlyInForce
<1>2. d \in Descriptors /\ d \notin misread
  BY <1>1, MisreadGrows DEF Inv, TypeOK
<1>3. descriptor[d].state # "archived"
  BY <1>1, <1>2 DEF UsedNotArchived
<1>4. \/ d \in archiving
      \/ \A b \in Agreements : agreement[b].descriptor = d => agreement[b].state # "inForce"
  BY <1>2, <1>3, NewlyArchived
<1> QED BY <1>1, <1>2, <1>4 DEF ArchivingUnused, Used

(* However far the read models lag, a descriptor is archived under an        *)
(* agreement in force only if a publication, the archiver or                 *)
(* agreement-process decided about it against the state the other streams    *)
(* were in.  The window between the archiver's look and catalog-process's    *)
(* answer, which checks nothing, does no harm by itself.                     *)
THEOREM UsedIsKept == Spec => []UsedNotArchived
<1> DEFINE Sparing == ArchivingUnused /\ UsedNotArchived
<1>1. Init => Sparing
  BY DEF Init, ArchivingUnused, UsedNotArchived, NoAgreement
<1>2. Inv /\ Sparing /\ [Next]_vars => Sparing'
  BY UnusedStep, UsedStep
<1>3. Sparing => UsedNotArchived
  OBVIOUS
<1> HIDE DEF Sparing
<1> QED BY <1>1, <1>2, <1>3, Invariant, PTL DEF Spec
-----------------------------------------------------------------------------
(* The attributes of an offered descriptor *)

\* What a step of an offered descriptor keeps of the groups of a kind.
Kept(old, new) ==
  /\ Len(new) = Len(old)
  /\ \A g \in DOMAIN old : \E i \in DOMAIN new : old[g] \subseteq new[i]

(* A seed that validateAndRetrieveNewAttributes accepts keeps every group.   *)
LEMMA AcceptedKeeps ==
  ASSUME NEW old, NEW seed, Accepted(old, seed)
  PROVE  Kept(old, seed)
<1>1. Len(seed) = Len(old)
  BY DEF Accepted
<1>2. ASSUME NEW g \in DOMAIN old
      PROVE  \E i \in DOMAIN seed : old[g] \subseteq seed[i]
  <2>1. PICK i \in SupersetSeed(old[g], seed) : TRUE
    BY <1>2 DEF Accepted
  <2>2. i \in DOMAIN seed /\ Covers(seed[i], old[g])
    BY <2>1 DEF SupersetSeed
  <2> QED
    BY <2>2 DEF Covers
<1> QED
  BY <1>1, <1>2 DEF Kept

(* Whatever producers do, the consumers of an offered descriptor find every  *)
(* group they had to satisfy again, as it was or wider, and no more groups:  *)
(* updateDescriptorAttributes is the one handler that changes them.          *)
THEOREM OfferedGroupsKept == AttributesSpec => GroupsKept
<1>1. ASSUME [AttributesNext]_attributesVars, descriptorState # "draft", NEW k \in Kinds
      PROVE  Kept(attributes[k], attributes'[k])
  <2>1. CASE UNCHANGED attributes
    BY <2>1 DEF Kept
  <2>2. ASSUME NEW seed \in [Kinds -> Groups], UpdateDescriptorAttributes(seed)
        PROVE  Kept(attributes[k], attributes'[k])
    <3>1. Accepted(attributes[k], seed[k]) /\ attributes' = seed
      BY <2>2 DEF UpdateDescriptorAttributes
    <3> QED
      BY <3>1, AcceptedKeeps
  <2> QED
    BY <1>1, <2>1, <2>2
    DEF AttributesNext, attributesVars, UpdateDraftAttributes, Publish, SuspendOrActivate
<1>2. [AttributesNext]_attributesVars => [descriptorState # "draft" =>
        \A k \in Kinds : Kept(attributes[k], attributes'[k])]_attributesVars
  BY <1>1
<1> QED
  BY <1>2, PTL DEF AttributesSpec, GroupsKept, Kept

-----------------------------------------------------------------------------
(* Which extensions validateAndRetrieveNewAttributes accepts *)

(* A sequence of groups. *)
LEMMA GroupsAsFunctions ==
  ASSUME NEW old \in Groups
  PROVE  /\ Len(old) \in Nat /\ DOMAIN old = 1..Len(old)
         /\ old \in [1..Len(old) -> SUBSET Attributes]
<1>1. PICK n \in 0..MaxGroups : old \in [1..n -> SUBSET Attributes]
  BY DEF Groups
<1>2. n \in Nat
  BY MaxGroupsAssumption
<1>3. old \in Seq(SUBSET Attributes) /\ Len(old) = n
  BY <1>1, <1>2
<1> QED BY <1>1, <1>2, <1>3

(* Of the groups that cover another one there is a first. *)
LEMMA FirstCover ==
  ASSUME NEW seed \in Groups, NEW group, NEW i \in DOMAIN seed, Covers(seed[i], group)
  PROVE  SupersetSeed(group, seed) # {}
<1> DEFINE covers == {j \in DOMAIN seed : Covers(seed[j], group)}
           less == OpToRel(<, Nat)
<1>1. covers \subseteq Nat /\ covers # {}
  BY GroupsAsFunctions
<1>2. \E j \in covers : \A h \in covers : <<h, j>> \notin less
  <2> HIDE DEF covers, less
  <2>1. IsWellFoundedOn(less, Nat)
    BY NatLessThanWellFounded DEF less
  <2> QED BY <1>1, <2>1, WFMin
<1>3. PICK j \in covers : \A h \in covers : <<h, j>> \notin less
  BY <1>2
<1>4. ASSUME NEW h \in 1..(j - 1) PROVE ~Covers(seed[h], group)
  <2>1. h \in Nat /\ j \in Nat /\ h < j /\ h \in DOMAIN seed
    BY <1>1, GroupsAsFunctions
  <2>2. <<h, j>> \in less
    BY <2>1 DEF OpToRel
  <2> QED BY <1>3, <2>1, <2>2
<1>5. j \in SupersetSeed(group, seed)
  BY <1>4 DEF SupersetSeed
<1> QED BY <1>5

(* A one-to-one correspondence between as many groups reaches all of them. *)
LEMMA OneToOneOnto ==
  ASSUME NEW n \in Nat, NEW p \in [1..n -> 1..n], \A g, h \in 1..n : p[g] = p[h] => g = h
  PROVE  \A i \in 1..n : \E g \in 1..n : p[g] = i
<1>1. IsFiniteSet(1..n)
  BY FS_Interval
<1>2. p \in Injection(1..n, 1..n)
  BY DEF Injection, IsInjective
<1>3. p \in Surjection(1..n, 1..n)
  BY <1>1, <1>2, FS_Injection
<1> QED BY <1>3 DEF Surjection

(* A seed that adds nothing to groups that differ has the same groups: the   *)
(* first superset of a group is the group itself, and no two groups share it.*)
LEMMA NothingNew ==
  ASSUME NEW old \in Groups, NEW seed \in Groups, Accepted(old, seed), Distinct(old),
         NewAttributes(old, seed) = {}
  PROVE  SameGroups(old, seed)
<1> DEFINE n == Len(old)
           p == [g \in 1..n |-> CHOOSE i : i \in SupersetSeed(old[g], seed)]
<1>1. /\ n \in Nat /\ DOMAIN old = 1..n /\ DOMAIN seed = 1..n /\ Len(seed) = n
  BY GroupsAsFunctions DEF Accepted
<1>2. ASSUME NEW g \in 1..n
      PROVE  p[g] \in 1..n /\ old[g] = seed[p[g]]
  <2>1. p[g] \in SupersetSeed(old[g], seed)
    BY <1>1, <1>2 DEF Accepted
  <2> HIDE DEF p
  <2>2. p[g] \in DOMAIN seed /\ old[g] \subseteq seed[p[g]]
    BY <2>1 DEF SupersetSeed, Covers
  <2>3. seed[p[g]] \ old[g] \subseteq NewAttributes(old, seed)
    BY <1>1, <2>1 DEF NewAttributes
  <2> QED BY <1>1, <2>2, <2>3
<1>3. p \in [1..n -> 1..n]
  BY <1>2
<1> HIDE DEF p
<1>4. \A g, h \in 1..n : p[g] = p[h] => g = h
  BY <1>1, <1>2 DEF Distinct
<1>5. Extends(old, seed)
  <2>1. \A g \in 1..n : old[g] \subseteq seed[p[g]]
    BY <1>2
  <2>2. /\ p \in [DOMAIN old -> DOMAIN seed]
        /\ \A g, h \in DOMAIN old : p[g] = p[h] => g = h
        /\ \A g \in DOMAIN old : old[g] \subseteq seed[p[g]]
    BY <1>1, <1>3, <1>4, <2>1
  <2> QED BY <1>1, <2>2 DEF Extends
<1>6. \A i \in 1..n : \E g \in 1..n : p[g] = i
  BY <1>1, <1>3, <1>4, OneToOneOnto
<1> DEFINE q == [i \in 1..n |-> CHOOSE g \in 1..n : p[g] = i]
<1>7. \A i \in 1..n : q[i] \in 1..n /\ p[q[i]] = i
  BY <1>6
<1>8. q \in [1..n -> 1..n]
  BY <1>7
<1> HIDE DEF q
<1>9. \A i, j \in 1..n : q[i] = q[j] => i = j
  BY <1>7
<1>10. \A i \in 1..n : seed[i] \subseteq old[q[i]]
  BY <1>2, <1>7
<1>11. Extends(seed, old)
  <2>1. /\ q \in [DOMAIN seed -> DOMAIN old]
        /\ \A i, j \in DOMAIN seed : q[i] = q[j] => i = j
        /\ \A i \in DOMAIN seed : seed[i] \subseteq old[q[i]]
    BY <1>1, <1>8, <1>9, <1>10
  <2> QED BY <1>1, <2>1 DEF Extends
<1> QED BY <1>5, <1>11 DEF SameGroups

(* Whatever its groups, a producer may widen those of an offered descriptor  *)
(* in any order: validateAndRetrieveNewAttributes finds a superset for each, *)
(* and refuses an extension of groups that differ as unchanged only if it    *)
(* is.                                                                       *)
THEOREM WideningAccepted == AttributesSpec => []ExtensionsAccepted
<1>1. AttributesInit => AttributesTypeOK
  BY DEF AttributesInit, AttributesTypeOK
<1>2. AttributesTypeOK /\ [AttributesNext]_attributesVars => AttributesTypeOK'
  BY DEF AttributesTypeOK, AttributesNext, attributesVars, UpdateDraftAttributes, Publish, SuspendOrActivate,
         UpdateDescriptorAttributes
<1>3. AttributesTypeOK => ExtensionsAccepted
  <2> SUFFICES ASSUME AttributesTypeOK, NEW k \in Kinds, NEW seed \in Groups, Extends(attributes[k], seed)
               PROVE  /\ Accepted(attributes[k], seed)
                      /\ Distinct(attributes[k]) /\ ~SameGroups(attributes[k], seed) =>
                           NewAttributes(attributes[k], seed) # {}
    BY DEF ExtensionsAccepted
  <2> DEFINE old == attributes[k]
  <2>1. old \in Groups
    BY DEF AttributesTypeOK
  <2>2. PICK p \in [DOMAIN old -> DOMAIN seed] : \A g \in DOMAIN old : old[g] \subseteq seed[p[g]]
    BY DEF Extends
  <2>3. \A g \in DOMAIN old : SupersetSeed(old[g], seed) # {}
    BY <2>2, FirstCover DEF Covers
  <2>4. Accepted(old, seed)
    BY <2>3 DEF Accepted, Extends
  <2> QED BY <2>1, <2>4, NothingNew
<1> QED BY <1>1, <1>2, <1>3, PTL DEF AttributesSpec
=============================================================================
