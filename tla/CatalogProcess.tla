--------------------------- MODULE CatalogProcess ---------------------------
(***************************************************************************)
(* E-services and their descriptors: the handlers of                       *)
(* packages/catalog-process (services/catalogService.ts) that change the   *)
(* state of a descriptor or decide whether it may be published, and        *)
(* packages/eservice-descriptors-archiver, which asks catalog-process to   *)
(* archive a descriptor nobody uses any more.                              *)
(*                                                                         *)
(* An e-service and its descriptors are one event stream: a handler that   *)
(* writes has read their current version (EventStore).  Delegations and    *)
(* agreements belong to other streams and are read from the read model,    *)
(* which lags when StaleReads.  So does the producer's kind, by whose      *)
(* rules risk analyses are checked: tenant-process may change it between   *)
(* any two steps, and whoever reads it here may find any kind.             *)
(*                                                                         *)
(* Who calls is left out: a handler accepts the delegate while a           *)
(* delegation is active and the producer otherwise, so there is always     *)
(* somebody who may call it.                                               *)
(***************************************************************************)
EXTENDS Integers, FiniteSets

CONSTANTS
  EServices, Descriptors, Agreements,   \* identifiers
  RiskAnalyses,   \* names of risk analyses
  TenantKinds,    \* the kinds of tenants whose risk analyses follow different rules
  StaleReads,     \* may the read model lag behind the other streams?
  OneChangeLag    \* bound: by no more than the last change of what is read

ASSUME StaleReadsAssumption == StaleReads \in BOOLEAN /\ OneChangeLag \in BOOLEAN

None == "none"
ASSUME NoneAssumption == None \notin EServices \cup Descriptors
ASSUME TenantKindsAssumption == {"absent", "partial"} \cap TenantKinds = {}

VARIABLES
  eservice,     \* e-service -> does it exist, is its mode RECEIVE, its risk analyses
  descriptor,   \* descriptor -> its e-service, version, state and contents
  delegation,   \* e-service -> its producer delegation's state
  agreement,    \* agreement -> its descriptor and state
  messages,     \* agreements whose archiving the archiver has to handle
  archiving,    \* descriptors the archiver is asking catalog-process to archive
  was,          \* the past values a lagging read model may still show
  misread       \* history: the descriptors somebody decided about otherwise than
                \* the other streams, as they were then, would have had it

vars == <<eservice, descriptor, delegation, agreement, messages, archiving, was, misread>>

DescriptorState == {"draft", "waitingForApproval", "published", "suspended",
                    "deprecated", "archived"}

\* A risk analysis that is complete is so by the rules of one kind: a form names
\* the version of the rules it answers.
RiskState == {"absent", "partial"} \cup TenantKinds
DelegationState == {None, "waiting", "active"}

\* Drafts, pending agreements and those that miss attributes are "waiting",
\* active and suspended ones "inForce".
AgreementState == {"absent", "waiting", "inForce", "rejected", "archived"}

EService == [exists: BOOLEAN, receive: BOOLEAN, risk: [RiskAnalyses -> RiskState]]
Descriptor == [eservice: EServices \cup {None}, version: Nat,
               state: DescriptorState \cup {"absent"},
               interface: BOOLEAN, audience: BOOLEAN]
Agreement == [descriptor: Descriptors \cup {None}, state: AgreementState]

NoRisk == [r \in RiskAnalyses |-> "absent"]
NoEService == [exists |-> FALSE, receive |-> FALSE, risk |-> NoRisk]
NoDescriptor == [eservice |-> None, version |-> 0, state |-> "absent",
                 interface |-> FALSE, audience |-> FALSE]
NoAgreement == [descriptor |-> None, state |-> "absent"]

Of(e) == {d \in Descriptors : descriptor[d].eservice = e}

\* isNotActiveDescriptor and its negation.
Unpublished(d) == descriptor[d].state \in {"draft", "waitingForApproval"}
Offered == {"published", "suspended", "deprecated"}

\* Slip: a descriptor that waits for approval counts as a draft.
IsUnpublishedEService(e) ==
  \A d \in Of(e) : descriptor[d].state \in {"draft", "waitingForApproval"}

\* assertIsDraftEservice
IsDraftEService(e) == \A d \in Of(e) : descriptor[d].state = "draft"

\* The versions after d's in one of the states, in the snapshot ds of the descriptors.
Newer(ds, d, states) ==
  {n \in Descriptors : /\ ds[n].eservice = ds[d].eservice /\ ds[n].state \in states
                       /\ ds[n].version > ds[d].version}

-----------------------------------------------------------------------------
(* The read model of the other services' streams. *)

Views(current, past) == IF StaleReads THEN past \cup {current} ELSE {current}

DelegationViews(e) == Views(delegation[e], was.delegation[e])
DescriptorViews == Views(descriptor, was.descriptor)
AgreementViews(a) == Views(agreement[a], was.agreement[a])

\* Could a reader see no agreement of as on d in one of the states, or some?
MaySeeNone(d, states, as) ==
  \A a \in as : \E v \in AgreementViews(a) : ~(v.descriptor = d /\ v.state \in states)
MaySeeSome(d, states, as) ==
  \E a \in as : \E v \in AgreementViews(a) : v.descriptor = d /\ v.state \in states

\* Is an agreement of as on d in one of the states now?
HasAgreement(d, states, as) ==
  \E a \in as : agreement[a].descriptor = d /\ agreement[a].state \in states

\* Remember a decision about d that the current state does not bear out.
Decided(d, right) == misread' = IF right THEN misread ELSE misread \cup {d}

\* The values before the last change, or before every change.
Previous(current, next, past) ==
  IF next = current THEN past ELSE IF OneChangeLag THEN {current} ELSE past \cup {current}

Remember ==
  was' = IF StaleReads
         THEN [delegation |-> [e \in EServices |->
                 Previous(delegation[e], delegation'[e], was.delegation[e])],
               descriptor |-> Previous(descriptor, descriptor', was.descriptor),
               agreement |-> [a \in Agreements |->
                 Previous(agreement[a], agreement'[a], was.agreement[a])]]
         ELSE was

-----------------------------------------------------------------------------
(* E-services *)

OtherStreams == UNCHANGED <<delegation, agreement, messages, archiving>>
Elsewhere == OtherStreams /\ UNCHANGED misread

(* createEService: two events, EServiceAdded and EServiceDescriptorAdded. *)
CreateEService(e, d) ==
  /\ ~eservice[e].exists
  /\ descriptor[d] = NoDescriptor
  /\ \E receive, audience \in BOOLEAN :
       /\ eservice' = [eservice EXCEPT ![e] =
            [exists |-> TRUE, receive |-> receive, risk |-> NoRisk]]
       /\ descriptor' = [descriptor EXCEPT ![d] =
            [eservice |-> e, version |-> 1, state |-> "draft", interface |-> FALSE,
             audience |-> audience]]
  /\ Elsewhere

WithoutInterface(d) == [d EXCEPT !.interface = FALSE]

(* updateEService; a new technology drops every descriptor's interface. *)
UpdateEService(e) ==
  /\ eservice[e].exists /\ IsDraftEService(e)
  /\ \E receive, newTechnology \in BOOLEAN :
       /\ eservice' = [eservice EXCEPT ![e] =
            [exists |-> TRUE, receive |-> receive,
             risk |-> IF receive THEN eservice[e].risk ELSE NoRisk]]
       /\ descriptor' = [d \in Descriptors |->
            IF d \in Of(e) /\ newTechnology THEN WithoutInterface(descriptor[d])
            ELSE descriptor[d]]
  /\ Elsewhere

\* The events that delete descriptors ds of e, and e with the last of them.
DeleteDescriptors(e, ds) ==
  /\ descriptor' = [d \in Descriptors |-> IF d \in ds THEN NoDescriptor ELSE descriptor[d]]
  /\ eservice' = IF Of(e) \subseteq ds THEN [eservice EXCEPT ![e] = NoEService] ELSE eservice

(* deleteEService *)
DeleteEService(e) ==
  /\ eservice[e].exists /\ IsDraftEService(e)
  /\ None \in DelegationViews(e)
  /\ DeleteDescriptors(e, Of(e))
  /\ Elsewhere

(* cloneDescriptor: e and d are the new e-service and its draft. *)
CloneDescriptor(from, e, d) ==
  /\ descriptor[from] # NoDescriptor
  /\ None \in DelegationViews(descriptor[from].eservice)
  /\ ~eservice[e].exists
  /\ descriptor[d] = NoDescriptor
  /\ eservice' = [eservice EXCEPT ![e] = eservice[descriptor[from].eservice]]
  /\ descriptor' = [descriptor EXCEPT ![d] =
       [descriptor[from] EXCEPT !.eservice = e, !.version = 1, !.state = "draft"]]
  /\ Elsewhere

(* createRiskAnalysis, updateRiskAnalysis and deleteRiskAnalysis: a form may *)
(* be incomplete, but follows the rules of the kind read.                    *)
SetRiskAnalysis(e, r, allowed, value) ==
  /\ eservice[e].exists /\ IsDraftEService(e) /\ eservice[e].receive
  /\ eservice[e].risk[r] \in allowed
  /\ eservice' = [eservice EXCEPT ![e].risk[r] = value]
  /\ UNCHANGED descriptor
  /\ Elsewhere

CreateRiskAnalysis(e, r) ==
  \E v \in {"partial"} \cup TenantKinds : SetRiskAnalysis(e, r, {"absent"}, v)
UpdateRiskAnalysis(e, r) ==
  \E v \in {"partial"} \cup TenantKinds : SetRiskAnalysis(e, r, RiskState \ {"absent"}, v)
DeleteRiskAnalysis(e, r) ==
  SetRiskAnalysis(e, r, RiskState \ {"absent"}, "absent")

-----------------------------------------------------------------------------
(* Descriptors *)

\* replaceDescriptor and the event that carries the e-service.
Replace(d, new) ==
  /\ descriptor' = [descriptor EXCEPT ![d] = new]
  /\ UNCHANGED eservice
  /\ Elsewhere

SetState(d, state) == Replace(d, [descriptor[d] EXCEPT !.state = state])

\* Slip: only the published descriptor is looked at.
VersionsAfterPublished(e) ==
  LET published == {d \in Of(e) : descriptor[d].state = "published"}
  IN IF published = {} THEN {1} ELSE {descriptor[d].version + 1 : d \in published}

\* nextDescriptorVersion: one more than the greatest version, or 1 (a singleton).
NextVersions(e) ==
  {v \in {1} \cup {descriptor[d].version + 1 : d \in Of(e)} :
     \A d \in Of(e) : descriptor[d].version < v}

\* Slip: only drafts are in the way of a new descriptor.
CreateDescriptorUnderApproval(e, d) ==
  /\ eservice[e].exists
  /\ \A o \in Of(e) : descriptor[o].state # "draft"
  /\ descriptor[d] = NoDescriptor
  /\ \E v \in NextVersions(e) :
       Replace(d, [eservice |-> e, version |-> v, state |-> "draft",
                   interface |-> FALSE, audience |-> FALSE])

(* createDescriptor *)
CreateDescriptor(e, d) ==
  /\ eservice[e].exists
  /\ \A o \in Of(e) : ~Unpublished(o)
  /\ descriptor[d] = NoDescriptor
  /\ \E v \in NextVersions(e), audience \in BOOLEAN :
       Replace(d, [eservice |-> e, version |-> v, state |-> "draft",
                   interface |-> FALSE, audience |-> audience])

(* deleteDraftDescriptor *)
DeleteDraftDescriptor(d) ==
  /\ descriptor[d].state = "draft"
  /\ DeleteDescriptors(descriptor[d].eservice, {d})
  /\ Elsewhere

(* updateDraftDescriptor *)
UpdateDraftDescriptor(d) ==
  /\ descriptor[d].state = "draft"
  /\ \E audience \in BOOLEAN : Replace(d, [descriptor[d] EXCEPT !.audience = audience])

(* uploadDocument of kind INTERFACE *)
UploadInterface(d) ==
  /\ descriptor[d].state \in {"draft"} \cup Offered
  /\ ~descriptor[d].interface
  /\ Replace(d, [descriptor[d] EXCEPT !.interface = TRUE])

(* deleteDocument of the interface *)
DeleteInterface(d) ==
  /\ descriptor[d].state = "draft"
  /\ descriptor[d].interface
  /\ Replace(d, [descriptor[d] EXCEPT !.interface = FALSE])

\* processDescriptorPublication: the published descriptor gives way to d.
Publication(d) ==
  LET current == {o \in Of(descriptor[d].eservice) : descriptor[o].state = "published"}
      Demoted(o) == {s \in {"archived", "deprecated"} :
        IF s = "archived" THEN MaySeeNone(o, {"inForce"}, Agreements)
        ELSE MaySeeSome(o, {"inForce"}, Agreements)}
  IN \/ /\ current = {}
        /\ SetState(d, "published")
     \/ \E o \in current : \E s \in Demoted(o) :
          /\ descriptor' = [descriptor EXCEPT ![d].state = "published", ![o].state = s]
          /\ Decided(o, s = "deprecated" <=> HasAgreement(o, {"inForce"}, Agreements))
          /\ UNCHANGED eservice
          /\ OtherStreams

\* assertRiskAnalysisIsValidForPublication, for a producer found to be of kind k.
RiskAnalysesComplete(e) ==
  /\ \E r \in RiskAnalyses : e.risk[r] # "absent"
  /\ \E k \in TenantKinds : \A r \in RiskAnalyses : e.risk[r] \in {"absent", k}

\* What publishDescriptor asks of a draft.
Publishable(d) ==
  /\ descriptor[d].interface /\ descriptor[d].audience
  /\ LET e == eservice[descriptor[d].eservice] IN e.receive => RiskAnalysesComplete(e)

(* publishDescriptor: under a delegation the producer has to approve first. *)
PublishDescriptor(d) ==
  /\ descriptor[d].state = "draft"
  /\ Publishable(d)
  /\ \E delegated \in DelegationViews(descriptor[d].eservice) :
       \/ delegated = "active" /\ SetState(d, "waitingForApproval")
       \/ delegated # "active" /\ Publication(d)

(* approveDelegatedEServiceDescriptor: the risk analyses are not looked at again. *)
ApproveDescriptor(d) ==
  /\ descriptor[d].state = "waitingForApproval"
  /\ Publication(d)

\* Slip: the producer may still reject what is published.
RejectAnyDescriptor(d) ==
  /\ descriptor[d].state \in {"waitingForApproval", "published"}
  /\ SetState(d, "draft")

(* rejectDelegatedEServiceDescriptor *)
RejectDescriptor(d) ==
  /\ descriptor[d].state = "waitingForApproval"
  /\ SetState(d, "draft")

(* suspendDescriptor *)
SuspendDescriptor(d) ==
  /\ descriptor[d].state \in {"published", "deprecated"}
  /\ SetState(d, "suspended")

\* Slip: a suspended descriptor always becomes published again.
PublishSuspended(d) ==
  /\ descriptor[d].state = "suspended"
  /\ SetState(d, "published")

(* activateDescriptor: only the most recent one becomes published again. *)
ActivateDescriptor(d) ==
  /\ descriptor[d].state = "suspended"
  /\ SetState(d, IF Newer(descriptor, d, Offered) = {} THEN "published" ELSE "deprecated")

-----------------------------------------------------------------------------
(* eservice-descriptors-archiver *)

\* Slip: only agreements that wait for approval keep a descriptor in use.
UsedWaiting == {"waiting"}

Used == {"waiting", "inForce", "rejected"}   \* every state but archived

\* Slip: a suspended descriptor is archived though it is the newest.
ArchivableSuspended(ds, d) == ds[d].state \in {"deprecated", "suspended"}

\* Slip: deprecated descriptors are forgotten.
ArchivableSuperseded(ds, d) ==
  ds[d].state = "suspended" /\ Newer(ds, d, {"published", "suspended"}) # {}

\* The states in which the archiver asks for a descriptor to be archived.
Archivable(ds, d) ==
  \/ ds[d].state = "deprecated"
  \/ ds[d].state = "suspended" /\ Newer(ds, d, {"published", "suspended"}) # {}

(* archiveDescriptorForArchivedAgreement up to its call of catalog-process. *)
RequestArchiving(a) ==
  LET d == agreement[a].descriptor IN
  /\ a \in messages /\ d \notin archiving
  /\ MaySeeNone(d, Used, Agreements \ {a})
  /\ \E ds \in DescriptorViews : Archivable(ds, d)
  /\ archiving' = archiving \cup {d}
  /\ Decided(d, ~HasAgreement(d, Used, Agreements \ {a}))
  /\ UNCHANGED <<eservice, descriptor, delegation, agreement, messages>>

(* ... and where it finds nothing to archive. *)
SkipArchiving(a) ==
  LET d == agreement[a].descriptor IN
  /\ a \in messages /\ d \notin archiving
  /\ \/ MaySeeSome(d, Used, Agreements \ {a})
     \/ \E ds \in DescriptorViews : ~Archivable(ds, d)
  /\ messages' = messages \ {a}
  /\ Decided(d, HasAgreement(d, Used, Agreements \ {a}) \/ ~Archivable(descriptor, d))
  /\ UNCHANGED <<eservice, descriptor, delegation, agreement, archiving>>

(* archiveDescriptor of catalog-process, whatever the descriptor's state; the *)
(* archiver commits its message, or dies before and starts over.             *)
ArchiveDescriptor(d) ==
  /\ d \in archiving
  /\ archiving' = archiving \ {d}
  /\ descriptor' = [descriptor EXCEPT ![d].state = "archived"]
  /\ \/ messages' = {a \in messages : agreement[a].descriptor # d}
     \/ UNCHANGED messages
  /\ UNCHANGED <<eservice, delegation, agreement, misread>>
-----------------------------------------------------------------------------
(* The agreements (agreement-process) and delegations (delegation-process).  *)

Around == UNCHANGED <<eservice, descriptor, archiving>>

(* An agreement is created on the latest descriptor, which is published. *)
CreateAgreement(a, d) ==
  /\ agreement[a] = NoAgreement
  /\ \E ds \in DescriptorViews : /\ ds[d].state = "published"
                                /\ Newer(ds, d, DescriptorState \ {"draft", "waitingForApproval"}) = {}
  /\ Decided(d, descriptor[d].state = "published")
  /\ agreement' = [agreement EXCEPT ![a] = [descriptor |-> d, state |-> "waiting"]]
  /\ UNCHANGED <<delegation, messages>> /\ Around

\* It is deleted, comes into force, or is rejected.
DeleteAgreement(a) ==
  /\ agreement[a].state = "waiting"
  /\ agreement' = [agreement EXCEPT ![a] = NoAgreement]
  /\ UNCHANGED <<delegation, messages, misread>> /\ Around

ActivateAgreement(a) ==
  /\ agreement[a].state = "waiting"
  /\ \E ds \in DescriptorViews : ds[agreement[a].descriptor].state \in Offered
  /\ Decided(agreement[a].descriptor, descriptor[agreement[a].descriptor].state \in Offered)
  /\ agreement' = [agreement EXCEPT ![a].state = "inForce"]
  /\ UNCHANGED <<delegation, messages>> /\ Around

RejectAgreement(a) ==
  /\ agreement[a].state = "waiting"
  /\ agreement' = [agreement EXCEPT ![a].state = "rejected"]
  /\ UNCHANGED <<delegation, messages, misread>> /\ Around

\* It is archived, for its consumer or because an upgrade replaces it.
ArchiveAgreement(a) ==
  /\ agreement[a].state = "inForce"
  /\ agreement' = [agreement EXCEPT ![a].state = "archived"]
  /\ messages' = messages \cup {a}
  /\ UNCHANGED <<delegation, misread>> /\ Around

UpgradeAgreement(a, n, d) ==
  /\ agreement[a].state = "inForce"
  /\ agreement[n] = NoAgreement
  /\ \E ds \in DescriptorViews :
       /\ ds[d].state = "published" /\ d \in Newer(ds, agreement[a].descriptor, {"published"})
  /\ Decided(d, descriptor[d].state = "published")
  /\ agreement' = [agreement EXCEPT ![a].state = "archived",
                                    ![n] = [descriptor |-> d, state |-> "inForce"]]
  /\ messages' = messages \cup {a}
  /\ UNCHANGED delegation /\ Around

(* A delegation is requested, approved, and revoked or rejected; for all but *)
(* the rejection the e-service has to be found.                              *)
ChangeDelegation(e) ==
  /\ \/ delegation[e] = None /\ eservice[e].exists
        /\ delegation' = [delegation EXCEPT ![e] = "waiting"]
     \/ delegation[e] = "waiting" /\ eservice[e].exists
        /\ delegation' = [delegation EXCEPT ![e] = "active"]
     \/ delegation[e] # None /\ (eservice[e].exists \/ delegation[e] = "waiting")
        /\ delegation' = [delegation EXCEPT ![e] = None]
  /\ UNCHANGED <<agreement, messages, misread>> /\ Around

-----------------------------------------------------------------------------
Init ==
  /\ eservice = [e \in EServices |-> NoEService]
  /\ descriptor = [d \in Descriptors |-> NoDescriptor]
  /\ delegation = [e \in EServices |-> None]
  /\ agreement = [a \in Agreements |-> NoAgreement]
  /\ messages = {} /\ archiving = {}
  /\ was = [delegation |-> [e \in EServices |-> {}], descriptor |-> {},
            agreement |-> [a \in Agreements |-> {}]]
  /\ misread = {}

EServiceRequest ==
  \E e \in EServices :
    \/ UpdateEService(e) \/ DeleteEService(e) \/ ChangeDelegation(e)
    \/ \E d \in Descriptors : CreateEService(e, d) \/ CreateDescriptor(e, d)
    \/ \E from, d \in Descriptors : CloneDescriptor(from, e, d)
    \/ \E r \in RiskAnalyses :
         CreateRiskAnalysis(e, r) \/ UpdateRiskAnalysis(e, r) \/ DeleteRiskAnalysis(e, r)

DescriptorRequest ==
  \E d \in Descriptors :
    \/ DeleteDraftDescriptor(d) \/ UpdateDraftDescriptor(d)
    \/ UploadInterface(d) \/ DeleteInterface(d)
    \/ PublishDescriptor(d) \/ ApproveDescriptor(d) \/ RejectDescriptor(d)
    \/ SuspendDescriptor(d) \/ ActivateDescriptor(d)

AgreementRequest ==
  \E a \in Agreements :
    \/ DeleteAgreement(a) \/ ActivateAgreement(a) \/ RejectAgreement(a) \/ ArchiveAgreement(a)
    \/ \E d \in Descriptors :
         CreateAgreement(a, d) \/ \E n \in Agreements : UpgradeAgreement(a, n, d)

Archiver ==
  \/ \E a \in Agreements : RequestArchiving(a) \/ SkipArchiving(a)
  \/ \E d \in Descriptors : ArchiveDescriptor(d)

Next == (EServiceRequest \/ DescriptorRequest \/ AgreementRequest \/ Archiver) /\ Remember

Spec == Init /\ [][Next]_vars

\* The archiver keeps polling, and repeats a call that failed.
ArchiverFairness ==
  /\ \A a \in Agreements :
       WF_vars((RequestArchiving(a) \/ SkipArchiving(a)) /\ Remember)
  /\ \A d \in Descriptors : WF_vars(ArchiveDescriptor(d) /\ Remember)

FairSpec == Spec /\ ArchiverFairness

-----------------------------------------------------------------------------
(* Type invariant: every descriptor belongs to an e-service that exists, an   *)
(* agreement is for a descriptor.                                            *)
TypeOK ==
  /\ eservice \in [EServices -> EService]
  /\ descriptor \in [Descriptors -> Descriptor]
  /\ \A d \in Descriptors :
       IF descriptor[d].state = "absent" THEN descriptor[d] = NoDescriptor
       ELSE /\ descriptor[d].eservice \in EServices /\ descriptor[d].version > 0
            /\ eservice[descriptor[d].eservice].exists
  /\ \A a \in Agreements :
       agreement[a].state # "absent" => agreement[a].descriptor \in Descriptors
  /\ delegation \in [EServices -> DelegationState]
  /\ agreement \in [Agreements -> Agreement]
  /\ messages \subseteq {a \in Agreements : agreement[a].state = "archived"}
  /\ archiving \subseteq Descriptors
  /\ misread \subseteq Descriptors

Exists(d) == descriptor[d] # NoDescriptor
Siblings(d, n) == descriptor[d].eservice = descriptor[n].eservice
WasPublished(d) == descriptor[d].state \in Offered \cup {"archived"}
Newest(d) == \A n \in Descriptors :
  WasPublished(n) /\ Siblings(d, n) => descriptor[n].version <= descriptor[d].version

(* Versions identify the descriptors of an e-service, though the number of a *)
(* deleted draft is used again.                                              *)
VersionsUnique ==
  \A d, n \in Descriptors :
    Exists(d) /\ Exists(n) /\ Siblings(d, n) /\ descriptor[d].version = descriptor[n].version
      => d = n

(* There is at most one draft or descriptor waiting for approval, and it is  *)
(* the greatest version: rejections, deletions and approvals of a delegate's *)
(* submissions never leave two in preparation.                               *)
DraftIsNewest ==
  \A d, n \in Descriptors :
    Unpublished(d) /\ Exists(n) /\ Siblings(d, n) /\ n # d =>
      ~Unpublished(n) /\ descriptor[n].version < descriptor[d].version

(* The published descriptor is the newest one ever published, so it is the   *)
(* only one: suspension, reactivation and publication in any order, and the  *)
(* archiver's late calls, never bring an old version back.                   *)
PublishedIsNewest ==
  \A d \in Descriptors : descriptor[d].state = "published" => Newest(d)

(* The newest descriptor ever published is published or suspended: consumers *)
(* keep a version they can subscribe to, and validateLatestDescriptor of     *)
(* agreement-process never finds a deprecated or archived one.               *)
NewestIsOffered ==
  \A d \in Descriptors :
    WasPublished(d) /\ Newest(d) => descriptor[d].state \in {"published", "suspended"}

(* What publishDescriptor checked of a descriptor stays as it was while the  *)
(* descriptor waits for the producer's approval and ever after: an           *)
(* interface, an audience and, in RECEIVE mode, risk analyses all complete   *)
(* by the rules of one and the same kind of tenant.  Nothing makes that the  *)
(* producer's kind at the approval, which does not look at the risk analyses *)
(* again: the kind may have changed since the descriptor was submitted.      *)
OfferedIsComplete ==
  \A d \in Descriptors :
    WasPublished(d) \/ descriptor[d].state = "waitingForApproval" => Publishable(d)

(* An archived descriptor stays archived, and one that was published is      *)
(* never deleted or a draft again.                                           *)
PublicationIsFinal ==
  [][\A d \in Descriptors :
       WasPublished(d) => /\ descriptor'[d].state \in Offered \cup {"archived"}
                          /\ descriptor[d].state = "archived" =>
                               descriptor'[d] = descriptor[d]]_vars

(* A descriptor is not archived under an agreement in force, which the next  *)
(* publication and the archiver look for ("should also write deprecate the   *)
(* previously published descriptor if there was a valid agreement"), unless  *)
(* somebody read a past state and decided about the descriptor against the   *)
(* current one.                                                              *)
UsedNotArchived ==
  \A a \in Agreements :
    LET d == agreement[a].descriptor
    IN agreement[a].state = "inForce" /\ d \notin misread => descriptor[d].state # "archived"

(* When the last of a deprecated descriptor's agreements is archived, the    *)
(* descriptor is archived too ("should call archive Descriptor when all      *)
(* Agreements are Archived and the Descriptor is deprecated"), unless the    *)
(* archiver still saw one that is not.                                       *)
UnusedArchived ==
  \A d \in Descriptors :
    /\ descriptor[d].state = "deprecated"
    /\ \E a \in messages : agreement[a].descriptor = d
    /\ \A a \in Agreements : agreement[a].descriptor = d => agreement[a].state = "archived"
    ~> descriptor[d].state = "archived" \/ d \in misread

(* An e-service is not deleted under its delegation ("E-service ... can't be *)
(* deleted with an active or pending delegation").                           *)
DelegatedEServiceExists ==
  \A e \in EServices : delegation[e] # None => eservice[e].exists
=============================================================================
