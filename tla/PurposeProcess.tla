--------------------------- MODULE PurposeProcess ---------------------------
(***************************************************************************)
(* The purposes for which organizations use one e-service: the handlers of *)
(* packages/purpose-process/src/services/purposeService.ts.  The daily     *)
(* calls of the active versions draw on the quotas of the descriptor the   *)
(* consumer's agreement is for; a version beyond them waits for the        *)
(* producer's approval.                                                    *)
(*                                                                         *)
(* A handler writes one purpose, at the version it has read (EventStore).  *)
(* The other purposes and the agreement come from the read model, which    *)
(* lags: a comparison with the quotas may come out either way.  Delegation *)
(* lags too, but only decides who may take a step: one taken on an old     *)
(* value is a step taken just before the change.                           *)
(*                                                                         *)
(* Forms and documents of risk analyses, titles and payment are left out.  *)
(***************************************************************************)
EXTENDS Naturals, Sequences, FiniteSets, SequencesExt, FiniteSetsExt

CONSTANTS
  Purposes,     \* purpose identifiers
  Owner,        \* purpose -> its consumer
  Producer, Delegate,   \* organizations
  Quota,        \* descriptor -> [consumer |-> calls, total |-> calls]
  MaxCalls,     \* bound on the daily calls of a version
  MaxVersions   \* purpose -> bound on its versions

Descriptor == DOMAIN Quota
None == 0
Calls == 1..MaxCalls
Consumers == {Owner[p] : p \in Purposes}
Organizations == Consumers \cup {Producer, Delegate}

ASSUME QuotaAssumption ==
  /\ None \notin Descriptor
  /\ \A d \in Descriptor : Quota[d] \in [consumer: Nat, total: Nat]
  /\ MaxCalls \in Nat /\ MaxVersions \in [Purposes -> Nat \ {0}]

VARIABLES
  purpose,     \* purpose -> its versions, oldest first, and its flags
  agreement,   \* consumer -> the descriptor of its active agreement, or None
  delegated,   \* has the e-service an active producer delegation?
  misread      \* did the last step compare stale calls or quotas, wrongly?

vars == <<purpose, agreement, delegated, misread>>

VersionState == {"draft", "waitingForApproval", "active", "suspended", "archived", "rejected"}
Version == [state: VersionState, calls: Calls]

InUse == {"active", "suspended"}
Pending == {"draft", "waitingForApproval"}

Absent == [versions |-> <<>>, byConsumer |-> FALSE, byProducer |-> FALSE]

\* The versions of a purpose in one of the states.
In(states, p) == {i \in DOMAIN purpose[p].versions : purpose[p].versions[i].state \in states}

purposeIsDraft(p) == In(VersionState \ {"draft"}, p) = {}

Exists(p) == purpose[p].versions # <<>>

-----------------------------------------------------------------------------
(* validators.ts: quotas; purposeService.ts: roles and lists of versions *)

Load(ps) ==
  MapThenSumSet(LAMBDA pi : purpose[pi[1]].versions[pi[2]].calls,
                UNION {{p} \X In({"active"}, p) : p \in ps})

PurposesOf(c) == {p \in Purposes : Owner[p] = c}

\* The calls are added to what is active, less what they replace there.
OverQuota(p, calls, minus) ==
  LET quota == Quota[agreement[Owner[p]]]
  IN \/ Load(PurposesOf(Owner[p])) + calls > quota.consumer + minus
     \/ Load(Purposes) + calls > quota.total + minus

isOverQuota(p, calls, minus, over) ==
  /\ agreement[Owner[p]] # None
  /\ misread' = (over # OverQuota(p, calls, minus))

getOrganizationRole(org, p) ==
  IF Owner[p] = Producer /\ org = Producer THEN "selfConsumer"
  ELSE IF Owner[p] # Producer /\ org = Owner[p] THEN "consumer"
  ELSE IF org = (IF delegated THEN Delegate ELSE Producer) THEN "producer"
  ELSE "none"

assertRequesterIsProducer(org) == org = (IF delegated THEN Delegate ELSE Producer)

\* Slip: a suspended version is left as it is.
archiveActive(versions) ==
  [i \in DOMAIN versions |->
     IF versions[i].state = "active" THEN [versions[i] EXCEPT !.state = "archived"] ELSE versions[i]]

archiveActiveAndSuspended(versions) ==
  [i \in DOMAIN versions |->
     IF versions[i].state \in InUse THEN [versions[i] EXCEPT !.state = "archived"] ELSE versions[i]]

\* What is left when one filters out those that wait.
withoutWaitingForApproval(versions) ==
  LET kept == {i \in DOMAIN versions : versions[i].state # "waitingForApproval"}
      Nth(n) == CHOOSE i \in kept : Cardinality({j \in kept : j <= i}) = n
  IN [n \in 1..Cardinality(kept) |-> versions[Nth(n)]]

\* replacePurposeVersion
SetState(versions, i, state) == [versions EXCEPT ![i].state = state]

Save(p, value) ==
  /\ purpose' = [purpose EXCEPT ![p] = value]
  /\ UNCHANGED <<agreement, delegated>>

SaveVersions(p, versions) == Save(p, [purpose[p] EXCEPT !.versions = versions])

-----------------------------------------------------------------------------
(* createPurpose, createReversePurpose *)
CreatePurpose(p, calls) ==
  /\ ~Exists(p)
  /\ agreement[Owner[p]] # None
  /\ Save(p, [Absent EXCEPT !.versions = <<[state |-> "draft", calls |-> calls]>>])
  /\ misread' = FALSE

\* getVersionToClone: the newest, if possible one that is not waiting.
VersionToClone(q) ==
  IF In(VersionState \ {"waitingForApproval"}, q) # {}
  THEN Max(In(VersionState \ {"waitingForApproval"}, q))
  ELSE Len(purpose[q].versions)

(* clonePurpose: the clone belongs to the organization that asks for it. *)
ClonePurpose(q, p) ==
  /\ Exists(q) /\ ~purposeIsDraft(q) /\ ~Exists(p)
  /\ LET calls == purpose[q].versions[VersionToClone(q)].calls
     IN Save(p, [Absent EXCEPT !.versions = <<[state |-> "draft", calls |-> calls]>>])
  /\ misread' = FALSE

(* updatePurpose, updateReversePurpose *)
UpdatePurpose(p, calls) ==
  /\ Exists(p) /\ purposeIsDraft(p)
  /\ SaveVersions(p, <<[purpose[p].versions[1] EXCEPT !.calls = calls]>>)
  /\ misread' = FALSE

(* deletePurpose *)
DeletePurpose(p) ==
  /\ Exists(p) /\ In(Pending, p) = DOMAIN purpose[p].versions
  /\ Save(p, Absent)
  /\ misread' = FALSE

(* deletePurposeVersion *)
DeletePurposeVersion(p, i) ==
  /\ i \in In({"waitingForApproval"}, p) /\ Len(purpose[p].versions) # 1
  /\ SaveVersions(p, RemoveAt(purpose[p].versions, i))
  /\ misread' = FALSE

\* Slip: a purpose without a version in use may get a new one.
previousOrNone(p) ==
  IF In(InUse, p) = {} THEN {[state |-> "archived", calls |-> 0]}
  ELSE {purpose[p].versions[Max(In(InUse, p))]}

\* The newest version in use.  Without one, the code reads the state of an
\* undefined version and the call fails.
previousVersion(p) ==
  IF In(InUse, p) = {} THEN {} ELSE {purpose[p].versions[Max(In(InUse, p))]}

\* Slip: the previous version's calls are never counted again.
deltaAlways(previous) == previous.calls

\* What is counted in the load and the new version replaces.
deltaDailyCalls(previous) == IF previous.state = "suspended" THEN 0 ELSE previous.calls

(* createPurposeVersion *)
CreatePurposeVersion(p, calls, over) ==
  /\ Exists(p) /\ In(Pending, p) = {}
  /\ Len(purpose[p].versions) < MaxVersions[p]
  /\ \E previous \in previousVersion(p) :
       /\ calls # previous.calls
       /\ isOverQuota(p, calls, deltaDailyCalls(previous), over)
  /\ LET old == purpose[p].versions
     IN SaveVersions(p,
          IF over THEN Append(old, [state |-> "waitingForApproval", calls |-> calls])
          ELSE Append(archiveActiveAndSuspended(old), [state |-> "active", calls |-> calls]))

(* rejectPurposeVersion *)
RejectPurposeVersion(p, i, org) ==
  /\ assertRequesterIsProducer(org)
  /\ i \in In({"waitingForApproval"}, p)
  /\ SaveVersions(p, SetState(purpose[p].versions, i, "rejected"))
  /\ misread' = FALSE

(* archivePurposeVersion *)
ArchivePurposeVersion(p, i) ==
  /\ i \in In(InUse, p)
  /\ SaveVersions(p, withoutWaitingForApproval(SetState(purpose[p].versions, i, "archived")))
  /\ misread' = FALSE

(* suspendPurposeVersion *)
SuspendPurposeVersion(p, i, org) ==
  /\ i \in In(InUse, p)
  /\ LET suspended == [purpose[p] EXCEPT !.versions = SetState(@, i, "suspended")]
     IN \/ /\ getOrganizationRole(org, p) = "consumer"
           /\ Save(p, [suspended EXCEPT !.byConsumer = TRUE])
        \/ /\ getOrganizationRole(org, p) \in {"producer", "selfConsumer"}
           /\ Save(p, [suspended EXCEPT !.byProducer = TRUE])
  /\ misread' = FALSE

-----------------------------------------------------------------------------
(* activatePurposeVersion *)

\* activatePurposeLogic
Activated(p, i) == SetState(archiveActiveAndSuspended(purpose[p].versions), i, "active")

ActivateDraft(p, i, org, over) ==
  /\ i \in In({"draft"}, p)
  /\ getOrganizationRole(org, p) \in {"consumer", "selfConsumer"}
  /\ isOverQuota(p, purpose[p].versions[i].calls, 0, over)
  /\ SaveVersions(p, IF over THEN SetState(purpose[p].versions, i, "waitingForApproval")
                     ELSE Activated(p, i))

\* Slip: the suspensions of the version that is replaced are kept.
ApproveKeepingFlags(p, i, org) ==
  /\ i \in In({"waitingForApproval"}, p)
  /\ getOrganizationRole(org, p) \in {"producer", "selfConsumer"}
  /\ SaveVersions(p, Activated(p, i))
  /\ misread' = FALSE

ApprovePurposeVersion(p, i, org) ==
  /\ i \in In({"waitingForApproval"}, p)
  /\ getOrganizationRole(org, p) \in {"producer", "selfConsumer"}
  /\ Save(p, [versions |-> Activated(p, i), byConsumer |-> FALSE, byProducer |-> FALSE])
  /\ misread' = FALSE

\* Slip: both suspensions are lifted, whoever asks.
ResumeClearingBoth(p, i, role) ==
  LET other == \/ purpose[p].byConsumer /\ role = "producer"
               \/ purpose[p].byProducer /\ role = "consumer"
  IN Save(p, [versions |-> SetState(purpose[p].versions, i, IF other THEN "suspended" ELSE "active"),
              byConsumer |-> FALSE, byProducer |-> FALSE])

\* activatePurposeVersionFromSuspendedLogic
Resume(p, i, role) ==
  LET other == \/ purpose[p].byConsumer /\ role = "producer"
               \/ purpose[p].byProducer /\ role = "consumer"
      resumed == [purpose[p] EXCEPT
                    !.versions = SetState(@, i, IF other THEN "suspended" ELSE "active")]
  IN Save(p, IF role = "consumer" THEN [resumed EXCEPT !.byConsumer = FALSE]
             ELSE [resumed EXCEPT !.byProducer = FALSE])

\* activatePurposeVersionFromOverQuotaSuspendedLogic: a new version waits.
AskAgain(p, i) ==
  LET old == withoutWaitingForApproval(purpose[p].versions)
  IN /\ Len(old) < MaxVersions[p]
     /\ SaveVersions(p, Append(old, [state |-> "waitingForApproval",
                                     calls |-> purpose[p].versions[i].calls]))

UnsuspendUnchecked(p, i, org) ==
  /\ i \in In({"suspended"}, p)
  /\ \/ getOrganizationRole(org, p) = "producer"
     \/ getOrganizationRole(org, p) = "consumer" /\ purpose[p].byConsumer /\ purpose[p].byProducer
  /\ Resume(p, i, getOrganizationRole(org, p))
  /\ misread' = FALSE

UnsuspendWithinQuota(p, i, org, over) ==
  /\ i \in In({"suspended"}, p)
  /\ \/ getOrganizationRole(org, p) = "selfConsumer"
     \/ getOrganizationRole(org, p) = "consumer" /\ purpose[p].byConsumer /\ ~purpose[p].byProducer
  /\ isOverQuota(p, purpose[p].versions[i].calls, 0, over)
  /\ IF over THEN AskAgain(p, i) ELSE Resume(p, i, getOrganizationRole(org, p))

-----------------------------------------------------------------------------
(* The agreement of a consumer is activated, upgraded, suspended or archived; *)
(* a producer delegation is approved or revoked.                              *)
ChangeAgreement(c) ==
  /\ \E d \in Descriptor \cup {None} : d # agreement[c] /\ agreement' = [agreement EXCEPT ![c] = d]
  /\ misread' = FALSE
  /\ UNCHANGED <<purpose, delegated>>

ChangeDelegation ==
  /\ Delegate # Producer
  /\ delegated' = ~delegated
  /\ misread' = FALSE
  /\ UNCHANGED <<purpose, agreement>>

-----------------------------------------------------------------------------
Init ==
  /\ purpose = [p \in Purposes |-> Absent]
  /\ agreement = [c \in Consumers |-> None]
  /\ delegated = FALSE
  /\ misread = FALSE

Draft(p) ==
  \/ \E calls \in Calls : CreatePurpose(p, calls) \/ UpdatePurpose(p, calls)
  \/ \E q \in Purposes : ClonePurpose(q, p)
  \/ DeletePurpose(p)

ActivatePurposeVersion(p, i, org) ==
  \/ ApprovePurposeVersion(p, i, org)
  \/ UnsuspendUnchecked(p, i, org)
  \/ \E over \in BOOLEAN : ActivateDraft(p, i, org, over) \/ UnsuspendWithinQuota(p, i, org, over)

Next ==
  \/ \E p \in Purposes :
       \/ Draft(p)
       \/ \E calls \in Calls, over \in BOOLEAN : CreatePurposeVersion(p, calls, over)
       \/ \E i \in DOMAIN purpose[p].versions :
            \/ DeletePurposeVersion(p, i) \/ ArchivePurposeVersion(p, i)
            \/ \E org \in Organizations :
                 \/ RejectPurposeVersion(p, i, org) \/ SuspendPurposeVersion(p, i, org)
                 \/ ActivatePurposeVersion(p, i, org)
  \/ \E c \in Consumers : ChangeAgreement(c)
  \/ ChangeDelegation

Spec == Init /\ [][Next]_vars

-----------------------------------------------------------------------------
(* Type invariant: a purpose has no more versions than its bound, and one     *)
(* that does not exist has no flags.                                          *)
TypeOK ==
  /\ \A p \in Purposes :
       /\ purpose[p].versions \in Seq(Version) /\ Len(purpose[p].versions) <= MaxVersions[p]
       /\ purpose[p].byConsumer \in BOOLEAN /\ purpose[p].byProducer \in BOOLEAN
       /\ Exists(p) \/ purpose[p] = Absent
  /\ agreement \in [Consumers -> Descriptor \cup {None}]
  /\ delegated \in BOOLEAN /\ misread \in BOOLEAN

(* Whatever the order of new versions, suspensions, approvals and requests    *)
(* made again, one version of a purpose is in use, at most one waits, and     *)
(* that is the newest: createPurposeVersion, the token states and the         *)
(* clients pick the version in use by looking for one.                        *)
OneVersionInUse ==
  \A p \in Purposes :
    /\ Cardinality(In(InUse, p)) <= 1
    /\ In(Pending, p) \subseteq {Len(purpose[p].versions)}
    /\ In({"draft"}, p) # {} => Len(purpose[p].versions) = 1

(* A suspended version has somebody who suspended it and may lift that.       *)
SuspendedBySomebody ==
  \A p \in Purposes :
    In({"suspended"}, p) # {} => purpose[p].byConsumer \/ purpose[p].byProducer

(* A version that was suspended or waiting gets active only when neither      *)
(* party's suspension is left: neither lifts the other's.                     *)
ResumedWithoutFlags ==
  [][\A p \in Purposes : \A i \in DOMAIN purpose[p].versions :
       /\ i \in In({"suspended", "waitingForApproval"}, p)
       /\ i \in DOMAIN purpose'[p].versions /\ purpose'[p].versions[i].state = "active"
       => ~purpose'[p].byConsumer /\ ~purpose'[p].byProducer]_vars

(* As long as the calls and quotas that are compared are current, a version   *)
(* gets active beyond the quotas of its consumer's descriptor only if the     *)
(* producer approves it or lifts its own suspension: no path of new version,  *)
(* suspension and resumption gets a consumer around the approval.             *)
QuotaKept ==
  [][\A p \in Purposes : \A i \in DOMAIN purpose'[p].versions :
       /\ ~misread'
       /\ purpose'[p].versions[i].state = "active" /\ i \notin In({"active"}, p)
       /\ i \notin In({"waitingForApproval"}, p)
       /\ ~(i \in In({"suspended"}, p) /\ purpose[p].byProducer)
       => /\ agreement[Owner[p]] # None
          /\ Load(PurposesOf(Owner[p]))' <= Quota[agreement[Owner[p]]].consumer
          /\ Load(Purposes)' <= Quota[agreement[Owner[p]]].total]_vars

(* An archived purpose, or one whose only request was rejected, stays as it   *)
(* is: no version is added to it.                                             *)
EndedIsFinal ==
  [][\A p \in Purposes :
       Exists(p) /\ In(InUse \cup Pending, p) = {} => purpose'[p] = purpose[p]]_vars
=============================================================================
