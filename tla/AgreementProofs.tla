--------------------------- MODULE AgreementProofs ---------------------------
(* Proofs about the agreements of a pair, for any number of agreements and   *)
(* descriptors, whoever the parties are, whatever the descriptors require    *)
(* and whether or not the read model lags.                                   *)
EXTENDS AgreementProcess, TLAPS

\* An agreement of the right shape, whose flags and stamps say why it is in
\* its state; a rejected agreement has given its flags up.
Coherent(ag) ==
  /\ ag \in Agreement
  /\ ag.state = "absent" => ag = Absent
  /\ ag.state # "absent" => ag.descriptor \in Descriptor
  /\ ag.state = "missingCertifiedAttributes" => ag.byPlatform = "yes"
  /\ ag.state \in {"draft", "pending", "active"} => ag.byPlatform # "yes"
  /\ ag.state = "rejected" => ag.byConsumer = "unset" /\ ag.byProducer = "unset"
                              /\ ag.byPlatform = "unset"
  /\ ag.byConsumer = "yes" => "suspensionByConsumer" \in ag.stamps
  /\ ag.byProducer = "yes" => "suspensionByProducer" \in ag.stamps

\* What no handler does to an agreement: touch one that has ended, move it to
\* another descriptor, or make a suspended one active while a flag is left.
Proper(ag, new) ==
  /\ ag.state # "absent" /\ new.state # "absent" => new.descriptor = ag.descriptor
  /\ ag.state \in {"archived", "rejected"} => new = ag
  /\ ag.state = "suspended" /\ new.state = "active" =>
       "yes" \notin {new.byConsumer, new.byProducer, new.byPlatform}

Inv ==
  /\ TypeOK
  /\ \A a \in Agreements : Coherent(store[a])
  /\ was.delegated \subseteq BOOLEAN

\* What ArchivedForSuccessor says of a step.
Succession ==
  \A a, b \in Agreements :
    /\ a # b /\ store[a].state # "archived" /\ store'[a].state = "archived"
    /\ store'[b] # store[b]
    => \E c \in Agreements : store'[c].state \in InForce

\* What a step does to the agreements.
Steps ==
  /\ store' = [a \in Agreements |-> store'[a]]
  /\ \A a \in Agreements : Coherent(store'[a]) /\ Proper(store[a], store'[a])
  /\ Succession

-----------------------------------------------------------------------------
(* The operators the handlers are built from *)

\* Where each state goes when the attributes are evaluated.
LEMMA NextStates ==
  ASSUME NEW ag \in Agreement, NEW h
  PROVE  LET next == NextStateByAttributesFSM(ag, h) IN
         /\ ag.state = "draft" =>
              next \in {"draft", "pending", "active", "missingCertifiedAttributes"}
         /\ ag.state = "pending" =>
              next \in {"draft", "pending", "active", "missingCertifiedAttributes"}
         /\ ag.state \in InForce => next \in {"active", "suspended"}
         /\ ag.state = "missingCertifiedAttributes" =>
              next \in {"draft", "missingCertifiedAttributes"}
         /\ ag.state \in {"absent", "archived", "rejected"} => next = ag.state
<1>1. CASE ag.state = "draft"
  BY <1>1 DEF NextStateByAttributesFSM, NextStateFromDraft, InForce
<1>2. CASE ag.state = "pending"
  BY <1>2 DEF NextStateByAttributesFSM, NextStateFromPending, InForce
<1>3. CASE ag.state \in InForce
  BY <1>3 DEF NextStateByAttributesFSM, NextStateFromActiveOrSuspended, InForce
<1>4. CASE ag.state = "missingCertifiedAttributes"
  BY <1>4 DEF NextStateByAttributesFSM, NextStateFromMissing, InForce
<1>5. CASE ag.state \in {"absent", "archived", "rejected"}
  BY <1>5 DEF NextStateByAttributesFSM, InForce
<1> QED BY <1>1, <1>2, <1>3, <1>4, <1>5 DEF Agreement, AgreementState, InForce

LEMMA ArchivedCoherent ==
  ASSUME NEW ag, Coherent(ag), ag.state \in InForce
  PROVE  Coherent(Archived(ag)) /\ Proper(ag, Archived(ag))
BY DEF Coherent, Proper, Archived, Agreement, AgreementState, InForce, Absent, Descriptor

LEMMA MissingCoherent ==
  ASSUME NEW ag, Coherent(ag), ag.state \in {"draft", "pending", "suspended"}
  PROVE  /\ Coherent(SetMissingCertifiedAttributes(ag))
         /\ Proper(ag, SetMissingCertifiedAttributes(ag))
BY DEF Coherent, Proper, SetMissingCertifiedAttributes, Agreement, AgreementState, Absent,
       Flag, Descriptor

LEMMA SubmittedCoherent ==
  ASSUME NEW ag, Coherent(ag), ag.state = "draft", NEW newState \in {"pending", "active"},
         NEW byPlatform \in Flag, byPlatform # "yes"
  PROVE  /\ Coherent(Submitted(ag, newState, byPlatform))
         /\ Proper(ag, Submitted(ag, newState, byPlatform))
BY DEF Coherent, Proper, Submitted, Agreement, AgreementState, Absent, Flag, Stamp,
       Descriptor

\* A party resumes: its own flag and stamp go, the other's stay together.
LEMMA ActivatedCoherent ==
  ASSUME NEW ag, Coherent(ag), ag.state \in {"pending", "suspended"}, NEW r,
         NEW deleg \in BOOLEAN, NEW next, NEW newState \in {"active", "suspended"},
         NEW first \in BOOLEAN, NEW byPlatform \in Flag,
         newState = AgreementStateByFlags(next, SuspendedByProducerFlag(ag, r, "active", deleg),
                      SuspendedByConsumerFlag(ag, r, "active"), byPlatform)
  PROVE  LET new == [ag EXCEPT !.state = newState,
                       !.byConsumer = SuspendedByConsumerFlag(ag, r, "active"),
                       !.byProducer = SuspendedByProducerFlag(ag, r, "active", deleg),
                       !.byPlatform = byPlatform,
                       !.stamps = IF first THEN @ \cup {"activation"}
                                  ELSE SuspensionStamps(ag, r, "active", deleg)]
         IN Coherent(new) /\ Proper(ag, new)
<1> DEFINE byConsumer == SuspendedByConsumerFlag(ag, r, "active")
           byProducer == SuspendedByProducerFlag(ag, r, "active", deleg)
           stamps == IF first THEN ag.stamps \cup {"activation"}
                     ELSE SuspensionStamps(ag, r, "active", deleg)
<1>1. byConsumer \in Flag /\ byProducer \in Flag /\ stamps \subseteq Stamp
  BY DEF Coherent, Agreement, SuspendedByConsumerFlag, SuspendedByProducerFlag,
         SuspensionStamps, YesNo, Flag, Stamp
<1>2. byConsumer = "yes" => "suspensionByConsumer" \in stamps
  BY DEF Coherent, SuspendedByConsumerFlag, SuspensionStamps, YesNo
<1>3. byProducer = "yes" => "suspensionByProducer" \in stamps
  BY DEF Coherent, SuspendedByProducerFlag, SuspensionStamps, YesNo
<1>4. newState = "active" => "yes" \notin {byConsumer, byProducer, byPlatform}
  BY DEF AgreementStateByFlags
<1> HIDE DEF byConsumer, byProducer, stamps
<1>5. LET new == [ag EXCEPT !.state = newState, !.byConsumer = byConsumer,
                    !.byProducer = byProducer, !.byPlatform = byPlatform, !.stamps = stamps]
      IN Coherent(new) /\ Proper(ag, new)
  BY <1>1, <1>2, <1>3, <1>4
     DEF Coherent, Proper, Agreement, AgreementState, Absent, Descriptor
<1> QED BY <1>5 DEF byConsumer, byProducer, stamps

LEMMA SuspendedCoherent ==
  ASSUME NEW ag, Coherent(ag), ag.state \in InForce, NEW r, NEW deleg \in BOOLEAN, NEW h
  PROVE  Coherent(Suspended(ag, r, h, deleg)) /\ Proper(ag, Suspended(ag, r, h, deleg))
<1> DEFINE byConsumer == SuspendedByConsumerFlag(ag, r, "suspended")
           byProducer == SuspendedByProducerFlag(ag, r, "suspended", deleg)
           stamps == SuspensionStamps(ag, r, "suspended", deleg)
           state == AgreementStateByFlags(NextStateByAttributesFSM(ag, h),
                                          byProducer, byConsumer, ag.byPlatform)
<1>1. byConsumer \in Flag /\ byProducer \in Flag /\ stamps \subseteq Stamp
  BY DEF Coherent, Agreement, SuspendedByConsumerFlag, SuspendedByProducerFlag,
         SuspensionStamps, YesNo, Flag, Stamp
<1>2. byConsumer = "yes" => "suspensionByConsumer" \in stamps
  BY DEF Coherent, SuspendedByConsumerFlag, SuspensionStamps, YesNo
<1>3. byProducer = "yes" => "suspensionByProducer" \in stamps
  BY DEF Coherent, SuspendedByProducerFlag, SuspensionStamps, YesNo
<1>4. /\ state \in {"active", "suspended"}
      /\ state = "active" => "yes" \notin {byConsumer, byProducer, ag.byPlatform}
  <2>1. NextStateByAttributesFSM(ag, h) \in {"active", "suspended"}
    BY NextStates DEF Coherent
  <2> QED BY <2>1 DEF AgreementStateByFlags
<1>5. Suspended(ag, r, h, deleg) = [ag EXCEPT !.state = state, !.byConsumer = byConsumer,
                                      !.byProducer = byProducer, !.stamps = stamps]
  BY DEF Suspended
<1> HIDE DEF byConsumer, byProducer, stamps, state
<1> QED BY <1>1, <1>2, <1>3, <1>4, <1>5
           DEF Coherent, Proper, Agreement, AgreementState, Absent, Descriptor, InForce

LEMMA UpdatedCoherent ==
  ASSUME NEW ag, Coherent(ag), NEW h, MustUpdate(ag, h)
  PROVE  /\ Coherent(Updated(ag, h)) /\ Proper(ag, Updated(ag, h))
         /\ Updated(ag, h).state # "archived"
<1> DEFINE next == NextStateByAttributesFSM(ag, h)
           byPlatform == SuspendedByPlatformFlag(next)
           state == AgreementStateByFlags(next, ag.byProducer, ag.byConsumer, byPlatform)
<1>1. Updated(ag, h) = [ag EXCEPT !.state = state, !.byPlatform = byPlatform]
  BY DEF Updated
<1>2. state \in AllowedStateTransitions(ag.state)
  BY <1>1 DEF MustUpdate, Coherent, Agreement
<1>3. byPlatform \in Flag /\ (byPlatform = "yes" <=>
                                next \in {"suspended", "missingCertifiedAttributes"})
  BY DEF SuspendedByPlatformFlag, YesNo, Flag
<1>4. /\ state # "active" => next = state \/ (next = "active" /\ state = "suspended")
      /\ state = "active" => "yes" \notin {ag.byConsumer, ag.byProducer, byPlatform}
  BY DEF AgreementStateByFlags
<1> HIDE DEF next, byPlatform, state
<1>5. CASE ag.state \in {"draft", "pending"}
  BY <1>1, <1>2, <1>3, <1>4, <1>5
     DEF Coherent, Proper, Agreement, AgreementState, Absent, Descriptor, AllowedStateTransitions
<1>6. CASE ag.state = "missingCertifiedAttributes"
  BY <1>1, <1>2, <1>3, <1>4, <1>6
     DEF Coherent, Proper, Agreement, AgreementState, Absent, Descriptor, AllowedStateTransitions
<1>7. CASE ag.state \in InForce
  BY <1>1, <1>2, <1>3, <1>4, <1>7
     DEF Coherent, Proper, Agreement, AgreementState, Absent, Descriptor, AllowedStateTransitions,
         InForce
<1>8. CASE ag.state \in {"absent", "archived", "rejected"}
  BY <1>2, <1>8 DEF AllowedStateTransitions
<1> QED BY <1>5, <1>6, <1>7, <1>8 DEF Coherent, Agreement, AgreementState, InForce

LEMMA UpgradedCoherent ==
  ASSUME NEW ag, Coherent(ag), ag.state \in InForce, NEW d \in Descriptor
  PROVE  Coherent(Upgraded(ag, d)) /\ Coherent(UpgradeDraft(ag, d))
<1>1. Coherent(Upgraded(ag, d))
  BY DEF Coherent, Upgraded, Agreement, AgreementState, Absent, Descriptor, Flag, InForce
<1>2. Coherent(UpgradeDraft(ag, d))
  BY DEF Coherent, UpgradeDraft, Agreement, AgreementState, Absent, Descriptor, Flag, InForce,
         Stamp
<1> QED BY <1>1, <1>2

LEMMA ClonedCoherent ==
  ASSUME NEW ag, Coherent(ag), ag.state = "rejected"
  PROVE  Coherent([ag EXCEPT !.state = "draft", !.stamps = {}])
BY DEF Coherent, Agreement, AgreementState, Absent, Descriptor, Flag, Stamp

LEMMA AbsentCoherent ==
  /\ Coherent(Absent)
  /\ \A d \in Descriptor : Coherent([Absent EXCEPT !.state = "draft", !.descriptor = d])
  /\ \A new : Proper(Absent, new)
BY DEF Coherent, Proper, Absent, Agreement, AgreementState, Descriptor, Flag, Stamp

-----------------------------------------------------------------------------
(* Initial states and steps *)

\* A batch whose values are coherent, and proper changes of what was stored.
LEMMA SaveSteps ==
  ASSUME Inv, NEW new, DOMAIN new \subseteq Agreements, Save(new),
         \A b \in DOMAIN new : Coherent(new[b]) /\ Proper(store[b], new[b]),
         \/ \A b, c \in DOMAIN new : b = c
         \/ \E b \in DOMAIN new : new[b].state \in InForce
         \/ \A b \in DOMAIN new : new[b].state # "archived"
  PROVE  Steps
<1>1. \A a \in Agreements : store'[a] = IF a \in DOMAIN new THEN new[a] ELSE store[a]
  BY DEF Save
<1>2. ASSUME NEW a \in Agreements
      PROVE  Coherent(store'[a]) /\ Proper(store[a], store'[a])
  <2>1. CASE a \in DOMAIN new
    BY <1>1, <2>1
  <2>2. CASE a \notin DOMAIN new
    BY <1>1, <2>2 DEF Inv, Proper
  <2> QED BY <2>1, <2>2
<1>3. Succession
  BY <1>1 DEF Succession
<1>4. store' = [a \in Agreements |-> store'[a]]
  BY DEF Save
<1> QED BY <1>2, <1>3, <1>4 DEF Steps

LEMMA SaveOneSteps ==
  ASSUME Inv, NEW a \in Agreements, NEW new, Save([b \in {a} |-> new]),
         Coherent(new), Proper(store[a], new)
  PROVE  Steps
<1> DEFINE f == [b \in {a} |-> new]
<1>1. DOMAIN f = {a} /\ f[a] = new
  OBVIOUS
<1>2. Save(f)
  OBVIOUS
<1> HIDE DEF f
<1> QED BY <1>1, <1>2, SaveSteps

\* Of the related agreements the read model shows, those in force are archived:
\* the event store has made sure that they still are.
LEMMA SaveAndArchiveSteps ==
  ASSUME Inv, NEW a \in Agreements, NEW v, NEW new, UpToDate(v, Archivable(v, a)),
         SaveAndArchive(a, new, Archivable(v, a)), Coherent(new), Proper(store[a], new),
         new.state \in InForce
  PROVE  Steps
<1> DEFINE others == Archivable(v, a)
           f == [b \in {a} \cup others |-> IF b = a THEN new ELSE Archived(store[b])]
<1>1. DOMAIN f = {a} \cup others /\ others \subseteq Agreements
  BY DEF Archivable
<1>2. \A b \in others : store[b].state \in InForce /\ f[b] = Archived(store[b])
  BY DEF Archivable, UpToDate
<1>3. f[a] = new
  OBVIOUS
<1>4. \A b \in others : Coherent(Archived(store[b])) /\ Proper(store[b], Archived(store[b]))
  BY <1>1, <1>2, ArchivedCoherent DEF Inv
<1>5. Save(f)
  BY DEF SaveAndArchive
<1> HIDE DEF f, others
<1> QED BY <1>1, <1>2, <1>3, <1>4, <1>5, SaveSteps

LEMMA FlagOfPlatform ==
  \A next : /\ SuspendedByPlatformFlag(next) \in Flag
            /\ SuspendedByPlatformFlag(next) = "yes" =>
                 next \in {"suspended", "missingCertifiedAttributes"}
BY DEF SuspendedByPlatformFlag, YesNo, Flag

LEMMA StateByFlags ==
  \A next, x, y, z : /\ AgreementStateByFlags(next, x, y, z) \in {next, "suspended"}
                     /\ AgreementStateByFlags(next, x, y, z) = "suspended" =>
                          next \in {"active", "suspended"}
BY DEF AgreementStateByFlags

\* A handler that acts on a delegation knows whether there is one.
LEMMA DelegationKnown == Inv => DelegationViews \subseteq BOOLEAN
BY DEF Inv, TypeOK, DelegationViews, Views

LEMMA SubmitSteps ==
  ASSUME Inv, NEW a \in Agreements, SubmitAgreement(a)
  PROVE  Steps
<1>1. PICK v \in AgreementViews({a}), h \in HeldViews :
        LET ag == store[a]
            next == NextStateByAttributesFSM(ag, h)
            byPlatform == SuspendedByPlatformFlag(next)
            newState == AgreementStateByFlags(next, "unset", "unset", byPlatform)
            related == Archivable(v, a)
        IN \/ /\ MustSetMissing(ag, next)
              /\ Save([b \in {a} |-> SetMissingCertifiedAttributes(ag)])
           \/ /\ newState = "pending"
              /\ Save([b \in {a} |-> Submitted(ag, newState, byPlatform)])
           \/ /\ newState = "active"
              /\ UpToDate(v, related)
              /\ SaveAndArchive(a, Submitted(ag, newState, byPlatform), related)
  BY DEF SubmitAgreement
<1> DEFINE ag == store[a]
           next == NextStateByAttributesFSM(ag, h)
           byPlatform == SuspendedByPlatformFlag(next)
           newState == AgreementStateByFlags(next, "unset", "unset", byPlatform)
           new == Submitted(ag, newState, byPlatform)
<1>2. Coherent(ag) /\ ag.state = "draft"
  BY DEF Inv, SubmitAgreement
<1>3. byPlatform \in Flag /\ (newState \in {"pending", "active"} => byPlatform # "yes")
  <2>1. newState = "active" => byPlatform # "yes"
    BY DEF AgreementStateByFlags
  <2> HIDE DEF next
  <2> QED BY <2>1, FlagOfPlatform, StateByFlags
<1> HIDE DEF ag, next, byPlatform, newState
<1>4. ASSUME newState \in {"pending", "active"}
      PROVE  Coherent(new) /\ Proper(ag, new) /\ new.state = newState
  <2>1. new.state = newState
    BY <1>2 DEF Coherent, Agreement, Submitted
  <2> QED BY <1>2, <1>3, <1>4, <2>1, SubmittedCoherent
<1>5. CASE Save([b \in {a} |-> SetMissingCertifiedAttributes(ag)])
  BY <1>2, <1>5, MissingCoherent, SaveOneSteps DEF ag
<1> HIDE DEF new
<1>6. CASE newState = "pending" /\ Save([b \in {a} |-> new])
  BY <1>4, <1>6, SaveOneSteps DEF ag
<1>7. CASE newState = "active" /\ UpToDate(v, Archivable(v, a))
           /\ SaveAndArchive(a, new, Archivable(v, a))
  BY <1>4, <1>7, SaveAndArchiveSteps DEF ag, InForce
<1> QED BY <1>1, <1>5, <1>6, <1>7 DEF ag, next, byPlatform, newState, new

LEMMA ActivateSteps ==
  ASSUME Inv, NEW a \in Agreements, NEW r \in Requesters, ActivateAgreement(a, r)
  PROVE  Steps
<1>1. PICK v \in AgreementViews({a}), h \in HeldViews, deleg \in DelegationViews :
        LET ag == store[a]
            next == NextStateByAttributesFSM(ag, h)
            byPlatform == SuspendedByPlatformFlag(next)
            byConsumer == SuspendedByConsumerFlag(ag, r, "active")
            byProducer == SuspendedByProducerFlag(ag, r, "active", deleg)
            newState == AgreementStateByFlags(next, byProducer, byConsumer, byPlatform)
            isFirstActivation == ag.state = "pending" /\ newState = "active"
            related == Archivable(v, a)
        IN \/ /\ MustSetMissing(ag, next)
              /\ Save([b \in {a} |-> SetMissingCertifiedAttributes(ag)])
           \/ /\ newState \notin {"draft", "pending", "missingCertifiedAttributes"}
              /\ UpToDate(v, related)
              /\ SaveAndArchive(a,
                   [ag EXCEPT !.state = newState, !.byConsumer = byConsumer,
                      !.byProducer = byProducer, !.byPlatform = byPlatform,
                      !.stamps = IF isFirstActivation THEN @ \cup {"activation"}
                                 ELSE SuspensionStamps(ag, r, "active", deleg)],
                   related)
  BY DEF ActivateAgreement
<1> DEFINE ag == store[a]
           next == NextStateByAttributesFSM(ag, h)
           byPlatform == SuspendedByPlatformFlag(next)
           newState == AgreementStateByFlags(next,
                         SuspendedByProducerFlag(ag, r, "active", deleg),
                         SuspendedByConsumerFlag(ag, r, "active"), byPlatform)
           first == ag.state = "pending" /\ newState = "active"
           new == [ag EXCEPT !.state = newState,
                     !.byConsumer = SuspendedByConsumerFlag(ag, r, "active"),
                     !.byProducer = SuspendedByProducerFlag(ag, r, "active", deleg),
                     !.byPlatform = byPlatform,
                     !.stamps = IF first THEN @ \cup {"activation"}
                                ELSE SuspensionStamps(ag, r, "active", deleg)]
<1>2. Coherent(ag) /\ ag.state \in {"pending", "suspended"} /\ deleg \in BOOLEAN
  BY DelegationKnown DEF Inv, ActivateAgreement
<1>3. byPlatform \in Flag
  BY FlagOfPlatform
<1>4. newState \in {"active", "suspended"}
           \/ newState \in {"draft", "pending", "missingCertifiedAttributes"}
  <2>1. next \in {"active", "suspended", "draft", "pending", "missingCertifiedAttributes"}
    BY <1>2, NextStates DEF Coherent, InForce
  <2> HIDE DEF next
  <2> QED BY <2>1, StateByFlags
<1>5. ASSUME newState \in {"active", "suspended"}
      PROVE  Coherent(new) /\ Proper(ag, new) /\ new.state = newState
  <2> HIDE DEF next, byPlatform, ag
  <2>3. new.state = newState
    BY <1>2 DEF Coherent, Agreement
  <2>1. first \in BOOLEAN
    OBVIOUS
  <2>2. newState = AgreementStateByFlags(next,
                         SuspendedByProducerFlag(ag, r, "active", deleg),
                         SuspendedByConsumerFlag(ag, r, "active"), byPlatform)
    OBVIOUS
  <2> HIDE DEF first, newState
  <2> QED BY <1>2, <1>3, <1>5, <2>1, <2>2, <2>3, ActivatedCoherent
<1> HIDE DEF ag, next, byPlatform, newState, first, new
<1>6. CASE Save([b \in {a} |-> SetMissingCertifiedAttributes(ag)])
  BY <1>2, <1>6, MissingCoherent, SaveOneSteps DEF ag
<1>7. CASE newState \notin {"draft", "pending", "missingCertifiedAttributes"}
           /\ UpToDate(v, Archivable(v, a)) /\ SaveAndArchive(a, new, Archivable(v, a))
  BY <1>4, <1>5, <1>7, SaveAndArchiveSteps DEF ag, InForce
<1> QED BY <1>1, <1>6, <1>7 DEF ag, next, byPlatform, newState, first, new

LEMMA UpgradeSteps ==
  ASSUME Inv, NEW a \in Agreements, NEW n \in Agreements \ {a}, UpgradeAgreement(a, n)
  PROVE  Steps
<1>1. /\ Coherent(store[a]) /\ store[a].state \in InForce /\ store[n] = Absent
  BY DEF Inv, UpgradeAgreement
<1>2. PICK d \in Descriptor :
        \/ Save([b \in {a, n} |-> IF b = a THEN Archived(store[a]) ELSE Upgraded(store[a], d)])
        \/ Save([b \in {n} |-> UpgradeDraft(store[a], d)])
  BY DEF UpgradeAgreement
<1>3. CASE Save([b \in {n} |-> UpgradeDraft(store[a], d)])
  BY <1>1, <1>3, UpgradedCoherent, AbsentCoherent, SaveOneSteps
<1>4. CASE Save([b \in {a, n} |-> IF b = a THEN Archived(store[a])
                                            ELSE Upgraded(store[a], d)])
  <2> DEFINE f == [b \in {a, n} |-> IF b = a THEN Archived(store[a])
                                            ELSE Upgraded(store[a], d)]
  <2>1. DOMAIN f = {a, n} /\ f[a] = Archived(store[a]) /\ f[n] = Upgraded(store[a], d)
    OBVIOUS
  <2>2. Upgraded(store[a], d).state \in InForce
    BY <1>1 DEF Upgraded, Coherent, Agreement
  <2>3. Save(f)
    BY <1>4
  <2> HIDE DEF f
  <2>4. /\ Coherent(f[a]) /\ Proper(store[a], f[a])
        /\ Coherent(f[n]) /\ Proper(store[n], f[n])
    <3>1. Coherent(f[a]) /\ Proper(store[a], f[a])
      BY <1>1, <2>1, ArchivedCoherent
    <3>2. Coherent(f[n])
      BY <1>1, <2>1, UpgradedCoherent
    <3>3. Proper(store[n], f[n])
      BY <1>1, AbsentCoherent
    <3> QED BY <3>1, <3>2, <3>3
  <2> QED BY <2>1, <2>2, <2>3, <2>4, SaveSteps
<1> QED BY <1>2, <1>3, <1>4

LEMMA ComputeSteps ==
  ASSUME Inv, NEW v, NEW m, NEW batch \in SUBSET ToUpdate(v, m), UpToDate(v, batch),
         Save([b \in batch |-> Updated(store[b], m.held)])
  PROVE  Steps
<1> DEFINE f == [b \in batch |-> Updated(store[b], m.held)]
<1>1. DOMAIN f = batch /\ batch \subseteq Agreements
  BY DEF ToUpdate
<1>2. ASSUME NEW b \in batch
      PROVE  Coherent(f[b]) /\ Proper(store[b], f[b]) /\ f[b].state # "archived"
  <2>1. MustUpdate(store[b], m.held) /\ Coherent(store[b])
    BY <1>1 DEF ToUpdate, UpToDate, Inv
  <2>2. f[b] = Updated(store[b], m.held)
    OBVIOUS
  <2> QED BY <2>1, <2>2, UpdatedCoherent
<1>3. Save(f)
  OBVIOUS
<1> HIDE DEF f
<1> QED BY <1>1, <1>2, <1>3, SaveSteps

LEMMA NoSteps == Inv /\ store' = store => Steps
BY DEF Inv, TypeOK, Steps, Proper, Succession

\* Every step leaves every agreement coherent and changes it properly.
LEMMA StoreStep == Inv /\ [Next]_vars => Steps
<1> SUFFICES ASSUME Inv, [Next]_vars PROVE Steps
  OBVIOUS
<1>1. ASSUME NEW a \in Agreements, CreateAgreement(a) PROVE Steps
  <2>1. PICK d \in Descriptor :
          Save([b \in {a} |-> [Absent EXCEPT !.state = "draft", !.descriptor = d]])
    BY <1>1 DEF CreateAgreement
  <2>2. store[a] = Absent
    BY <1>1 DEF CreateAgreement
  <2> QED BY <2>1, <2>2, AbsentCoherent, SaveOneSteps
<1>2. ASSUME NEW a \in Agreements, DeleteAgreement(a) PROVE Steps
  <2>1. Proper(store[a], Absent)
    BY <1>2 DEF DeleteAgreement, Proper, Absent
  <2> QED BY <1>2, <2>1, AbsentCoherent, SaveOneSteps DEF DeleteAgreement
<1>3. ASSUME NEW a \in Agreements, ArchiveAgreement(a) PROVE Steps
  BY <1>3, ArchivedCoherent, SaveOneSteps DEF ArchiveAgreement, Inv
<1>4. ASSUME NEW a \in Agreements, NEW n \in Agreements \ {a}, CloneAgreement(a, n)
      PROVE  Steps
  <2> DEFINE new == [store[a] EXCEPT !.state = "draft", !.stamps = {}]
  <2>1. Coherent(new) /\ Proper(store[n], new) /\ Save([b \in {n} |-> new])
    BY <1>4, ClonedCoherent, AbsentCoherent DEF CloneAgreement, Inv
  <2> HIDE DEF new
  <2> QED BY <2>1, SaveOneSteps
<1>5. ASSUME NEW a \in Agreements, NEW r \in Requesters, SuspendAgreement(a, r) PROVE Steps
  <2>1. PICK h \in HeldViews, deleg \in DelegationViews :
          Save([b \in {a} |-> Suspended(store[a], r, h, deleg)])
    BY <1>5 DEF SuspendAgreement
  <2>2. store[a].state \in InForce /\ Coherent(store[a]) /\ deleg \in BOOLEAN
    BY <1>5, DelegationKnown DEF SuspendAgreement, Inv
  <2> QED BY <2>1, <2>2, SuspendedCoherent, SaveOneSteps
<1>6. ASSUME NEW a \in Agreements, NEW r \in Requesters, RejectAgreement(a, r) PROVE Steps
  <2> DEFINE new == [store[a] EXCEPT !.state = "rejected", !.byConsumer = "unset",
                       !.byProducer = "unset", !.byPlatform = "unset"]
  <2>1. Save([b \in {a} |-> new]) /\ Coherent(store[a]) /\ store[a].state = "pending"
    BY <1>6 DEF RejectAgreement, Inv
  <2>2. Coherent(new) /\ Proper(store[a], new)
    BY <2>1 DEF Coherent, Proper, Agreement, AgreementState, Absent, Flag, Descriptor
  <2> HIDE DEF new
  <2> QED BY <2>1, <2>2, SaveOneSteps
<1>7. CASE ComputeAgreements
  <2>1. PICK v \in AgreementViews({}) :
          /\ UpToDate(v, ToUpdate(v, Head(messages)))
          /\ Save([b \in ToUpdate(v, Head(messages)) |-> Updated(store[b], Head(messages).held)])
    BY <1>7 DEF ComputeAgreements
  <2> QED BY <2>1, ComputeSteps
<1>8. CASE ComputePartly
  <2>1. PICK v \in AgreementViews({}) : \E batch \in SUBSET ToUpdate(v, Head(messages)) :
          /\ UpToDate(v, batch)
          /\ Save([b \in batch |-> Updated(store[b], Head(messages).held)])
    BY <1>8 DEF ComputePartly
  <2> QED BY <2>1, ComputeSteps
<1>9. CASE Environment
  BY <1>9, NoSteps DEF Environment, ChangeAttribute, RedateVerification, ExpireVerifications,
                       PublishDescriptor, SuspendDescriptor, ReactivateDescriptor,
                       ChangeDelegation
<1>10. CASE UNCHANGED vars
  BY <1>10, NoSteps DEF vars
<1>11. CASE ConsumerRequest
  BY <1>1, <1>2, <1>3, <1>4, <1>11, SubmitSteps, UpgradeSteps DEF ConsumerRequest
<1>12. CASE PartyRequest
  BY <1>5, <1>6, <1>12, ActivateSteps DEF PartyRequest
<1> QED BY <1>7, <1>8, <1>9, <1>10, <1>11, <1>12 DEF Next

LEMMA InitInv == Init => Inv
<1> SUFFICES ASSUME Init PROVE Inv
  OBVIOUS
<1>1. store = [a \in Agreements |-> Absent]
  BY DEF Init
<1>2. Absent \in Agreement
  BY AbsentCoherent DEF Coherent
<1>3. \A a \in Agreements : Coherent(store[a]) /\ store[a] = Absent
  BY <1>1, AbsentCoherent
<1>4. Absent.state = "absent"
  BY DEF Absent
<1>5. /\ dstate \in [Descriptor -> DescriptorState] /\ held \subseteq Kind
      /\ delegated \in BOOLEAN /\ messages \in Seq([kind: Kind, held: SUBSET Kind])
      /\ was.delegated \subseteq BOOLEAN
      /\ misread \in [siblings: SUBSET Agreements, attributes: SUBSET Agreements]
  <2>1. dstate \in [Descriptor -> DescriptorState]
    BY DEF Init, DescriptorState
  <2>2. held \subseteq Kind /\ delegated \in BOOLEAN
    BY DEF Init
  <2>3. messages \in Seq([kind: Kind, held: SUBSET Kind])
    <3>1. messages = <<>>
      BY DEF Init
    <3> DEFINE M == [kind: Kind, held: SUBSET Kind]
    <3> HIDE DEF M
    <3>2. messages \in Seq(M)
      BY <3>1
    <3> QED BY <3>2 DEF M
  <2>4. was.delegated = {}
    <3>1. was = [store |-> [a \in Agreements |-> {}], held |-> {}, dstate |-> {},
                 delegated |-> {}]
      BY DEF Init
    <3> QED BY <3>1
  <2>5. misread = [siblings |-> {}, attributes |-> {}]
    BY DEF Init
  <2> QED BY <2>1, <2>2, <2>3, <2>4, <2>5
<1> QED BY <1>1, <1>2, <1>3, <1>4, <1>5 DEF Inv, TypeOK

\* A request changes nothing but agreements.
LEMMA RequestFrame ==
  ConsumerRequest \/ PartyRequest => UNCHANGED <<dstate, held, delegated, messages>>
<1>1. ASSUME NEW a \in Agreements,
             CreateAgreement(a) \/ DeleteAgreement(a) \/ ArchiveAgreement(a)
      PROVE  UNCHANGED <<dstate, held, delegated, messages>>
  BY <1>1 DEF CreateAgreement, DeleteAgreement, ArchiveAgreement, Save
<1>2. ASSUME NEW a \in Agreements, SubmitAgreement(a)
      PROVE  UNCHANGED <<dstate, held, delegated, messages>>
  BY <1>2 DEF SubmitAgreement, SaveAndArchive, Save
<1>3. ASSUME NEW a \in Agreements, NEW n \in Agreements,
             UpgradeAgreement(a, n) \/ CloneAgreement(a, n)
      PROVE  UNCHANGED <<dstate, held, delegated, messages>>
  BY <1>3 DEF UpgradeAgreement, CloneAgreement, Save
<1>4. ASSUME NEW a \in Agreements, NEW r \in Requesters, ActivateAgreement(a, r)
      PROVE  UNCHANGED <<dstate, held, delegated, messages>>
  BY <1>4 DEF ActivateAgreement, SaveAndArchive, Save
<1>5. ASSUME NEW a \in Agreements, NEW r \in Requesters,
             SuspendAgreement(a, r) \/ RejectAgreement(a, r)
      PROVE  UNCHANGED <<dstate, held, delegated, messages>>
  BY <1>5 DEF SuspendAgreement, RejectAgreement, Save
<1> QED BY <1>1, <1>2, <1>3, <1>4, <1>5 DEF ConsumerRequest, PartyRequest

\* What a step does to the marks of agreements decided on past values.
Marks ==
  \/ UNCHANGED misread
  \/ \E a \in Agreements : \E v, h : Decided(a, v, h)
  \/ \E a, n \in Agreements : \E h : Succeeded(a, n, h)
  \/ \E v : Recomputed(v)

LEMMA MarksStep == [Next]_vars => Marks
<1> SUFFICES ASSUME [Next]_vars PROVE Marks
  OBVIOUS
<1>1. CASE ConsumerRequest
  <2>1. ASSUME NEW a \in Agreements,
               CreateAgreement(a) \/ DeleteAgreement(a) \/ ArchiveAgreement(a)
        PROVE  UNCHANGED misread
    BY <2>1 DEF CreateAgreement, DeleteAgreement, ArchiveAgreement
  <2>2. ASSUME NEW a \in Agreements, SubmitAgreement(a)
        PROVE  \E v, h : Decided(a, v, h)
    BY <2>2 DEF SubmitAgreement
  <2>3. ASSUME NEW a \in Agreements, NEW n \in Agreements, UpgradeAgreement(a, n)
        PROVE  \E h : Succeeded(a, n, h)
    BY <2>3 DEF UpgradeAgreement
  <2>4. ASSUME NEW a \in Agreements, NEW n \in Agreements, CloneAgreement(a, n)
        PROVE  UNCHANGED misread
    BY <2>4 DEF CloneAgreement
  <2> QED BY <1>1, <2>1, <2>2, <2>3, <2>4 DEF ConsumerRequest, Marks
<1>2. CASE PartyRequest
  <2>1. ASSUME NEW a \in Agreements, NEW r \in Requesters, ActivateAgreement(a, r)
        PROVE  \E v, h : Decided(a, v, h)
    BY <2>1 DEF ActivateAgreement
  <2>2. ASSUME NEW a \in Agreements, NEW r \in Requesters,
               SuspendAgreement(a, r) \/ RejectAgreement(a, r)
        PROVE  UNCHANGED misread
    BY <2>2 DEF SuspendAgreement, RejectAgreement
  <2> QED BY <1>2, <2>1, <2>2 DEF PartyRequest, Marks
<1>3. CASE ComputeAgreements \/ ComputePartly
  BY <1>3 DEF Marks, ComputeAgreements, ComputePartly
<1>4. CASE Environment
  BY <1>4 DEF Environment, Marks, ChangeAttribute, RedateVerification, ExpireVerifications,
              PublishDescriptor, SuspendDescriptor, ReactivateDescriptor, ChangeDelegation
<1>5. CASE UNCHANGED vars
  BY <1>5 DEF vars, Marks
<1> QED BY <1>1, <1>2, <1>3, <1>4, <1>5 DEF Next

Marked == [siblings: SUBSET Agreements, attributes: SUBSET Agreements]

LEMMA MarksType ==
  ASSUME misread \in Marked, Marks
  PROVE  misread' \in Marked
BY DEF Marked, Marks, Decided, Succeeded, Recomputed, Mark

\* The agreements are as they should be; so is what surrounds them.
LEMMA InvStep == Inv /\ [Next]_vars => Inv'
<1> SUFFICES ASSUME Inv, [Next]_vars PROVE Inv'
  OBVIOUS
<1>1. Steps
  BY StoreStep
<1>2. store' \in [Agreements -> Agreement]
  BY <1>1 DEF Steps, Coherent
<1>3. \A a \in Agreements : IF store'[a].state = "absent" THEN store'[a] = Absent
                            ELSE store'[a].descriptor \in Descriptor
  BY <1>1 DEF Steps, Coherent
<1>4. /\ dstate' \in [Descriptor -> DescriptorState] /\ held' \subseteq Kind
      /\ delegated' \in BOOLEAN
      /\ messages' \in Seq([kind: Kind, held: SUBSET Kind])
  <2>1. CASE ConsumerRequest \/ PartyRequest
    <3>1. UNCHANGED <<dstate, held, delegated, messages>>
      BY <2>1, RequestFrame
    <3> QED BY <3>1 DEF Inv, TypeOK
  <2>2. CASE ComputeAgreements \/ ComputePartly
    <3>1. UNCHANGED <<dstate, held, delegated>>
      BY <2>2 DEF ComputeAgreements, ComputePartly, Save
    <3>2. messages' \in Seq([kind: Kind, held: SUBSET Kind])
      <4>1. messages \in Seq([kind: Kind, held: SUBSET Kind])
        BY DEF Inv, TypeOK
      <4>2. messages' = messages \/ (messages # <<>> /\ messages' = Tail(messages))
        BY <2>2 DEF ComputeAgreements, ComputePartly
      <4> HIDE DEF Kind
      <4> QED BY <4>1, <4>2
    <3> QED BY <3>1, <3>2 DEF Inv, TypeOK
  <2>3. ASSUME NEW kind \in Kind, ChangeAttribute(kind)
        PROVE  /\ dstate' \in [Descriptor -> DescriptorState] /\ held' \subseteq Kind
               /\ delegated' \in BOOLEAN
               /\ messages' \in Seq([kind: Kind, held: SUBSET Kind])
    <3>1. held' \subseteq Kind
      BY <2>3 DEF ChangeAttribute, Inv, TypeOK
    <3>2. messages' \in Seq([kind: Kind, held: SUBSET Kind])
      <4>1. messages' = Append(messages, [kind |-> kind, held |-> held'])
        BY <2>3 DEF ChangeAttribute
      <4>2. [kind |-> kind, held |-> held'] \in [kind: Kind, held: SUBSET Kind]
        BY <3>1
      <4> DEFINE M == [kind: Kind, held: SUBSET Kind]
                 m == [kind |-> kind, held |-> held']
      <4>3. messages \in Seq(M) /\ m \in M /\ messages' = Append(messages, m)
        BY <4>1, <4>2 DEF Inv, TypeOK
      <4> HIDE DEF M, m
      <4>4. messages' \in Seq(M)
        BY <4>3
      <4> QED BY <4>4 DEF M
    <3> QED BY <2>3, <3>1, <3>2 DEF ChangeAttribute, Inv, TypeOK
  <2>4. ASSUME NEW d \in Descriptor,
               PublishDescriptor(d) \/ SuspendDescriptor(d) \/ ReactivateDescriptor(d)
        PROVE  /\ dstate' \in [Descriptor -> DescriptorState] /\ held' \subseteq Kind
               /\ delegated' \in BOOLEAN
               /\ messages' \in Seq([kind: Kind, held: SUBSET Kind])
    BY <2>4 DEF PublishDescriptor, SuspendDescriptor, ReactivateDescriptor, Inv, TypeOK,
                DescriptorState
  <2>5. CASE ChangeDelegation
    BY <2>5 DEF ChangeDelegation, Inv, TypeOK
  <2>6. CASE UNCHANGED vars
    BY <2>6 DEF vars, Inv, TypeOK
  <2>7. CASE RedateVerification
    BY <2>7 DEF RedateVerification, Inv, TypeOK, Kind
  <2>8. CASE ExpireVerifications
    <3>1. PICK expired \in SUBSET DOMAIN messages :
            messages' = [i \in DOMAIN messages |->
                           IF i \in expired
                           THEN [kind |-> messages[i].kind,
                                 held |-> messages[i].held \ {"verified"}]
                           ELSE messages[i]]
      BY <2>8 DEF ExpireVerifications
    <3>2. messages \in Seq([kind: Kind, held: SUBSET Kind])
      BY DEF Inv, TypeOK
    <3>3. messages' \in Seq([kind: Kind, held: SUBSET Kind])
      <4>1. Len(messages) \in Nat /\ DOMAIN messages = 1..Len(messages)
        BY <3>2
      <4>2. \A i \in DOMAIN messages : messages'[i] \in [kind: Kind, held: SUBSET Kind]
        <5> SUFFICES ASSUME NEW i \in DOMAIN messages
                     PROVE  messages'[i] \in [kind: Kind, held: SUBSET Kind]
          OBVIOUS
        <5>1. messages[i] \in [kind: Kind, held: SUBSET Kind]
          <6> DEFINE M == [kind: Kind, held: SUBSET Kind]
          <6>1. messages \in Seq(M) /\ i \in DOMAIN messages
            BY <3>2
          <6> HIDE DEF M
          <6>2. messages[i] \in M
            BY <6>1
          <6> QED BY <6>2 DEF M
        <5>2. messages'[i] = messages[i] \/
              messages'[i] = [kind |-> messages[i].kind,
                              held |-> messages[i].held \ {"verified"}]
          BY <3>1
        <5>3. messages[i].kind \in Kind /\ messages[i].held \ {"verified"} \subseteq Kind
          BY <5>1
        <5>4. [kind |-> messages[i].kind, held |-> messages[i].held \ {"verified"}]
                \in [kind: Kind, held: SUBSET Kind]
          BY <5>3
        <5> QED BY <5>1, <5>2, <5>4
      <4> DEFINE M == [kind: Kind, held: SUBSET Kind]
      <4>3. messages' = [i \in 1..Len(messages) |-> messages'[i]]
        BY <3>1, <4>1
      <4>4. \A i \in 1..Len(messages) : messages'[i] \in M
        BY <4>1, <4>2
      <4> HIDE DEF M
      <4>5. messages' \in [1..Len(messages) -> M]
        BY <4>3, <4>4
      <4>6. messages' \in Seq(M)
        BY <4>1, <4>5
      <4> QED BY <4>6 DEF M
    <3>4. /\ dstate' = dstate /\ delegated' = delegated /\ held' \subseteq held
      BY <2>8 DEF ExpireVerifications
    <3> QED BY <3>3, <3>4 DEF Inv, TypeOK
  <2> QED BY <2>1, <2>2, <2>3, <2>4, <2>5, <2>6, <2>7, <2>8 DEF Next, Environment
<1>5. (was.delegated)' \subseteq BOOLEAN
  <2>1. CASE Remember
    BY <2>1 DEF Remember, Previous, Inv, TypeOK
  <2>2. CASE UNCHANGED vars
    BY <2>2 DEF vars, Inv
  <2> QED BY <2>1, <2>2 DEF Next
<1>6. misread' \in Marked
  BY MarksStep, MarksType DEF Marked, Inv, TypeOK
<1> QED BY <1>1, <1>2, <1>3, <1>4, <1>5, <1>6 DEF Inv, TypeOK, Steps, Marked

LEMMA Invariance == Spec => []Inv
<1>1. Init => Inv
  BY InitInv
<1>2. Inv /\ [Next]_vars => Inv'
  BY InvStep
<1> QED BY <1>1, <1>2, PTL DEF Spec

-----------------------------------------------------------------------------
(* The properties *)

\* Agreements, descriptors, attributes and messages have their types.
THEOREM TypeCorrect == Spec => []TypeOK
<1>1. Inv => TypeOK
  BY DEF Inv
<1> QED BY <1>1, Invariance, PTL

\* The platform's flag is set where certified attributes are missing, and not
\* in a draft or a pending agreement (updateAgreementState relies on it).
THEOREM FlagTracksCertified == Spec => []PlatformFlagTracksCertified
<1>1. Inv => PlatformFlagTracksCertified
  BY DEF Inv, Coherent, PlatformFlagTracksCertified
<1> QED BY <1>1, Invariance, PTL

\* Whoever suspended an agreement has left a stamp with the flag, through
\* upgrades, clones and activations.
THEOREM StampsAccompanyFlags == Spec => []StampForFlag
<1>1. Inv => StampForFlag
  BY DEF Inv, Coherent, StampForFlag
<1> QED BY <1>1, Invariance, PTL

\* No request, recomputation or sibling's activation touches an archived or
\* rejected agreement, however far the read model lags.
THEOREM EndsAreFinal == Spec => TerminalStates
<1>1. Inv /\ [Next]_vars =>
        [\A a \in Agreements :
           store[a].state \in {"archived", "rejected"} => store'[a] = store[a]]_vars
  BY StoreStep DEF Steps, Proper
<1> QED BY <1>1, Invariance, PTL DEF Spec, TerminalStates

\* Nobody makes a suspended agreement active while another party's flag is left.
THEOREM ResumedByAll == Spec => ResumedWithoutFlags
<1>1. Inv /\ [Next]_vars =>
        [\A a \in Agreements :
           store[a].state = "suspended" /\ store'[a].state = "active" =>
             "yes" \notin {store'[a].byConsumer, store'[a].byProducer,
                           store'[a].byPlatform}]_vars
  BY StoreStep DEF Steps, Proper
<1> QED BY <1>1, Invariance, PTL DEF Spec, ResumedWithoutFlags

\* A batch that archives an agreement beside another one leaves one in force.
THEOREM AccessPassesOn == Spec => ArchivedForSuccessor
<1>1. Inv /\ [Next]_vars =>
        [\A a, b \in Agreements :
           /\ a # b /\ store[a].state # "archived" /\ store'[a].state = "archived"
           /\ store'[b] # store[b]
           => \E c \in Agreements : store'[c].state \in InForce]_vars
  BY StoreStep DEF Steps, Succession
<1> QED BY <1>1, Invariance, PTL DEF Spec, ArchivedForSuccessor

-----------------------------------------------------------------------------
(* At most one agreement in force, at most one waiting, and access with the    *)
(* attributes only: but for the agreements marked in misread.                 *)

\* The attributes let somebody have access to d, now or by a message's account.
Granted(d) ==
  \/ Self \/ AllSatisfied(d, held)
  \/ \E i \in DOMAIN messages : AllSatisfied(d, messages[i].held)

\* b does not come into force, and is not cleared of a mark while it is.
StaysOut(b) ==
  store'[b].state \in InForce =>
    /\ store[b].state \in InForce
    /\ b \in misread.siblings => b \in misread'.siblings

\* ... does not begin to wait.
StaysIdle(b) ==
  store'[b].state = "pending" =>
    /\ store[b].state = "pending"
    /\ b \in misread.siblings => b \in misread'.siblings

\* The agreements in force after a step: none is new; a is the only one, or was
\* decided on past values; n is new, in the place and with the mark of a.
ForceStep ==
  \/ \A b \in Agreements : StaysOut(b)
  \/ \E a \in Agreements :
       /\ a \in misread'.siblings \/ \A b \in Agreements \ {a} : store'[b].state \notin InForce
       /\ \A b \in Agreements \ {a} : StaysOut(b)
  \/ \E a, n \in Agreements :
       /\ store[a].state \in InForce /\ store'[a].state \notin InForce
       /\ a \in misread.siblings => n \in misread'.siblings
       /\ \A b \in Agreements \ {n} : StaysOut(b)

PendingStep ==
  \E a \in Agreements :
    /\ \/ a \in misread'.siblings \/ StaysIdle(a)
       \/ \A b \in Agreements \ {a} : store'[b].state # "pending"
    /\ \A b \in Agreements \ {a} : StaysIdle(b)

\* What a gains, it is granted, or it was decided on past attributes.
GainsGranted(a) ==
  store[a].state # "active" /\ store'[a].state = "active" =>
    Granted(store'[a].descriptor) \/ a \in misread'.attributes

Exclusive ==
  /\ ForceStep
  /\ (\A b \in Agreements : StaysIdle(b)) \/ PendingStep
  /\ \A a \in Agreements : GainsGranted(a)

\* A change of one agreement that is in nobody else's way.
Modest(ag, new) ==
  /\ new.state \in InForce => ag.state \in InForce
  /\ new.state = "pending" => ag.state = "pending"
  /\ new.state = "active" => ag.state = "active" \/ Granted(new.descriptor)

\* A handler sees the agreements and the attributes as they are, or leaves a mark.
LEMMA DecidedMarks ==
  ASSUME Inv, NEW a \in Agreements, NEW batch, NEW v \in AgreementViews(batch), NEW h,
         Decided(a, v, h)
  PROVE  /\ (\A b \in Agreements : v[b] = store[b]) \/ a \in misread'.siblings
         /\ h = held \/ a \in misread'.attributes
         /\ \A b \in Agreements \ {a} : b \in misread.siblings => b \in misread'.siblings
         /\ \A b \in Agreements \ {a} : b \in misread.attributes => b \in misread'.attributes
<1>1. misread'.siblings = Mark(misread.siblings, a, v # store)
      /\ misread'.attributes = Mark(misread.attributes, a, h # held)
  BY DEF Decided
<1>2. v = [b \in Agreements |-> v[b]] /\ store = [b \in Agreements |-> store[b]]
  BY DEF AgreementViews, Inv, TypeOK
<1>3. (\A b \in Agreements : v[b] = store[b]) => v = store
  BY <1>2
<1>4. v = store => \A b \in Agreements : v[b] = store[b]
  OBVIOUS
<1> QED BY <1>1, <1>3, <1>4 DEF Mark

LEMMA ActiveSatisfied ==
  ASSUME NEW ag \in Agreement, NEW h, ag.state \notin {"absent", "archived", "rejected"},
         NextStateByAttributesFSM(ag, h) = "active"
  PROVE  Self \/ AllSatisfied(ag.descriptor, h)
<1>1. CASE ag.state = "draft"
  BY <1>1 DEF NextStateByAttributesFSM, NextStateFromDraft, InForce
<1>2. CASE ag.state = "pending"
  BY <1>2 DEF NextStateByAttributesFSM, NextStateFromPending, InForce
<1>3. CASE ag.state \in InForce
  BY <1>3 DEF NextStateByAttributesFSM, NextStateFromActiveOrSuspended, InForce
<1>4. CASE ag.state = "missingCertifiedAttributes"
  BY <1>4 DEF NextStateByAttributesFSM, NextStateFromMissing, InForce
<1> QED BY <1>1, <1>2, <1>3, <1>4 DEF Agreement, AgreementState, InForce

LEMMA ModestSave ==
  ASSUME NEW new, DOMAIN new \subseteq Agreements, Save(new),
         \A b \in DOMAIN new : Modest(store[b], new[b]),
         \A b \in Agreements : b \in misread.siblings =>
           \/ b \in misread'.siblings
           \/ b \in DOMAIN new /\ new[b].state \notin InForce \cup {"pending"}
  PROVE  Exclusive
<1>1. \A a \in Agreements : store'[a] = IF a \in DOMAIN new THEN new[a] ELSE store[a]
  BY DEF Save
<1>2. \A a \in Agreements : store'[a] = store[a] \/ Modest(store[a], store'[a])
  BY <1>1
<1>3. \A b \in Agreements : StaysOut(b) /\ StaysIdle(b)
  BY <1>1, <1>2 DEF StaysOut, StaysIdle, Modest
<1>4. \A a \in Agreements : GainsGranted(a)
  BY <1>2 DEF GainsGranted, Modest
<1> QED BY <1>3, <1>4 DEF Exclusive, ForceStep

LEMMA ModestSaveOne ==
  ASSUME NEW a \in Agreements, NEW new, Save([b \in {a} |-> new]), Modest(store[a], new),
         \A b \in Agreements : b \in misread.siblings =>
           b \in misread'.siblings \/ (b = a /\ new.state \notin InForce \cup {"pending"})
  PROVE  Exclusive
<1> DEFINE f == [b \in {a} |-> new]
<1>1. DOMAIN f = {a} /\ f[a] = new /\ Save(f)
  OBVIOUS
<1> HIDE DEF f
<1> QED BY <1>1, ModestSave

\* The successor of all that is shown in force.
LEMMA SuccessorExclusive ==
  ASSUME NEW a \in Agreements, NEW v,
         (\A b \in Agreements : v[b] = store[b]) \/ a \in misread'.siblings,
         UpToDate(v, Archivable(v, a)),
         \A b \in Agreements \ {a} : b \in misread.siblings => b \in misread'.siblings,
         NEW new, new.state \in InForce,
         new.state = "active" => \/ store[a].state = "active" \/ Granted(new.descriptor)
                                 \/ a \in misread'.attributes,
         SaveAndArchive(a, new, Archivable(v, a)), \A b \in Agreements : store[b] \in Agreement
  PROVE  Exclusive
<1> DEFINE others == Archivable(v, a)
<1>1. /\ others \subseteq {b \in Agreements \ {a} : store[b].state \in InForce}
      /\ (\A b \in Agreements : v[b] = store[b]) =>
           others = {b \in Agreements \ {a} : store[b].state \in InForce}
  BY DEF Archivable, UpToDate
<1>2. \A b \in Agreements : store'[b] = IF b = a THEN new
                                        ELSE IF b \in others THEN Archived(store[b]) ELSE store[b]
  BY <1>1 DEF SaveAndArchive, Save
<1>3. \A b \in others : Archived(store[b]).state = "archived"
  BY <1>1 DEF Archived, Agreement
<1> HIDE DEF others
<1>4. (\A b \in Agreements : v[b] = store[b]) =>
        \A b \in Agreements \ {a} : store'[b].state \notin InForce
  BY <1>1, <1>2, <1>3 DEF InForce
<1>5. \A b \in Agreements \ {a} : StaysOut(b) /\ StaysIdle(b)
  BY <1>2, <1>3 DEF StaysOut, StaysIdle, InForce
<1>6. StaysIdle(a)
  BY <1>2 DEF StaysIdle, InForce
<1>7. \A b \in Agreements : GainsGranted(b)
  BY <1>2, <1>3 DEF GainsGranted
<1>8. ForceStep
  BY <1>4, <1>5 DEF ForceStep
<1> QED BY <1>5, <1>6, <1>7, <1>8 DEF Exclusive

LEMMA SubmitExclusive ==
  ASSUME Inv, NEW a \in Agreements, SubmitAgreement(a)
  PROVE  Exclusive
<1>1. PICK v \in AgreementViews({a}), h \in HeldViews :
        LET ag == store[a]
            next == NextStateByAttributesFSM(ag, h)
            byPlatform == SuspendedByPlatformFlag(next)
            newState == AgreementStateByFlags(next, "unset", "unset", byPlatform)
            related == Archivable(v, a)
        IN /\ NoConflict(v, SubmissionConflicting)
           /\ \/ /\ MustSetMissing(ag, next)
                 /\ Save([b \in {a} |-> SetMissingCertifiedAttributes(ag)])
              \/ /\ newState = "pending"
                 /\ Save([b \in {a} |-> Submitted(ag, newState, byPlatform)])
              \/ /\ newState = "active"
                 /\ UpToDate(v, related)
                 /\ SaveAndArchive(a, Submitted(ag, newState, byPlatform), related)
           /\ Decided(a, v, h)
  BY DEF SubmitAgreement
<1> DEFINE ag == store[a]
           next == NextStateByAttributesFSM(ag, h)
           byPlatform == SuspendedByPlatformFlag(next)
           newState == AgreementStateByFlags(next, "unset", "unset", byPlatform)
           new == Submitted(ag, newState, byPlatform)
<1>2. /\ \A b \in Agreements : store[b] \in Agreement
      /\ ag \in Agreement /\ ag.state = "draft" /\ Decided(a, v, h)
  BY <1>1 DEF Inv, TypeOK, SubmitAgreement
<1>9. /\ (\A b \in Agreements : v[b] = store[b]) \/ a \in misread'.siblings
      /\ h = held \/ a \in misread'.attributes
      /\ \A b \in Agreements \ {a} : b \in misread.siblings => b \in misread'.siblings
  BY <1>2, DecidedMarks
<1>3. newState = "active" => Granted(ag.descriptor) \/ a \in misread'.attributes
  <2>1. newState = "active" => next = "active"
    BY StateByFlags
  <2> QED BY <1>2, <1>9, <2>1, ActiveSatisfied DEF Granted
<1> HIDE DEF next, byPlatform, newState
<1>4. new.state = newState /\ new.descriptor = ag.descriptor
  BY <1>2 DEF Agreement, Submitted
<1>5. CASE Save([b \in {a} |-> SetMissingCertifiedAttributes(ag)])
  <2>1. SetMissingCertifiedAttributes(ag).state = "missingCertifiedAttributes"
    BY <1>2 DEF SetMissingCertifiedAttributes, Agreement
  <2> QED BY <1>5, <1>9, <2>1, ModestSaveOne DEF Modest, InForce
<1>6. CASE newState = "pending" /\ Save([b \in {a} |-> new])
  <2>1. \A b \in Agreements : store'[b] = IF b = a THEN new ELSE store[b]
    BY <1>6 DEF Save
  <2>2. (\A b \in Agreements : v[b] = store[b]) =>
          \A b \in Agreements : store[b].state # "pending"
    BY <1>1 DEF NoConflict, SubmissionConflicting
  <2> HIDE DEF new
  <2>3. \A b \in Agreements : StaysOut(b) /\ GainsGranted(b)
    BY <1>4, <1>6, <1>9, <2>1 DEF StaysOut, GainsGranted, InForce
  <2>4. \A b \in Agreements \ {a} : StaysIdle(b)
    BY <1>9, <2>1 DEF StaysIdle
  <2>5. PendingStep
    BY <1>9, <2>1, <2>2, <2>4 DEF PendingStep
  <2> QED BY <2>3, <2>5 DEF Exclusive, ForceStep
<1>7. CASE newState = "active" /\ UpToDate(v, Archivable(v, a))
           /\ SaveAndArchive(a, new, Archivable(v, a))
  <2> HIDE DEF new
  <2> QED BY <1>2, <1>3, <1>4, <1>7, <1>9, SuccessorExclusive DEF InForce
<1> QED BY <1>1, <1>5, <1>6, <1>7 DEF next, byPlatform, newState

LEMMA ActivateExclusive ==
  ASSUME Inv, NEW a \in Agreements, NEW r \in Requesters, ActivateAgreement(a, r)
  PROVE  Exclusive
<1>1. PICK v \in AgreementViews({a}), h \in HeldViews, deleg \in DelegationViews :
        LET ag == store[a]
            next == NextStateByAttributesFSM(ag, h)
            byPlatform == SuspendedByPlatformFlag(next)
            byConsumer == SuspendedByConsumerFlag(ag, r, "active")
            byProducer == SuspendedByProducerFlag(ag, r, "active", deleg)
            newState == AgreementStateByFlags(next, byProducer, byConsumer, byPlatform)
            isFirstActivation == ag.state = "pending" /\ newState = "active"
            related == Archivable(v, a)
        IN /\ \/ /\ MustSetMissing(ag, next)
                 /\ Save([b \in {a} |-> SetMissingCertifiedAttributes(ag)])
              \/ /\ newState \notin {"draft", "pending", "missingCertifiedAttributes"}
                 /\ UpToDate(v, related)
                 /\ SaveAndArchive(a,
                      [ag EXCEPT !.state = newState, !.byConsumer = byConsumer,
                         !.byProducer = byProducer, !.byPlatform = byPlatform,
                         !.stamps = IF isFirstActivation THEN @ \cup {"activation"}
                                    ELSE SuspensionStamps(ag, r, "active", deleg)],
                      related)
           /\ Decided(a, v, h)
  BY DEF ActivateAgreement
<1> DEFINE ag == store[a]
           next == NextStateByAttributesFSM(ag, h)
           byPlatform == SuspendedByPlatformFlag(next)
           newState == AgreementStateByFlags(next,
                         SuspendedByProducerFlag(ag, r, "active", deleg),
                         SuspendedByConsumerFlag(ag, r, "active"), byPlatform)
           first == ag.state = "pending" /\ newState = "active"
           new == [ag EXCEPT !.state = newState,
                     !.byConsumer = SuspendedByConsumerFlag(ag, r, "active"),
                     !.byProducer = SuspendedByProducerFlag(ag, r, "active", deleg),
                     !.byPlatform = byPlatform,
                     !.stamps = IF first THEN @ \cup {"activation"}
                                ELSE SuspensionStamps(ag, r, "active", deleg)]
<1>2. /\ \A b \in Agreements : store[b] \in Agreement
      /\ ag \in Agreement /\ ag.state \in {"pending", "suspended"} /\ Decided(a, v, h)
  BY <1>1 DEF Inv, TypeOK, ActivateAgreement
<1>9. /\ (\A b \in Agreements : v[b] = store[b]) \/ a \in misread'.siblings
      /\ h = held \/ a \in misread'.attributes
      /\ \A b \in Agreements \ {a} : b \in misread.siblings => b \in misread'.siblings
  BY <1>2, DecidedMarks
<1>3. newState = "active" => Granted(ag.descriptor) \/ a \in misread'.attributes
  <2>1. newState = "active" => next = "active"
    BY StateByFlags
  <2> QED BY <1>2, <1>9, <2>1, ActiveSatisfied DEF Granted
<1>4. newState \in {"active", "suspended"}
           \/ newState \in {"draft", "pending", "missingCertifiedAttributes"}
  <2>1. next \in {"active", "suspended", "draft", "pending", "missingCertifiedAttributes"}
    BY <1>2, NextStates DEF InForce
  <2> HIDE DEF next
  <2> QED BY <2>1, StateByFlags
<1> HIDE DEF next, byPlatform, newState
<1>5. new.state = newState /\ new.descriptor = ag.descriptor
  <2> HIDE DEF ag
  <2> QED BY <1>2 DEF Agreement
<1> HIDE DEF first, new
<1>6. CASE Save([b \in {a} |-> SetMissingCertifiedAttributes(ag)])
  <2>1. SetMissingCertifiedAttributes(ag).state = "missingCertifiedAttributes"
    BY <1>2 DEF SetMissingCertifiedAttributes, Agreement
  <2> QED BY <1>6, <1>9, <2>1, ModestSaveOne DEF Modest, InForce
<1>7. CASE newState \notin {"draft", "pending", "missingCertifiedAttributes"}
           /\ UpToDate(v, Archivable(v, a)) /\ SaveAndArchive(a, new, Archivable(v, a))
  BY <1>2, <1>3, <1>4, <1>5, <1>7, <1>9, SuccessorExclusive DEF InForce
<1> QED BY <1>1, <1>6, <1>7 DEF next, byPlatform, newState, first, new

\* The successor by upgrade takes the place of the one in force, and its mark.
LEMMA UpgradeExclusive ==
  ASSUME Inv, NEW a \in Agreements, NEW n \in Agreements \ {a}, UpgradeAgreement(a, n)
  PROVE  Exclusive
<1>1. PICK h \in HeldViews, d \in Descriptor :
        /\ Self \/ Satisfied("certified", d, h)
        /\ \/ /\ Satisfied("verified", d, h) /\ Satisfied("declared", d, h)
              /\ Save([b \in {a, n} |-> IF b = a THEN Archived(store[a])
                                                ELSE Upgraded(store[a], d)])
           \/ Save([b \in {n} |-> UpgradeDraft(store[a], d)])
        /\ Succeeded(a, n, h)
  BY DEF UpgradeAgreement
<1>2. store[a] \in Agreement /\ store[n] = Absent /\ store[a].state \in InForce
  BY DEF Inv, TypeOK, UpgradeAgreement
<1>5. /\ a \in misread.siblings => n \in misread'.siblings
      /\ \A b \in Agreements \ {n} : b \in misread.siblings => b \in misread'.siblings
      /\ h = held \/ n \in misread'.attributes
  BY <1>1 DEF Succeeded, Mark
<1>3. CASE Save([b \in {n} |-> UpgradeDraft(store[a], d)])
  <2>1. UpgradeDraft(store[a], d).state = "draft"
    BY <1>2 DEF UpgradeDraft, Agreement
  <2> QED BY <1>3, <1>5, <2>1, ModestSaveOne DEF Modest, InForce
<1>4. CASE /\ Satisfied("verified", d, h) /\ Satisfied("declared", d, h)
           /\ Save([b \in {a, n} |-> IF b = a THEN Archived(store[a])
                                              ELSE Upgraded(store[a], d)])
  <2>1. \A b \in Agreements : store'[b] = IF b = a THEN Archived(store[a])
                                          ELSE IF b = n THEN Upgraded(store[a], d) ELSE store[b]
    BY <1>4 DEF Save
  <2>2. /\ Archived(store[a]).state = "archived"
        /\ Upgraded(store[a], d).state = store[a].state
        /\ Upgraded(store[a], d).descriptor = d
    BY <1>2 DEF Archived, Upgraded, Agreement
  <2>3. Granted(d) \/ n \in misread'.attributes
    BY <1>1, <1>4, <1>5 DEF Granted, AllSatisfied, Kind
  <2>4. store[a].state # "pending" /\ "archived" \notin InForce \cup {"pending"}
    BY <1>2 DEF InForce
  <2>5. \A b \in Agreements \ {n} : StaysOut(b)
    BY <1>5, <2>1, <2>2, <2>4 DEF StaysOut
  <2>6. \A b \in Agreements : StaysIdle(b)
    BY <1>5, <2>1, <2>2, <2>4 DEF StaysIdle
  <2>7. \A b \in Agreements : GainsGranted(b)
    BY <2>1, <2>2, <2>3 DEF GainsGranted
  <2>8. ForceStep
    BY <1>2, <1>5, <2>1, <2>2, <2>4, <2>5 DEF ForceStep
  <2> QED BY <2>6, <2>7, <2>8 DEF Exclusive
<1> QED BY <1>1, <1>3, <1>4

\* Whoever suspends has a flag of its own, and nothing becomes active.
LEMMA SuspendModest ==
  ASSUME NEW ag \in Agreement, ag.state \in InForce, NEW r \in Requesters, NEW h,
         NEW deleg, CanActAsConsumerOrProducer(r, deleg)
  PROVE  Modest(ag, Suspended(ag, r, h, deleg))
<1> DEFINE next == NextStateByAttributesFSM(ag, h)
           byConsumer == SuspendedByConsumerFlag(ag, r, "suspended")
           byProducer == SuspendedByProducerFlag(ag, r, "suspended", deleg)
           state == AgreementStateByFlags(next, byProducer, byConsumer, ag.byPlatform)
           new == Suspended(ag, r, h, deleg)
<1>1. new.state = state
  BY DEF Suspended, Agreement
<1>2. next \in {"active", "suspended"}
  BY NextStates
<1>3. byConsumer = "yes" \/ byProducer = "yes"
  BY DEF CanActAsConsumerOrProducer, CanActAsProducer, SuspendedByConsumerFlag,
         SuspendedByProducerFlag, ActsForProducer, YesNo
<1> HIDE DEF next, byConsumer, byProducer
<1>4. state = "suspended"
  BY <1>2, <1>3 DEF AgreementStateByFlags
<1> HIDE DEF state, new
<1>5. Modest(ag, new)
  BY <1>1, <1>4 DEF Modest
<1> QED BY <1>5 DEF new

LEMMA ComputeModest ==
  ASSUME NEW ag \in Agreement, NEW i \in DOMAIN messages, MustUpdate(ag, messages[i].held)
  PROVE  Modest(ag, Updated(ag, messages[i].held))
<1> DEFINE h == messages[i].held
           next == NextStateByAttributesFSM(ag, h)
           byPlatform == SuspendedByPlatformFlag(next)
           state == AgreementStateByFlags(next, ag.byProducer, ag.byConsumer, byPlatform)
           new == Updated(ag, h)
<1>1. new.state = state /\ new.descriptor = ag.descriptor
  BY DEF Updated, Agreement
<1>2. state \in AllowedStateTransitions(ag.state)
  BY <1>1 DEF MustUpdate
<1>3. state = "active" => next = "active"
  BY StateByFlags
<1>4. state = "active" /\ ag.state \notin {"absent", "archived", "rejected"} =>
        Granted(ag.descriptor)
  BY <1>3, ActiveSatisfied DEF Granted
<1> HIDE DEF h, state, new
<1>5. Modest(ag, new)
  BY <1>1, <1>2, <1>4 DEF Modest, AllowedStateTransitions, InForce
<1> QED BY <1>5 DEF new, h

LEMMA ComputeExclusive ==
  ASSUME Inv, messages # <<>>, NEW v, NEW batch \in SUBSET ToUpdate(v, Head(messages)),
         UpToDate(v, batch),
         Save([b \in batch |-> Updated(store[b], Head(messages).held)]),
         misread'.siblings = misread.siblings
  PROVE  Exclusive
<1> DEFINE f == [b \in batch |-> Updated(store[b], Head(messages).held)]
<1>1. DOMAIN f = batch /\ batch \subseteq Agreements /\ Save(f)
  BY DEF ToUpdate
<1>2. 1 \in DOMAIN messages /\ Head(messages) = messages[1]
  <2> DEFINE M == [kind: Kind, held: SUBSET Kind]
  <2>1. messages \in Seq(M)
    BY DEF Inv, TypeOK
  <2> HIDE DEF M
  <2> QED BY <2>1
<1>3. ASSUME NEW b \in batch PROVE Modest(store[b], f[b])
  <2>1. MustUpdate(store[b], messages[1].held) /\ store[b] \in Agreement
    BY <1>1, <1>2 DEF ToUpdate, UpToDate, Inv, TypeOK
  <2> QED BY <1>2, <2>1, ComputeModest
<1> HIDE DEF f
<1> QED BY <1>1, <1>3, ModestSave

LEMMA NoMoreInForce == store' = store /\ misread' = misread => Exclusive
BY DEF Exclusive, ForceStep, StaysOut, StaysIdle, GainsGranted

LEMMA ExclusiveStep ==
  ASSUME Inv, [Next]_vars
  PROVE  Exclusive
<1>0. \A a \in Agreements : store[a] \in Agreement
  BY DEF Inv, TypeOK
<1>1. ASSUME NEW a \in Agreements, CreateAgreement(a) PROVE Exclusive
  <2>1. PICK d \in Descriptor :
          Save([b \in {a} |-> [Absent EXCEPT !.state = "draft", !.descriptor = d]])
    BY <1>1 DEF CreateAgreement
  <2>3. misread' = misread
    BY <1>1 DEF CreateAgreement
  <2>2. [Absent EXCEPT !.state = "draft", !.descriptor = d].state = "draft"
    BY DEF Absent
  <2> QED BY <2>1, <2>2, <2>3, ModestSaveOne DEF Modest, InForce
<1>2. ASSUME NEW a \in Agreements, DeleteAgreement(a) PROVE Exclusive
  <2>1. Modest(store[a], Absent)
    BY DEF Modest, Absent, InForce
  <2> QED BY <1>2, <2>1, ModestSaveOne DEF DeleteAgreement
<1>3. ASSUME NEW a \in Agreements, ArchiveAgreement(a) PROVE Exclusive
  <2>1. Modest(store[a], Archived(store[a]))
    BY <1>0 DEF Modest, Archived, Agreement, InForce
  <2> QED BY <1>3, <2>1, ModestSaveOne DEF ArchiveAgreement
<1>4. ASSUME NEW a \in Agreements, NEW n \in Agreements \ {a}, CloneAgreement(a, n)
      PROVE  Exclusive
  <2> DEFINE new == [store[a] EXCEPT !.state = "draft", !.stamps = {}]
  <2>1. new.state = "draft" /\ Save([b \in {n} |-> new]) /\ misread' = misread
    BY <1>0, <1>4 DEF CloneAgreement, Agreement
  <2> HIDE DEF new
  <2> QED BY <2>1, ModestSaveOne DEF Modest, InForce
<1>5. ASSUME NEW a \in Agreements, NEW r \in Requesters, SuspendAgreement(a, r)
      PROVE  Exclusive
  <2>1. PICK h \in HeldViews, deleg \in DelegationViews :
          /\ CanActAsConsumerOrProducer(r, deleg)
          /\ Save([b \in {a} |-> Suspended(store[a], r, h, deleg)])
    BY <1>5 DEF SuspendAgreement
  <2>2. store[a].state \in InForce /\ misread' = misread
    BY <1>5 DEF SuspendAgreement
  <2> QED BY <1>0, <2>1, <2>2, SuspendModest, ModestSaveOne
<1>6. ASSUME NEW a \in Agreements, NEW r \in Requesters, RejectAgreement(a, r)
      PROVE  Exclusive
  <2> DEFINE new == [store[a] EXCEPT !.state = "rejected", !.byConsumer = "unset",
                       !.byProducer = "unset", !.byPlatform = "unset"]
  <2>1. new.state = "rejected" /\ Save([b \in {a} |-> new]) /\ misread' = misread
    BY <1>0, <1>6 DEF RejectAgreement, Agreement
  <2> HIDE DEF new
  <2> QED BY <2>1, ModestSaveOne DEF Modest, InForce
<1>7. CASE ComputeAgreements
  <2>1. PICK v \in AgreementViews({}) :
          /\ UpToDate(v, ToUpdate(v, Head(messages)))
          /\ Save([b \in ToUpdate(v, Head(messages)) |-> Updated(store[b], Head(messages).held)])
          /\ Recomputed(v)
    BY <1>7 DEF ComputeAgreements
  <2>2. messages # <<>>
    BY <1>7 DEF ComputeAgreements
  <2>3. misread'.siblings = misread.siblings
    <3>1. misread \in [siblings: SUBSET Agreements, attributes: SUBSET Agreements]
      BY DEF Inv, TypeOK
    <3> QED BY <2>1, <3>1 DEF Recomputed
  <2> QED BY <2>1, <2>2, <2>3, ComputeExclusive
<1>8. CASE ComputePartly
  <2>1. PICK v \in AgreementViews({}) : \E batch \in SUBSET ToUpdate(v, Head(messages)) :
          /\ UpToDate(v, batch)
          /\ Save([b \in batch |-> Updated(store[b], Head(messages).held)])
    BY <1>8 DEF ComputePartly
  <2>2. messages # <<>> /\ misread' = misread
    BY <1>8 DEF ComputePartly
  <2> QED BY <2>1, <2>2, ComputeExclusive
<1>9. CASE Environment
  BY <1>9, NoMoreInForce DEF Environment, ChangeAttribute, RedateVerification,
       ExpireVerifications, PublishDescriptor, SuspendDescriptor, ReactivateDescriptor,
       ChangeDelegation
<1>10. CASE UNCHANGED vars
  BY <1>10, NoMoreInForce DEF vars
<1>11. CASE ConsumerRequest
  BY <1>1, <1>2, <1>3, <1>4, <1>11, SubmitExclusive, UpgradeExclusive DEF ConsumerRequest
<1>12. CASE PartyRequest
  BY <1>5, <1>6, <1>12, ActivateExclusive DEF PartyRequest
<1> QED BY <1>7, <1>8, <1>9, <1>10, <1>11, <1>12 DEF Next

\* At most one agreement of the pair is in force, and at most one waits.
LEMMA ExclusiveInvariance == Spec => [](OneInForce /\ OnePending)
<1>1. Init => OneInForce /\ OnePending
  BY DEF Init, OneInForce, OnePending, Absent, InForce
<1>2. Inv /\ OneInForce /\ OnePending /\ [Next]_vars => (OneInForce /\ OnePending)'
  <2> SUFFICES ASSUME Inv, OneInForce, OnePending, [Next]_vars
               PROVE  OneInForce' /\ OnePending'
    OBVIOUS
  <2>1. Exclusive
    BY ExclusiveStep
  <2>2. OneInForce'
    BY <2>1 DEF Exclusive, ForceStep, StaysOut, OneInForce
  <2>3. OnePending'
    BY <2>1 DEF Exclusive, PendingStep, StaysIdle, OnePending
  <2> QED BY <2>2, <2>3
<1> QED BY <1>1, <1>2, Invariance, PTL DEF Spec

\* No order of submissions, activations, upgrades and recomputations puts two
\* agreements of the pair in force, however far the read model lags, unless a
\* handler that activated one of the two had read a past state of the pair.
THEOREM OnlyOneInForce == Spec => []OneInForce
BY ExclusiveInvariance, PTL

\* ... and verifySubmissionConflictingAgreements leaves one waiting at most,
\* with the same exception.
THEOREM OnlyOnePending == Spec => []OnePending
BY ExclusiveInvariance, PTL

\* Through submission, activation, upgrade, suspension of another party and
\* recomputation alike, access is given only with the attributes required, as
\* the consumer has them or as a tenant event still to be handled says: unless
\* the handler had read past attributes.
THEOREM AccessIsGranted == Spec => ActiveNeedsAttributes
<1>1. Inv /\ [Next]_vars =>
        [\A a \in Agreements :
           store[a].state # "active" /\ store'[a].state = "active" =>
             \/ Self \/ AllSatisfied(store'[a].descriptor, held)
             \/ \E i \in DOMAIN messages :
                  AllSatisfied(store'[a].descriptor, messages[i].held)
             \/ a \in misread'.attributes]_vars
  BY ExclusiveStep DEF Exclusive, GainsGranted, Granted
<1> QED BY <1>1, Invariance, PTL DEF Spec, ActiveNeedsAttributes

-----------------------------------------------------------------------------
(* A revocation waits in the messages until the agreements have been told.    *)

AnnouncedKind == {"certified", "declared"}

\* A message that says the consumer has a kind it no longer has is followed by
\* the one that says so.
Announced ==
  \A kind \in AnnouncedKind \ held, j \in DOMAIN messages :
    kind \in messages[j].held =>
      \E i \in DOMAIN messages : i > j /\ messages[i].kind = kind /\ kind \notin messages[i].held

\* Every agreement lacking a kind has a message to wait for, or a mark.
Told(a) ==
  \A kind \in AnnouncedKind :
    /\ ~Self /\ store[a].state = "active"
    /\ kind \in Requires[store[a].descriptor] \ held
    => LossWaits(kind) \/ a \in misread.attributes

LEMMA MessagesKnown ==
  ASSUME Inv
  PROVE  /\ Len(messages) \in Nat /\ DOMAIN messages = 1..Len(messages)
         /\ \A i \in DOMAIN messages : messages[i].kind \in Kind /\ messages[i].held \subseteq Kind
         /\ messages # <<>> =>
              /\ Len(messages) > 0 /\ Head(messages) = messages[1]
              /\ Len(Tail(messages)) = Len(messages) - 1
              /\ DOMAIN Tail(messages) = 1..(Len(messages) - 1)
              /\ \A i \in 1..(Len(messages) - 1) : Tail(messages)[i] = messages[i + 1]
<1> DEFINE M == [kind: Kind, held: SUBSET Kind]
<1>1. messages \in Seq(M)
  BY DEF Inv, TypeOK
<1>2. \A m \in M : m.kind \in Kind /\ m.held \subseteq Kind
  OBVIOUS
<1> HIDE DEF M
<1>3. Len(messages) \in Nat /\ DOMAIN messages = 1..Len(messages)
      /\ \A i \in DOMAIN messages : messages[i] \in M
  BY <1>1
<1>4. messages # <<>> =>
              /\ Len(messages) > 0 /\ Head(messages) = messages[1]
              /\ Len(Tail(messages)) = Len(messages) - 1
              /\ DOMAIN Tail(messages) = 1..(Len(messages) - 1)
              /\ \A i \in 1..(Len(messages) - 1) : Tail(messages)[i] = messages[i + 1]
  BY <1>1
<1> QED BY <1>2, <1>3, <1>4

\* The head of the queue is taken: what waits behind it goes on waiting.
LEMMA WaitsBehind ==
  ASSUME Inv, messages # <<>>, messages' = Tail(messages), NEW kind,
         NEW i \in DOMAIN messages, i > 1, messages[i].kind = kind, kind \notin messages[i].held
  PROVE  LossWaits(kind)'
<1>1. /\ Len(messages) \in Nat /\ DOMAIN messages = 1..Len(messages)
      /\ DOMAIN messages' = 1..(Len(messages) - 1)
      /\ \A j \in 1..(Len(messages) - 1) : messages'[j] = messages[j + 1]
  BY MessagesKnown
<1>2. i - 1 \in 1..(Len(messages) - 1) /\ (i - 1) + 1 = i
  BY <1>1
<1>3. i - 1 \in DOMAIN messages' /\ messages'[i - 1] = messages[i]
  BY <1>1, <1>2
<1> QED BY <1>3 DEF LossWaits

\* The recomputation suspends the active agreements that lack a kind.
LEMMA LackingSuspended ==
  ASSUME NEW ag, Coherent(ag), ag.state = "active", ~Self, NEW h, NEW kind \in Kind,
         kind \in Requires[ag.descriptor] \ h
  PROVE  MustUpdate(ag, h) /\ Updated(ag, h).state = "suspended"
<1> DEFINE next == NextStateByAttributesFSM(ag, h)
           new == [ag EXCEPT !.state = "suspended", !.byPlatform = "yes"]
<1>1. ag \in Agreement /\ ag.byPlatform # "yes"
  BY DEF Coherent
<1>2. ~AllSatisfied(ag.descriptor, h)
  BY DEF AllSatisfied, Satisfied
<1>3. next = "suspended"
  BY <1>2 DEF NextStateByAttributesFSM, NextStateFromActiveOrSuspended, InForce
<1> HIDE DEF next
<1>4. Updated(ag, h) = new
  BY <1>3 DEF Updated, AgreementStateByFlags, SuspendedByPlatformFlag, YesNo, next
<1>5. new.state = "suspended" /\ new.byPlatform = "yes"
  BY <1>1 DEF Agreement
<1> QED BY <1>1, <1>4, <1>5 DEF MustUpdate, AllowedStateTransitions

\* Requests leave the marks of the agreements that are active already.
LEMMA RequestMarks ==
  ASSUME Inv, ConsumerRequest \/ PartyRequest, NEW a \in Agreements, store[a].state = "active",
         a \in misread.attributes
  PROVE  a \in misread'.attributes
<1>1. ASSUME NEW b \in Agreements, SubmitAgreement(b)
      PROVE  a \in misread'.attributes
  <2>1. PICK v, h : Decided(b, v, h)
    BY <1>1 DEF SubmitAgreement
  <2>2. a # b
    BY <1>1 DEF SubmitAgreement
  <2> QED BY <2>1, <2>2 DEF Decided, Mark
<1>2. ASSUME NEW b \in Agreements, NEW r \in Requesters, ActivateAgreement(b, r)
      PROVE  a \in misread'.attributes
  <2>1. PICK v, h : Decided(b, v, h)
    BY <1>2 DEF ActivateAgreement
  <2>2. a # b
    BY <1>2 DEF ActivateAgreement
  <2> QED BY <2>1, <2>2 DEF Decided, Mark
<1>3. ASSUME NEW b \in Agreements, NEW n \in Agreements, UpgradeAgreement(b, n)
      PROVE  a \in misread'.attributes
  <2>1. PICK h : Succeeded(b, n, h)
    BY <1>3 DEF UpgradeAgreement
  <2>2. a # n
    BY <1>3 DEF UpgradeAgreement, Absent
  <2> QED BY <2>1, <2>2 DEF Succeeded, Mark
<1>4. ASSUME NEW b \in Agreements,
             CreateAgreement(b) \/ DeleteAgreement(b) \/ ArchiveAgreement(b)
      PROVE  a \in misread'.attributes
  BY <1>4 DEF CreateAgreement, DeleteAgreement, ArchiveAgreement
<1>5. ASSUME NEW b \in Agreements, NEW n \in Agreements, CloneAgreement(b, n)
      PROVE  a \in misread'.attributes
  BY <1>5 DEF CloneAgreement
<1>6. ASSUME NEW b \in Agreements, NEW r \in Requesters,
             SuspendAgreement(b, r) \/ RejectAgreement(b, r)
      PROVE  a \in misread'.attributes
  BY <1>6 DEF SuspendAgreement, RejectAgreement
<1> QED BY <1>1, <1>2, <1>3, <1>4, <1>5, <1>6 DEF ConsumerRequest, PartyRequest

\* The messages after a step, as far as certified and declared attributes go.
LEMMA AnnouncedStep ==
  ASSUME Inv, Announced, [Next]_vars
  PROVE  Announced'
<1> USE DEF AnnouncedKind
<1>1. CASE UNCHANGED <<held, messages>>
  BY <1>1 DEF Announced
<1>2. CASE UNCHANGED held /\ messages # <<>> /\ messages' = Tail(messages)
  <2> SUFFICES ASSUME NEW kind \in AnnouncedKind \ held, NEW j \in DOMAIN messages',
                      kind \in messages'[j].held
               PROVE  \E i \in DOMAIN messages' :
                        i > j /\ messages'[i].kind = kind /\ kind \notin messages'[i].held
    BY <1>2 DEF Announced
  <2>1. /\ Len(messages) \in Nat /\ DOMAIN messages = 1..Len(messages)
        /\ DOMAIN messages' = 1..(Len(messages) - 1)
        /\ \A k \in 1..(Len(messages) - 1) : messages'[k] = messages[k + 1]
    BY <1>2, MessagesKnown
  <2>2. j + 1 \in DOMAIN messages /\ kind \in messages[j + 1].held
    BY <2>1
  <2>3. PICK i \in DOMAIN messages :
          i > j + 1 /\ messages[i].kind = kind /\ kind \notin messages[i].held
    BY <2>2 DEF Announced
  <2>4. i - 1 \in 1..(Len(messages) - 1) /\ (i - 1) + 1 = i /\ i - 1 > j
    BY <2>1, <2>3
  <2>5. messages'[i - 1] = messages[i]
    BY <2>1, <2>4
  <2> QED BY <2>1, <2>3, <2>4, <2>5
<1>3. ASSUME NEW lost \in Kind, ChangeAttribute(lost)
      PROVE  Announced'
  <2> SUFFICES ASSUME NEW kind \in AnnouncedKind \ held', NEW j \in DOMAIN messages',
                      kind \in messages'[j].held
               PROVE  \E i \in DOMAIN messages' :
                        i > j /\ messages'[i].kind = kind /\ kind \notin messages'[i].held
    BY DEF Announced
  <2> DEFINE n == Len(messages)
             m == [kind |-> lost, held |-> held']
  <2>1. messages' = Append(messages, m) /\ held' \in {held \ {lost}, held \cup {lost}}
    BY <1>3 DEF ChangeAttribute
  <2>2. /\ n \in Nat /\ DOMAIN messages = 1..n /\ DOMAIN messages' = 1..(n + 1)
        /\ messages'[n + 1] = m /\ \A k \in 1..n : messages'[k] = messages[k]
    <3> DEFINE M == [kind: Kind, held: SUBSET Kind]
               T == M \cup {m}
    <3>1. messages \in Seq(M)
      BY DEF Inv, TypeOK
    <3> HIDE DEF M, m
    <3>2. messages \in Seq(T) /\ m \in T
      BY <3>1
    <3> HIDE DEF T
    <3> QED BY <2>1, <3>2
  <2>3. m.kind = lost /\ m.held = held'
    OBVIOUS
  <2> HIDE DEF n, m
  <2>4. j # n + 1
    BY <2>2, <2>3
  <2>5. j \in 1..n /\ n + 1 > j /\ n + 1 \in DOMAIN messages'
    BY <2>2, <2>4
  <2>6. j \in DOMAIN messages /\ messages'[j] = messages[j]
    BY <2>2, <2>5
  <2>7. CASE kind \in held
    <3>1. kind = lost
      BY <2>1, <2>7
    <3> QED BY <2>2, <2>3, <2>5, <3>1
  <2>8. CASE kind \notin held
    <3>1. PICK i \in DOMAIN messages :
            i > j /\ messages[i].kind = kind /\ kind \notin messages[i].held
      BY <2>6, <2>8 DEF Announced
    <3>2. messages'[i] = messages[i] /\ i \in DOMAIN messages'
      BY <2>2
    <3> QED BY <3>1, <3>2
  <2> QED BY <2>7, <2>8
<1>4. CASE RedateVerification
  BY <1>4 DEF RedateVerification, Announced
<1>5. CASE ExpireVerifications
  <2>1. PICK expired \in SUBSET DOMAIN messages :
          messages' = [i \in DOMAIN messages |->
                         IF i \in expired
                         THEN [kind |-> messages[i].kind, held |-> messages[i].held \ {"verified"}]
                         ELSE messages[i]]
    BY <1>5 DEF ExpireVerifications
  <2>2. /\ DOMAIN messages' = DOMAIN messages
        /\ \A i \in DOMAIN messages, kind \in AnnouncedKind :
             /\ messages'[i].kind = messages[i].kind
             /\ kind \in messages'[i].held <=> kind \in messages[i].held
    BY <2>1
  <2>3. AnnouncedKind \ held' \subseteq AnnouncedKind \ held
    BY <1>5 DEF ExpireVerifications
  <2> QED BY <2>2, <2>3 DEF Announced
<1>6. CASE ConsumerRequest \/ PartyRequest
  BY <1>1, <1>6, RequestFrame
<1>7. CASE ComputeAgreements
  BY <1>2, <1>7 DEF ComputeAgreements, Save
<1>8. CASE ComputePartly
  BY <1>1, <1>8 DEF ComputePartly, Save
<1>9. ASSUME NEW d \in Descriptor,
             PublishDescriptor(d) \/ SuspendDescriptor(d) \/ ReactivateDescriptor(d)
      PROVE  Announced'
  BY <1>1, <1>9 DEF PublishDescriptor, SuspendDescriptor, ReactivateDescriptor
<1>10. CASE ChangeDelegation
  BY <1>1, <1>10 DEF ChangeDelegation
<1>11. CASE UNCHANGED vars
  BY <1>1, <1>11 DEF vars
<1> QED BY <1>3, <1>4, <1>5, <1>6, <1>7, <1>8, <1>9, <1>10, <1>11 DEF Next, Environment

\* What a message grants, a later one takes back.
LEMMA GrantedTakenBack ==
  ASSUME Announced, ~Self, NEW d, NEW kind \in AnnouncedKind,
         kind \in Requires[d] \ held, Granted(d)
  PROVE  \E j, i \in DOMAIN messages :
           i > j /\ messages[i].kind = kind /\ kind \notin messages[i].held
<1>1. \A h : AllSatisfied(d, h) => kind \in h
  BY DEF AllSatisfied, Satisfied, Kind, AnnouncedKind
<1>2. PICK j \in DOMAIN messages : AllSatisfied(d, messages[j].held)
  BY <1>1 DEF Granted
<1> QED BY <1>1, <1>2 DEF Announced

\* The recomputation, of all agreements or some of them.
LEMMA ComputeTold ==
  ASSUME Inv, Announced, NEW a \in Agreements, Told(a), store[a].state = "active",
         store'[a].state = "active", store'[a].descriptor = store[a].descriptor,
         ComputeAgreements
  PROVE  Told(a)'
<1> SUFFICES ASSUME NEW kind \in AnnouncedKind, ~Self, kind \in Requires[store[a].descriptor] \ held,
                    a \notin misread'.attributes
             PROVE  LossWaits(kind)'
  BY DEF Told, ComputeAgreements, Save, Self
<1> DEFINE m == Head(messages)
<1>1. PICK v : /\ UpToDate(v, ToUpdate(v, m))
               /\ Save([b \in ToUpdate(v, m) |-> Updated(store[b], m.held)])
               /\ Recomputed(v)
  BY DEF ComputeAgreements
<1>2. messages # <<>> /\ messages' = Tail(messages)
  BY DEF ComputeAgreements
<1>3. v[a] = store[a] /\ a \notin misread.attributes
  <2>1. misread \in [siblings: SUBSET Agreements, attributes: SUBSET Agreements]
    BY DEF Inv, TypeOK
  <2> QED BY <1>1, <2>1 DEF Recomputed
<1>4. PICK i \in DOMAIN messages : messages[i].kind = kind /\ kind \notin messages[i].held
  BY <1>3 DEF Told, LossWaits
<1>5. CASE i > 1
  BY <1>2, <1>4, <1>5, WaitsBehind
<1>6. CASE i = 1
  <2>1. m.kind = kind /\ kind \notin m.held
    BY <1>2, <1>4, <1>6, MessagesKnown
  <2>2. Coherent(store[a]) /\ kind \in Kind
    BY DEF Inv, AnnouncedKind, Kind
  <2>3. MustUpdate(store[a], m.held) /\ Updated(store[a], m.held).state = "suspended"
    BY <2>1, <2>2, LackingSuspended
  <2>4. store[a].descriptor \in Descriptor
    BY <2>2 DEF Coherent
  <2>5. a \in ToUpdate(v, m)
    BY <1>3, <2>1, <2>3, <2>4 DEF ToUpdate
  <2>6. store'[a] = Updated(store[a], m.held)
    BY <1>1, <2>5 DEF Save
  <2> QED BY <2>3, <2>6
<1>7. i > 1 \/ i = 1
  BY MessagesKnown
<1> QED BY <1>5, <1>6, <1>7

LEMMA ToldStep ==
  ASSUME Inv, Announced, NEW a \in Agreements, Told(a), [Next]_vars
  PROVE  Told(a)'
<1>0. Steps /\ Exclusive
  BY StoreStep, ExclusiveStep
<1>1. CASE store'[a].state # "active"
  BY <1>1 DEF Told
<1>2. CASE store'[a].state = "active" /\ store[a].state # "active"
  <2>1. Granted(store'[a].descriptor) \/ a \in misread'.attributes
    BY <1>0, <1>2 DEF Exclusive, GainsGranted
  <2>2. CASE ConsumerRequest \/ PartyRequest \/ ComputePartly
    <3>1. UNCHANGED <<held, messages>>
      BY <2>2, RequestFrame DEF ComputePartly, Save
    <3> QED BY <2>1, <3>1, GrantedTakenBack DEF Told, LossWaits, Self
  <2>3. CASE ComputeAgreements
    <3>1. UNCHANGED held /\ messages # <<>> /\ messages' = Tail(messages)
      BY <2>3 DEF ComputeAgreements, Save
    <3> SUFFICES ASSUME NEW kind \in AnnouncedKind, ~Self,
                        kind \in Requires[store'[a].descriptor] \ held,
                        a \notin misread'.attributes
                 PROVE  LossWaits(kind)'
      BY <3>1 DEF Told, Self
    <3>2. PICK j, i \in DOMAIN messages :
            i > j /\ messages[i].kind = kind /\ kind \notin messages[i].held
      BY <2>1, GrantedTakenBack
    <3>3. i > 1
      BY <3>2, MessagesKnown
    <3> QED BY <3>1, <3>2, <3>3, WaitsBehind
  <2>4. CASE Environment \/ UNCHANGED vars
    BY <1>2, <2>4 DEF Environment, ChangeAttribute, RedateVerification, ExpireVerifications,
         PublishDescriptor, SuspendDescriptor, ReactivateDescriptor, ChangeDelegation, vars
  <2> QED BY <2>2, <2>3, <2>4 DEF Next
<1>3. CASE store'[a].state = "active" /\ store[a].state = "active"
  <2>1. store'[a].descriptor = store[a].descriptor
    BY <1>0, <1>3 DEF Steps, Proper
  <2>2. CASE ConsumerRequest \/ PartyRequest
    BY <1>3, <2>1, <2>2, RequestFrame, RequestMarks DEF Told, LossWaits, Self
  <2>3. CASE ComputePartly
    BY <1>3, <2>1, <2>3 DEF ComputePartly, Save, Told, LossWaits, Self
  <2>4. CASE ComputeAgreements
    BY <1>3, <2>1, <2>4, ComputeTold
  <2>5. ASSUME NEW lost \in Kind, ChangeAttribute(lost)
        PROVE  Told(a)'
    <3> DEFINE n == Len(messages)
               m == [kind |-> lost, held |-> held']
    <3>1. /\ messages' = Append(messages, m) /\ held' \in {held \ {lost}, held \cup {lost}}
          /\ UNCHANGED <<store, misread>>
      BY <2>5 DEF ChangeAttribute
    <3>2. /\ n \in Nat /\ DOMAIN messages = 1..n /\ DOMAIN messages' = 1..(n + 1)
          /\ messages'[n + 1] = m /\ \A k \in 1..n : messages'[k] = messages[k]
      <4> DEFINE M == [kind: Kind, held: SUBSET Kind]
                 T == M \cup {m}
      <4>1. messages \in Seq(M)
        BY DEF Inv, TypeOK
      <4> HIDE DEF M, m
      <4>2. messages \in Seq(T) /\ m \in T
        BY <4>1
      <4> HIDE DEF T
      <4> QED BY <3>1, <4>2
    <3>3. m.kind = lost /\ m.held = held'
      OBVIOUS
    <3> HIDE DEF n, m
    <3>4. DOMAIN messages \subseteq DOMAIN messages' /\ n + 1 \in DOMAIN messages'
          /\ \A k \in DOMAIN messages : messages'[k] = messages[k]
      BY <3>2
    <3>5. \A kind : LossWaits(kind) => LossWaits(kind)'
      BY <3>4 DEF LossWaits
    <3>6. \A kind : kind \in held /\ kind \notin held' => LossWaits(kind)'
      BY <3>1, <3>2, <3>3, <3>4 DEF LossWaits
    <3> QED BY <1>3, <3>1, <3>5, <3>6 DEF Told, Self
  <2>6. CASE RedateVerification
    BY <1>3, <2>6 DEF RedateVerification, Told, LossWaits, Self, AnnouncedKind
  <2>7. CASE ExpireVerifications
    <3>1. /\ DOMAIN messages' = DOMAIN messages
          /\ \A i \in DOMAIN messages, kind \in AnnouncedKind :
               /\ messages'[i].kind = messages[i].kind
               /\ kind \in messages'[i].held => kind \in messages[i].held
      BY <2>7 DEF ExpireVerifications
    <3>2. UNCHANGED <<store, misread>> /\ \A kind \in AnnouncedKind : kind \in held => kind \in held'
      BY <2>7 DEF ExpireVerifications, AnnouncedKind
    <3>3. \A kind \in AnnouncedKind : LossWaits(kind) => LossWaits(kind)'
      BY <3>1 DEF LossWaits
    <3> QED BY <1>3, <3>2, <3>3 DEF Told, Self
  <2>8. ASSUME NEW d \in Descriptor,
               PublishDescriptor(d) \/ SuspendDescriptor(d) \/ ReactivateDescriptor(d)
        PROVE  Told(a)'
    BY <2>8 DEF PublishDescriptor, SuspendDescriptor, ReactivateDescriptor, Told, LossWaits, Self
  <2>9. CASE ChangeDelegation
    BY <2>9 DEF ChangeDelegation, Told, LossWaits, Self
  <2>10. CASE UNCHANGED vars
    BY <2>10 DEF vars, Told, LossWaits, Self
  <2> QED BY <2>2, <2>3, <2>4, <2>5, <2>6, <2>7, <2>8, <2>9, <2>10 DEF Next, Environment
<1> QED BY <1>1, <1>2, <1>3

\* A revocation is not lost between tenant-process and the agreements: however
\* far the read model lags and however often the recomputation fails half way,
\* an agreement is active without a certified or declared attribute only while
\* the event of the loss waits, or because somebody was shown the past.
THEOREM RevocationsAreNotLost == Spec => []RevocationWaits
<1>1. Init => Announced /\ \A a \in Agreements : Told(a)
  BY DEF Init, Announced, Told, Absent
<1>2. Inv /\ (Announced /\ \A a \in Agreements : Told(a)) /\ [Next]_vars =>
        (Announced /\ \A a \in Agreements : Told(a))'
  BY AnnouncedStep, ToldStep
<1>3. (\A a \in Agreements : Told(a)) => RevocationWaits
  BY DEF Told, RevocationWaits, AnnouncedKind
<1> QED BY <1>1, <1>2, <1>3, Invariance, PTL DEF Spec
=============================================================================
