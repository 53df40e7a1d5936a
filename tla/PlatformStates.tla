--------------------------- MODULE PlatformStates ---------------------------
(***************************************************************************)
(* The states that the authorization server reads when it is asked for a   *)
(* token.  Four consumers, packages/*-platformstate-writer, each with a    *)
(* topic of its own, keep two DynamoDB tables:                             *)
(*                                                                         *)
(*   platform-states           the state of each purpose, of each pair     *)
(*                             (consumer, e-service)'s latest agreement,   *)
(*                             of each descriptor, of each client          *)
(*   token-generation-states   an entry per client, key and purpose, with  *)
(*                             copies of the three states on which it      *)
(*                             depends                                     *)
(*                                                                         *)
(* A consumer writes the entry of its own entity, then its copies, found   *)
(* by a secondary index; one that makes an entry, or links it to other     *)
(* entities, copies their states from platform-states.  Every read and     *)
(* every write is a DynamoDB call of its own, so consumers interleave      *)
(* between them, and one that stops is given its message again.  So do the *)
(* handlers of the agreements of one pair, whose events are in partitions  *)
(* of their own when instances of the writer share the topic.              *)
(*                                                                         *)
(* Modelled: a purpose of a consumer for an e-service, the agreements of   *)
(* the two, the e-service's descriptors, a client of the consumer and its  *)
(* keys.  Reads of an index are taken as up to date; the calls of one loop *)
(* over a client's keys, which touch distinct entries, are one step.       *)
(***************************************************************************)
EXTENDS Integers, Sequences, FiniteSets, SequencesExt

CONSTANTS
  MaxAgreement,   \* agreements, numbered in the order they take effect
  MaxDescriptor,  \* descriptors, numbered by version
  Keys,           \* the client's keys
  MaxSteps        \* bound on the events of all streams, crashes and redeliveries

ASSUME BoundsAssumption ==
  /\ MaxAgreement \in Nat \ {0} /\ MaxDescriptor \in Nat \ (0..1)
  /\ MaxSteps \in Nat

\* The streams of events; an agreement's is its number.
Purpose == 0
EService == -1
Client == -2
Agreements == 1..MaxAgreement
Descriptors == 1..MaxDescriptor
Streams == {Purpose, EService, Client} \cup Agreements

VARIABLES
  log,             \* stream -> its events; the version of one is its index
  pos,             \* stream -> how many messages its consumer is done with
  purposeEntry, agreementEntry, catalogEntry, clientEntry,  \* platform-states
  tokenEntry,      \* token-generation-states: key -> entry
  hand,            \* stream -> the message in hand: next call, what was read
  lost,            \* the parts of entries that an overtaken write has left stale
  faults

platform == <<purposeEntry, agreementEntry, catalogEntry, clientEntry>>
vars == <<log, pos, platform, tokenEntry, hand, lost, faults>>

ItemState == {"active", "inactive"}
NoPurpose == [state |-> "absent", version |-> 0]
NoAgreement == [state |-> "absent", version |-> 0, id |-> 0, descriptor |-> 0]
NoDescriptor == [state |-> "absent", version |-> 0, lifespan |-> 0]
NoToken == [here |-> FALSE, linked |-> FALSE, purposeState |-> "absent",
            agreementId |-> 0, agreementState |-> "absent", descriptor |-> 0,
            descriptorState |-> "absent", lifespan |-> 0]

Here(entry) == entry.state # "absent"
NothingRead == [p |-> NoPurpose, g |-> NoAgreement, c |-> NoDescriptor]
Idle == [at |-> "idle", round |-> 1, now |-> NothingRead,
         before |-> NothingRead, found |-> <<>>]

\* What readers of an entry copy from it.
AgreementData(g) == [state |-> g.state, id |-> g.id, descriptor |-> g.descriptor]
DescriptorData(c) == [state |-> c.state, lifespan |-> c.lifespan]

Size == Len(log[Purpose]) + Len(log[EService]) + Len(log[Client])
          + FoldSet(LAMBDA a, n : n + Len(log[a]), 0, Agreements)

-----------------------------------------------------------------------------
(* The domain, as its events tell it (external: the services' own modules).  *)

PurposeTruth == IF log[Purpose] = <<>> THEN "absent" ELSE Last(log[Purpose]).state
LatestAgreement ==
  Cardinality({a \in Agreements : log[a] # <<>>})
AgreementTruth ==
  IF LatestAgreement = 0 THEN [state |-> "absent", descriptor |-> 0]
  ELSE [state |-> Last(log[LatestAgreement]).state,
        descriptor |-> Last(log[LatestAgreement]).descriptor]
InForce == AgreementTruth.state \in ItemState
DescriptorTruth == Last(log[EService]).descriptors
Published == {d \in Descriptors : DescriptorTruth[d].state # "absent"}
Newest == Cardinality(Published)
ClientTruth == IF log[Client] = <<>> THEN [keys |-> {}, purpose |-> FALSE, gone |-> FALSE]
               ELSE Last(log[Client]).client

Store(s, ev) ==
  /\ log' = [log EXCEPT ![s] = Append(@, ev)]
  /\ UNCHANGED <<pos, platform, tokenEntry, hand, lost, faults>>

\* PurposeVersionActivated and PurposeActivated; the suspensions and the others;
\* PurposeArchived.
StorePurpose(type, state) ==
  /\ PurposeTruth # "archived"
  /\ \/ type = "Activated" /\ state = "active" /\ InForce
     \/ type = "Changed" /\ state \in ItemState \ {PurposeTruth} /\ log[Purpose] # <<>>
     \/ type = "Archived" /\ state = "archived" /\ log[Purpose] # <<>>
  /\ Store(Purpose, [type |-> type, state |-> state])

\* The first event of an agreement that takes effect is its activation
\* (AgreementActivated), or its upgrade (AgreementUpgraded) from the one before,
\* which is archived at the same time.
StoreAgreement(type, state) ==
  LET a == LatestAgreement IN
  \/ /\ type = "Activated" /\ state \in ItemState
     /\ a < MaxAgreement
     /\ DescriptorTruth[Newest].state = "active"
     /\ InForce => AgreementTruth.descriptor < Newest
     /\ Store(a + 1, [type |-> type, state |-> state, descriptor |-> Newest])
  \/ /\ InForce
     /\ \/ type = "Changed" /\ state \in ItemState \ {AgreementTruth.state}
        \/ type = "Archived" /\ state = "archived"
     /\ Store(a, [type |-> type, state |-> state,
                  descriptor |-> AgreementTruth.descriptor])

\* Publishing a descriptor archives the one before if it is published too and
\* no agreement uses it.
StoreDescriptor(type, d) ==
  LET now == DescriptorTruth
      used(x) == InForce /\ AgreementTruth.descriptor = x
      put(desc) == Store(EService, [type |-> type, of |-> d, descriptors |-> desc])
  IN
  \/ /\ type = "Published" /\ d = Newest + 1
     /\ put([now EXCEPT ![d] = [state |-> "active", lifespan |-> 1],
                        ![d - 1].state = IF @ = "active" /\ ~used(d - 1)
                                           THEN "archived" ELSE @])
  \/ /\ d \in Published /\ now[d].state # "archived"
     /\ \/ type = "Suspended" /\ now[d].state = "active"
           /\ put([now EXCEPT ![d].state = "inactive"])
        \/ type = "Activated" /\ now[d].state = "inactive"
           /\ put([now EXCEPT ![d].state = "active"])
        \/ type = "Archived" /\ d < Newest /\ ~used(d)
           /\ put([now EXCEPT ![d].state = "archived"])
        \/ type = "QuotasUpdated" /\ put([now EXCEPT ![d].lifespan = 3 - @])

StoreClient(type, k) ==
  LET now == ClientTruth
      put(c) == Store(Client, [type |-> type, key |-> k, client |-> c])
  IN
  /\ ~now.gone
  /\ \/ type = "KeyAdded" /\ k \notin now.keys
        /\ put([now EXCEPT !.keys = @ \cup {k}])
     \/ type = "KeyDeleted" /\ k \in now.keys
        /\ put([now EXCEPT !.keys = @ \ {k}])
     \/ type = "PurposeAdded" /\ ~now.purpose /\ PurposeTruth \in ItemState
        /\ put([now EXCEPT !.purpose = TRUE])
     \/ type = "PurposeRemoved" /\ now.purpose /\ put([now EXCEPT !.purpose = FALSE])
     \/ type = "Deleted" /\ put([now EXCEPT !.gone = TRUE])

-----------------------------------------------------------------------------
(* runConsumer: the next message of a stream, and what becomes of it.        *)

Version(s) == pos[s] + 1
Message(s) == log[s][Version(s)]

Takes(s) == hand[s].at = "idle" /\ pos[s] < Len(log[s])

Handled(s) == /\ pos' = [pos EXCEPT ![s] = @ + 1]
              /\ hand' = [hand EXCEPT ![s] = Idle]
Go(s, step) == /\ hand' = [hand EXCEPT ![s] = [Idle EXCEPT !.at = step]]
               /\ UNCHANGED pos

\* The consumer stops on an error and is given its message again.
Fails(s) == /\ hand' = [hand EXCEPT ![s] = Idle]
            /\ UNCHANGED pos

\* The entry already shows a later event.
Newer(entry, s) == Here(entry) /\ entry.version > Version(s)

\* Every entry of the table that meets P is updated.
UpdateTokens(P(_), Upd(_)) ==
  tokenEntry' = [k \in Keys |-> IF tokenEntry[k].here /\ P(tokenEntry[k])
                                THEN Upd(tokenEntry[k]) ELSE tokenEntry[k]]

-----------------------------------------------------------------------------
(* purpose-platformstate-writer                                              *)

PurposeSkip ==
  /\ Takes(Purpose)
  /\ \/ Message(Purpose).type # "Archived" /\ Newer(purposeEntry, Purpose)
     \/ Message(Purpose).type = "Changed" /\ ~Here(purposeEntry)
  /\ Handled(Purpose)
  /\ UNCHANGED <<log, platform, tokenEntry, lost, faults>>

PurposeStore ==
  LET ev == Message(Purpose) IN
  /\ Takes(Purpose)
  /\ ev.type # "Archived" => ~Newer(purposeEntry, Purpose)
  /\ ev.type = "Changed" => Here(purposeEntry)
  /\ purposeEntry' = IF ev.type = "Archived" THEN NoPurpose
                     ELSE [state |-> ev.state, version |-> Version(Purpose)]
  /\ Go(Purpose, IF ev.type = "Activated" THEN "query" ELSE "states")
  /\ UNCHANGED <<log, agreementEntry, catalogEntry, clientEntry, tokenEntry, lost, faults>>

\* updatePurposeDataInTokenGenStatesEntries: every entry of the purpose.
PurposeStates ==
  /\ hand[Purpose].at = "states"
  /\ UpdateTokens(LAMBDA e : TRUE,
                  LAMBDA e : [e EXCEPT !.purposeState =
                    IF Message(Purpose).state = "active" THEN "active" ELSE "inactive"])
  /\ Handled(Purpose)
  /\ UNCHANGED <<log, platform, lost, faults>>

(* updateTokenGenStatesEntriesWithPurposeAndPlatformStatesData, for the     *)
(* activations: the entries are queried, the agreement and the descriptor   *)
(* read, and each entry queried is written.                                  *)
PurposeQuery ==
  /\ hand[Purpose].at = "query"
  /\ hand' = [hand EXCEPT ![Purpose].at = "agreement", ![Purpose].found = tokenEntry]
  /\ UNCHANGED <<log, pos, platform, tokenEntry, lost, faults>>

PurposeReadAgreement ==
  /\ hand[Purpose].at = "agreement"
  /\ hand' = [hand EXCEPT ![Purpose].now.g = agreementEntry,
                ![Purpose].at = IF Here(agreementEntry) THEN "catalog" ELSE "fill"]
  /\ UNCHANGED <<log, pos, platform, tokenEntry, lost, faults>>

PurposeReadCatalog ==
  /\ hand[Purpose].at = "catalog"
  /\ hand' = [hand EXCEPT ![Purpose].at = "fill",
                ![Purpose].now.c = catalogEntry[hand[Purpose].now.g.descriptor]]
  /\ UNCHANGED <<log, pos, platform, tokenEntry, lost, faults>>

\* The descriptor's part is written whenever it was found: two audiences are
\* two arrays, which are never equal.
FilledByPurpose(e, found, g, c) ==
  LET withPurpose == [e EXCEPT !.purposeState = Message(Purpose).state, !.linked = TRUE]
      withAgreement ==
        IF /\ Here(g)
           /\ <<found.agreementId, found.agreementState, found.descriptor>>
                # <<g.id, g.state, g.descriptor>>
        THEN [withPurpose EXCEPT !.agreementId = g.id, !.agreementState = g.state,
                                 !.descriptor = g.descriptor]
        ELSE withPurpose
  IN IF Here(g) /\ Here(c)
     THEN [withAgreement EXCEPT !.descriptorState = c.state, !.lifespan = c.lifespan]
     ELSE withAgreement

\* What a writer that has read g and c may leave stale, as they are now others.
Overtaken(g, c) ==
  {part \in {"agreement", "descriptor"} :
     \/ AgreementData(g) # AgreementData(agreementEntry)
     \/ /\ part = "descriptor" /\ Here(g)
        /\ DescriptorData(c) # DescriptorData(catalogEntry[g.descriptor])}

PurposeFill ==
  LET h == hand[Purpose]
      queried == {k \in Keys : h.found[k].here}
  IN
  /\ h.at = "fill"
  /\ IF \E k \in queried : ~tokenEntry[k].here
     THEN Fails(Purpose) /\ UNCHANGED <<tokenEntry, lost>>
     ELSE /\ tokenEntry' = [k \in Keys |->
               IF k \in queried
               THEN FilledByPurpose(tokenEntry[k], h.found[k], h.now.g, h.now.c)
               ELSE tokenEntry[k]]
          /\ lost' = IF queried = {} THEN lost ELSE lost \cup Overtaken(h.now.g, h.now.c)
          /\ Handled(Purpose)
  /\ UNCHANGED <<log, platform, faults>>

-----------------------------------------------------------------------------
(* agreement-platformstate-writer: a stream per agreement, one entry for all *)
(* of them.                                                                  *)

ItemOf(state) == IF state = "active" THEN "active" ELSE "inactive"
Linked(e) == e.linked

\* Slip: the agreement's time is not compared.
IsLatestAlways(entry, a) == TRUE

\* isLatestAgreement: later agreements take effect at later times.
IsLatest(entry, a) == Here(entry) => a >= entry.id
NewerOfSame(entry, a) == Newer(entry, a) /\ entry.id = a

AgreementRead(a) ==
  /\ Takes(a)
  /\ hand' = [hand EXCEPT ![a].at = "decide", ![a].now.g = agreementEntry]
  /\ UNCHANGED <<log, pos, platform, tokenEntry, lost, faults>>

AgreementSkips(a) ==
  LET ev == Message(a)
      entry == hand[a].now.g
  IN \/ ~IsLatest(entry, a)
     \/ ev.type # "Archived" /\ NewerOfSame(entry, a)
     \/ ev.type = "Changed" /\ ~Here(entry)
     \/ ev.type = "Archived" /\ entry.id # a

\* Slip: an event that is not the latest is an error.
AgreementSkipFails(a) ==
  /\ hand[a].at = "decide" /\ AgreementSkips(a)
  /\ Fails(a)
  /\ UNCHANGED <<log, platform, tokenEntry, lost, faults>>

AgreementSkip(a) ==
  /\ hand[a].at = "decide" /\ AgreementSkips(a)
  /\ Handled(a)
  /\ UNCHANGED <<log, platform, tokenEntry, lost, faults>>

\* The parts that a write made from what was read of the entry may leave stale.
OvertakenEntry(a) ==
  IF AgreementData(hand[a].now.g) = AgreementData(agreementEntry) THEN {}
  ELSE {"agreement", "descriptor"}

AgreementUpsert(a) ==
  LET ev == Message(a) IN
  /\ hand[a].at = "decide" /\ ~AgreementSkips(a)
  /\ ev.type = "Activated"
  /\ agreementEntry' = [state |-> ItemOf(ev.state), version |-> Version(a),
                        id |-> a, descriptor |-> ev.descriptor]
  /\ lost' = lost \cup OvertakenEntry(a)
  /\ Go(a, "catalog")
  /\ UNCHANGED <<log, purposeEntry, catalogEntry, clientEntry, tokenEntry, faults>>

\* The update names the pair's entry, whichever agreement it is about.
AgreementUpdate(a) ==
  LET ev == Message(a) IN
  /\ hand[a].at = "decide" /\ ~AgreementSkips(a)
  /\ ev.type = "Changed"
  /\ agreementEntry' = [agreementEntry EXCEPT !.state = ItemOf(ev.state),
                                              !.version = Version(a)]
  /\ lost' = lost \cup OvertakenEntry(a)
  /\ Go(a, "states")
  /\ UNCHANGED <<log, purposeEntry, catalogEntry, clientEntry, tokenEntry, faults>>

\* The entry may be another agreement's by now.
Superseded(a) == IF agreementEntry.id = a THEN {} ELSE {"agreement", "descriptor"}

\* An archived agreement's copies are updated before its entry.
AgreementStates(a) ==
  LET ev == Message(a) IN
  /\ \/ hand[a].at = "states" /\ Handled(a)
     \/ /\ hand[a].at = "decide" /\ ~AgreementSkips(a) /\ ev.type = "Archived"
        /\ hand' = [hand EXCEPT ![a].at = "close"] /\ UNCHANGED pos
  /\ UpdateTokens(Linked, LAMBDA e : [e EXCEPT !.agreementState = ItemOf(ev.state)])
  /\ lost' = lost \cup Superseded(a)
  /\ UNCHANGED <<log, platform, faults>>

\* A copy of the open entry that was made since is left as it is.
AgreementClose(a) ==
  /\ hand[a].at = "close"
  /\ agreementEntry' = [agreementEntry EXCEPT !.state = "inactive", !.version = Version(a)]
  /\ lost' = lost \cup OvertakenEntry(a)
               \cup {"agreement" : k \in {k \in Keys : tokenEntry[k].agreementState = "active"}}
  /\ Handled(a)
  /\ UNCHANGED <<log, purposeEntry, catalogEntry, clientEntry, tokenEntry, faults>>

(* updateLatestAgreementOnTokenGenStates: read the descriptor, write the     *)
(* copies, read it again.                                                    *)
AgreementReadCatalog(a) ==
  /\ hand[a].at = "catalog"
  /\ hand' = [hand EXCEPT ![a].now.c = catalogEntry[Message(a).descriptor],
                          ![a].at = "fill"]
  /\ UNCHANGED <<log, pos, platform, tokenEntry, lost, faults>>

FilledByAgreement(e, a, c) ==
  LET withAgreement == [e EXCEPT !.agreementId = a, !.descriptor = Message(a).descriptor,
                                 !.agreementState = ItemOf(Message(a).state)]
  IN IF Here(c) THEN [withAgreement EXCEPT !.descriptorState = c.state,
                                           !.lifespan = c.lifespan]
     ELSE withAgreement

AgreementFill(a) ==
  /\ hand[a].at = "fill"
  /\ UpdateTokens(Linked, LAMBDA e : FilledByAgreement(e, a, hand[a].now.c))
  /\ hand' = [hand EXCEPT ![a].at = "check", ![a].before.c = hand[a].now.c]
  /\ lost' = lost \cup Superseded(a)
  /\ UNCHANGED <<log, pos, platform, faults>>

\* A lifespan that changed, or an entry that went, is not looked for.
AgreementCheck(a) ==
  LET read == hand[a].before.c
      again == catalogEntry[Message(a).descriptor]
  IN
  /\ hand[a].at = "check"
  /\ IF Here(again) /\ again.state # read.state
     THEN /\ hand' = [hand EXCEPT ![a].at = "refill", ![a].now.c = again]
          /\ UNCHANGED <<pos, lost>>
     ELSE /\ Handled(a)
          /\ lost' = IF DescriptorData(again) = DescriptorData(read) THEN lost
                     ELSE lost \cup {"descriptor"}
  /\ UNCHANGED <<log, platform, tokenEntry, faults>>

AgreementRefill(a) ==
  LET c == hand[a].now.c IN
  /\ hand[a].at = "refill"
  /\ UpdateTokens(Linked, LAMBDA e : FilledByAgreement(e, a, c))
  /\ lost' = lost \cup Superseded(a)
       \cup IF DescriptorData(c) = DescriptorData(catalogEntry[Message(a).descriptor])
            THEN {} ELSE {"descriptor"}
  /\ Handled(a)
  /\ UNCHANGED <<log, platform, faults>>

-----------------------------------------------------------------------------
(* catalog-platformstate-writer                                              *)

Previous == Message(EService).of - 1
Archives == /\ Message(EService).type = "Published" /\ Previous \in Descriptors
            /\ Message(EService).descriptors[Previous].state = "archived"

\* After the current descriptor: the previous one, if it was archived.
DescriptorDone == IF Archives THEN Go(EService, "previous") ELSE Handled(EService)

DescriptorSkips ==
  LET ev == Message(EService)
      entry == catalogEntry[ev.of]
  IN \/ ev.type # "Archived" /\ Newer(entry, EService)
     \/ ev.type \in {"Suspended", "Activated", "QuotasUpdated"} /\ ~Here(entry)
     \/ ev.type = "QuotasUpdated" /\ ev.descriptors[ev.of].lifespan = entry.lifespan

\* The entry shows the lifespan already, a copy does not.
StaleLifespan(e) ==
  LET entry == catalogEntry[Message(EService).of]
  IN e.descriptor = Message(EService).of /\ Here(entry) /\ e.lifespan # entry.lifespan

DescriptorSkip ==
  /\ Takes(EService) /\ DescriptorSkips
  /\ DescriptorDone
  /\ lost' = IF /\ Message(EService).type = "QuotasUpdated"
                /\ \E k \in Keys : StaleLifespan(tokenEntry[k])
             THEN lost \cup {"lifespan"} ELSE lost
  /\ UNCHANGED <<log, platform, tokenEntry, faults>>

\* An entry that exists keeps its lifespan when its state is written, and its
\* state when its lifespan is.
DescriptorStore ==
  LET ev == Message(EService)
      of == ev.descriptors[ev.of]
      entry == catalogEntry[ev.of]
  IN
  /\ Takes(EService) /\ ~DescriptorSkips
  /\ catalogEntry' = [catalogEntry EXCEPT ![ev.of] =
       CASE ev.type = "Archived" -> NoDescriptor
         [] ev.type = "QuotasUpdated" -> [@ EXCEPT !.lifespan = of.lifespan,
                                                   !.version = Version(EService)]
         [] OTHER -> [state |-> ItemOf(of.state), version |-> Version(EService),
                      lifespan |-> IF Here(entry) THEN entry.lifespan ELSE of.lifespan]]
  /\ Go(EService, "states")
  /\ UNCHANGED <<log, purposeEntry, agreementEntry, clientEntry, tokenEntry, lost, faults>>

\* The copies: state and lifespan of one published, only the state or only the
\* lifespan for the other events.
DescriptorStates ==
  LET ev == Message(EService)
      of == ev.descriptors[ev.of]
  IN
  /\ hand[EService].at = "states"
  /\ UpdateTokens(LAMBDA e : e.descriptor = ev.of,
       LAMBDA e : [e EXCEPT
         !.descriptorState = IF ev.type = "QuotasUpdated" THEN @ ELSE ItemOf(of.state),
         !.lifespan = IF ev.type \in {"Published", "QuotasUpdated"} THEN of.lifespan ELSE @])
  /\ DescriptorDone
  /\ UNCHANGED <<log, platform, lost, faults>>

PreviousDelete ==
  /\ hand[EService].at = "previous"
  /\ catalogEntry' = [catalogEntry EXCEPT ![Previous] = NoDescriptor]
  /\ Go(EService, "previousStates")
  /\ UNCHANGED <<log, purposeEntry, agreementEntry, clientEntry, tokenEntry, lost, faults>>

PreviousStates ==
  /\ hand[EService].at = "previousStates"
  /\ UpdateTokens(LAMBDA e : e.descriptor = Previous,
                  LAMBDA e : [e EXCEPT !.descriptorState = "inactive"])
  /\ Handled(EService)
  /\ UNCHANGED <<log, platform, lost, faults>>

-----------------------------------------------------------------------------
(* authorization-platformstate-writer                                        *)

\* A client's entry is the version of its last event, 0 when there is none.
ClientSkips ==
  LET ev == Message(Client) IN
  \/ ev.type # "Deleted" /\ clientEntry > Version(Client)
  \/ ev.type = "PurposeRemoved" /\ clientEntry = 0

ClientSkip ==
  /\ Takes(Client) /\ ClientSkips
  /\ Handled(Client)
  /\ UNCHANGED <<log, platform, tokenEntry, lost, faults>>

\* The keys whose entries with the purpose an event makes, or deletes.
MadeBy(ev) == CASE ev.type = "KeyAdded" -> IF ev.client.purpose THEN {ev.key} ELSE {}
                [] ev.type = "PurposeAdded" -> ev.client.keys
                [] OTHER -> {}
DeletedBy(ev) == CASE ev.type = "KeyDeleted" -> IF ev.client.purpose THEN {ev.key} ELSE {}
                   [] ev.type = "PurposeRemoved" -> ev.client.keys
                   [] ev.type = "Deleted" -> IF ev.client.purpose THEN ev.client.keys ELSE {}
                   [] OTHER -> {}

ClientStore ==
  LET ev == Message(Client) IN
  /\ Takes(Client) /\ ~ClientSkips
  /\ clientEntry' = IF ev.type = "Deleted" THEN 0 ELSE Version(Client)
  /\ IF DeletedBy(ev) # {} THEN Go(Client, "delete")
     ELSE IF MadeBy(ev) # {} THEN Go(Client, "purpose") ELSE Handled(Client)
  /\ UNCHANGED <<log, purposeEntry, agreementEntry, catalogEntry, tokenEntry, lost, faults>>

ClientDelete ==
  /\ hand[Client].at = "delete"
  /\ tokenEntry' = [k \in Keys |-> IF k \in DeletedBy(Message(Client)) THEN NoToken
                                   ELSE tokenEntry[k]]
  /\ Handled(Client)
  /\ UNCHANGED <<log, platform, lost, faults>>

(* retrievePlatformStatesByPurpose, for the entries' first contents and once *)
(* more when they are written.                                               *)
Retrieved == IF hand[Client].round = 1 THEN "put" ELSE "update"

ClientReadPurpose ==
  /\ hand[Client].at = "purpose"
  /\ hand' = [hand EXCEPT ![Client].now.p = purposeEntry,
                ![Client].at = IF Here(purposeEntry) THEN "agreement" ELSE Retrieved]
  /\ UNCHANGED <<log, pos, platform, tokenEntry, lost, faults>>

ClientReadAgreement ==
  /\ hand[Client].at = "agreement"
  /\ hand' = [hand EXCEPT ![Client].now.g = agreementEntry,
                ![Client].at = IF Here(agreementEntry) THEN "catalog" ELSE Retrieved]
  /\ UNCHANGED <<log, pos, platform, tokenEntry, lost, faults>>

ClientReadCatalog ==
  /\ hand[Client].at = "catalog"
  /\ hand' = [hand EXCEPT ![Client].now.c = catalogEntry[hand[Client].now.g.descriptor],
                          ![Client].at = Retrieved]
  /\ UNCHANGED <<log, pos, platform, tokenEntry, lost, faults>>

\* createTokenGenStatesConsumerClient.
Made(read) ==
  [here |-> TRUE, linked |-> Here(read.p), purposeState |-> read.p.state,
   agreementId |-> read.g.id, agreementState |-> read.g.state,
   descriptor |-> read.g.descriptor,
   descriptorState |-> read.c.state, lifespan |-> read.c.lifespan]

\* Slip: the states are not retrieved again.
ClientPutOnce ==
  LET h == hand[Client] IN
  /\ h.at = "put"
  /\ tokenEntry' = [k \in Keys |-> IF k \in MadeBy(Message(Client)) THEN Made(h.now)
                                   ELSE tokenEntry[k]]
  /\ Handled(Client)
  /\ UNCHANGED <<log, platform, lost, faults>>

ClientPut ==
  LET h == hand[Client] IN
  /\ h.at = "put"
  /\ tokenEntry' = [k \in Keys |-> IF k \in MadeBy(Message(Client)) THEN Made(h.now)
                                   ELSE tokenEntry[k]]
  /\ hand' = [hand EXCEPT ![Client].at = "purpose", ![Client].round = 2,
                ![Client].before = h.now, ![Client].now = NothingRead]
  /\ UNCHANGED <<log, pos, platform, lost, faults>>

(* updateTokenGenStatesDataForSecondRetrieval: what was found and is not     *)
(* what was put.  The agreement's identifier is not looked at.               *)
SecondRetrieval(e, put, read) ==
  LET withPurpose ==
        IF ~Here(read.p) THEN e
        ELSE [e EXCEPT !.linked = TRUE,
                !.purposeState = IF read.p.state = put.purposeState THEN @ ELSE read.p.state]
      withAgreement ==
        IF ~Here(read.g) THEN withPurpose
        ELSE [withPurpose EXCEPT
                !.descriptor = IF read.g.descriptor = put.descriptor THEN @ ELSE read.g.descriptor,
                !.agreementState = IF read.g.state = put.agreementState THEN @ ELSE read.g.state]
  IN IF ~Here(read.c) THEN withAgreement
     ELSE [withAgreement EXCEPT
             !.lifespan = IF read.c.lifespan = put.lifespan THEN @ ELSE read.c.lifespan,
             !.descriptorState = IF read.c.state = put.descriptorState THEN @ ELSE read.c.state]

\* Read again, deleted meanwhile, or replaced since it was read again.
OvertakenRetrieval(before, now) ==
  (IF \/ Here(before.p) /\ ~Here(now.p)
      \/ now.p.state # before.p.state /\ now.p.state # purposeEntry.state
   THEN {"purpose"} ELSE {})
  \cup (IF now = before THEN {} ELSE Overtaken(now.g, now.c))
  \cup (IF now.g.id = before.g.id THEN {} ELSE {"agreementId"})

\* The entry is another descriptor's now, with the same state as the put one's, and
\* the state that was written for that one since is left.
LeftOfBefore(before, now, e) ==
  IF now.g.descriptor # before.g.descriptor /\ Here(now.c)
       /\ <<e.descriptorState, e.lifespan>> # <<now.c.state, now.c.lifespan>>
  THEN {"descriptor"} ELSE {}

ClientUpdate ==
  LET h == hand[Client]
      keys == MadeBy(Message(Client))
  IN
  /\ h.at = "update"
  /\ tokenEntry' = [k \in Keys |->
       IF k \in keys THEN SecondRetrieval(tokenEntry[k], Made(h.before), h.now)
       ELSE tokenEntry[k]]
  /\ lost' = lost \cup OvertakenRetrieval(h.before, h.now)
               \cup UNION {LeftOfBefore(h.before, h.now, tokenEntry'[k]) : k \in keys}
  /\ Handled(Client)
  /\ UNCHANGED <<log, platform, faults>>

-----------------------------------------------------------------------------
\* A consumer stops and the message in hand is delivered again.
Crash(s) ==
  /\ Size + faults < MaxSteps /\ hand[s].at # "idle"
  /\ faults' = faults + 1
  /\ Fails(s)
  /\ UNCHANGED <<log, platform, tokenEntry, lost>>

\* The connector publishes old events again.
Redeliver(s) ==
  /\ Size + faults < MaxSteps /\ hand[s].at = "idle"
  /\ \E n \in 0..(pos[s] - 1) : pos' = [pos EXCEPT ![s] = n]
  /\ faults' = faults + 1
  /\ UNCHANGED <<log, platform, tokenEntry, hand, lost>>

\* Two descriptors are offered, the first agreement, for the older one, and the
\* purpose are active, the client has a key and the purpose.  The last message of
\* the purpose and of the client, which makes the entry, are still to be handled.
Offered == [d \in Descriptors |-> [state |-> IF d <= 2 THEN "active" ELSE "absent",
                                   lifespan |-> 1]]

Init ==
  /\ \E k \in Keys :
       log = [s \in Streams |->
         CASE s = EService -> <<[type |-> "Published", of |-> 2, descriptors |-> Offered]>>
           [] s = 1 -> <<[type |-> "Activated", state |-> "active", descriptor |-> 1]>>
           [] s = Purpose -> <<[type |-> "Activated", state |-> "active"]>>
           [] s = Client ->
                <<[type |-> "KeyAdded", key |-> k,
                   client |-> [keys |-> {k}, purpose |-> FALSE, gone |-> FALSE]],
                  [type |-> "PurposeAdded", key |-> k,
                   client |-> [keys |-> {k}, purpose |-> TRUE, gone |-> FALSE]]>>
           [] OTHER -> <<>>]
  /\ pos = [s \in Streams |-> IF s \in {EService, Client, 1} THEN 1 ELSE 0]
  /\ purposeEntry = NoPurpose
  /\ agreementEntry = [state |-> "active", version |-> 1, id |-> 1, descriptor |-> 1]
  /\ catalogEntry = [d \in Descriptors |->
       IF d <= 2 THEN [state |-> "active", version |-> 1, lifespan |-> 1] ELSE NoDescriptor]
  /\ clientEntry = 1
  /\ tokenEntry = [k \in Keys |-> NoToken]
  /\ hand = [s \in Streams |-> Idle]
  /\ lost = {} /\ faults = 0

Domain ==
  /\ Size + faults < MaxSteps
  /\ \/ \E type \in {"Activated", "Changed", "Archived"}, state \in ItemState \cup {"archived"} :
          StorePurpose(type, state)
     \/ \E type \in {"Activated", "Changed", "Archived"},
           state \in ItemState \cup {"archived"} : StoreAgreement(type, state)
     \/ \E type \in {"Published", "Suspended", "Activated", "Archived", "QuotasUpdated"},
           d \in Descriptors : StoreDescriptor(type, d)
     \/ \E type \in {"KeyAdded", "KeyDeleted"}, k \in Keys : StoreClient(type, k)
     \/ \E type \in {"PurposeAdded", "PurposeRemoved", "Deleted"} :
          StoreClient(type, CHOOSE k \in Keys : TRUE)

PurposeWriter == \/ PurposeSkip \/ PurposeStore \/ PurposeStates \/ PurposeQuery
                 \/ PurposeReadAgreement \/ PurposeReadCatalog \/ PurposeFill
AgreementWriter(a) == \/ AgreementRead(a) \/ AgreementSkip(a) \/ AgreementUpsert(a)
                      \/ AgreementUpdate(a) \/ AgreementStates(a) \/ AgreementClose(a)
                      \/ AgreementReadCatalog(a) \/ AgreementFill(a)
                      \/ AgreementCheck(a) \/ AgreementRefill(a)
CatalogWriter == \/ DescriptorSkip \/ DescriptorStore \/ DescriptorStates
                 \/ PreviousDelete \/ PreviousStates
ClientWriter == \/ ClientSkip \/ ClientStore \/ ClientDelete \/ ClientReadPurpose
                \/ ClientReadAgreement \/ ClientReadCatalog \/ ClientPut \/ ClientUpdate

Consumers == \/ PurposeWriter \/ CatalogWriter \/ ClientWriter
             \/ \E a \in Agreements : AgreementWriter(a)

Next == \/ Domain
        \/ Consumers
        \/ \E s \in Streams : Crash(s) \/ Redeliver(s)

Spec == Init /\ [][Next]_vars

\* A consumer group goes on reading as long as there is something to handle.
FairSpec == Spec /\ WF_vars(Consumers)

-----------------------------------------------------------------------------
TypeOK ==
  /\ pos \in [Streams -> 0..MaxSteps]
  /\ \A s \in Streams : pos[s] <= Len(log[s])
  /\ DOMAIN tokenEntry = Keys /\ DOMAIN hand = Streams
  /\ lost \subseteq {"purpose", "agreement", "agreementId", "descriptor", "lifespan"}
  /\ faults \in 0..MaxSteps

Quiet(S) == \A s \in S : hand[s].at = "idle" /\ pos[s] = Len(log[s])
Tokens == {tokenEntry[k] : k \in {k \in Keys : tokenEntry[k].here}}

EntriesSettled ==
  Quiet({Client}) =>
    \A k \in Keys : tokenEntry[k].here <=>
       ClientTruth.purpose /\ k \in ClientTruth.keys /\ ~ClientTruth.gone

PurposeSettled ==
  Quiet({Purpose, Client}) /\ "purpose" \notin lost =>
    \A e \in Tokens : (e.purposeState = "active") <=> (PurposeTruth = "active")

AgreementSettled ==
  /\ Quiet({Purpose, Client} \cup Agreements) /\ "agreement" \notin lost
  /\ PurposeTruth \in ItemState
  => \A e \in Tokens : /\ e.agreementState = ItemOf(AgreementTruth.state)
                       /\ e.descriptor = AgreementTruth.descriptor
                       /\ "agreementId" \in lost \/ e.agreementId = LatestAgreement

DescriptorSettled ==
  /\ Quiet(Streams) /\ lost \cap {"agreement", "descriptor"} = {}
  /\ PurposeTruth \in ItemState /\ InForce
  => LET d == DescriptorTruth[AgreementTruth.descriptor] IN
     \A e \in Tokens : /\ e.descriptorState = ItemOf(d.state)
                       /\ "lifespan" \in lost \/ e.lifespan = d.lifespan

(* authorization-server, generateToken: retrieveKey parses a full entry, and *)
(* validatePlatformState looks at the three states.                          *)
Granted(e) == /\ e.here /\ e.linked /\ e.agreementId # 0 /\ e.lifespan # 0
              /\ e.purposeState = "active" /\ e.agreementState = "active"
              /\ e.descriptorState = "active"

GrantSettled ==
  Quiet(Streams) /\ lost = {} =>
    \A e \in Tokens : Granted(e) <=>
      /\ PurposeTruth = "active" /\ AgreementTruth.state = "active"
      /\ DescriptorTruth[AgreementTruth.descriptor].state = "active"

\* Once the consumers have handled every event, the entries are those of the
\* client's keys, their states are the domain's, and a token is granted exactly
\* when the purpose, the agreement and its descriptor are active -- except for
\* the parts that an overtaken copy left stale (lost).
Settled == /\ EntriesSettled /\ PurposeSettled /\ AgreementSettled
           /\ DescriptorSettled /\ GrantSettled

\* A handler decides about the pair's entry, which has become a later agreement's
\* since it was read.
LooksBack(a) == /\ hand[a].at = "decide" /\ hand'[a].at # "decide"
                /\ hand[a].now.g.id < agreementEntry.id

\* The pair's entry goes back to an earlier agreement only through such a decision,
\* however the events of the agreements are interleaved or delivered again.
LatestKept ==
  [][agreementEntry'.id >= agreementEntry.id \/ \E a \in Agreements : LooksBack(a)]_vars

\* No message is retried for ever: every event is handled.
Settles == <>[]Quiet(Streams)

\* A new lifespan reaches the copies (EServiceDescriptorQuotasUpdated).
LifespanReaches ==
  /\ Quiet(Streams) /\ lost \cap {"agreement", "descriptor"} = {}
  /\ PurposeTruth \in ItemState /\ InForce
  => \A e \in Tokens : e.lifespan = DescriptorTruth[AgreementTruth.descriptor].lifespan

=============================================================================
