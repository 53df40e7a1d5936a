--------------------------- MODULE PlatformProofs ---------------------------
(***************************************************************************)
(* Theorems about PlatformStates, for any number of agreements,            *)
(* descriptors and keys, any length of the streams and any number of       *)
(* crashes and redeliveries.                                               *)
(*                                                                         *)
(* LatestEntryKept is about the entry that the agreements of a pair share, *)
(* whose handlers run at the same time when the topic's partitions have    *)
(* consumers of their own.                                                 *)
(*                                                                         *)
(* PlatformSettles is Settled, and the theorems before it are its parts:   *)
(* EntriesAreTheKeys, PurposeReachesEntries, AgreementReachesEntries.  For *)
(* each key their invariants follow what is still to come: an entry that   *)
(* is not as it should be has an event ahead that will make or delete it;  *)
(* a copy that is not what the purpose's, the agreement's or the           *)
(* descriptor's own entry says has an event ahead which will write it, or  *)
(* a handler at work that holds the right answer or is about to read it    *)
(* again.  The last two hold until a handler of an agreement writes over   *)
(* what another one has written since it looked, which marks "agreement"   *)
(* in lost.                                                                *)
(*                                                                         *)
(*   EntriesInv     the entries and the client's stream                    *)
(*   PurposeInv     the purpose's state in them                            *)
(*   AgreementInv   the agreement's parts, and the links that lead to them *)
(*   DescriptorInv  the descriptor's parts, for one that is not archived   *)
(***************************************************************************)
EXTENDS PlatformStates, FiniteSetTheorems, TLAPS

USE BoundsAssumption

\* What a consumer holds and an entry keeps, by the names of their parts.
HandFields == {"at", "round", "now", "before", "found"}
ReadFields == {"p", "g", "c"}
EntryFields == {"state", "version", "id", "descriptor"}
Fields == {"here", "linked", "purposeState", "agreementId", "agreementState",
           "descriptor", "descriptorState", "lifespan"}

Shapes ==
  /\ DOMAIN hand = Streams /\ DOMAIN pos = Streams
  /\ \A s \in Streams : DOMAIN hand[s] = HandFields /\ DOMAIN hand[s].now = ReadFields

\* The streams are told apart by their numbers.
LEMMA StreamsAreDistinct ==
  /\ Purpose \in Streams \ Agreements /\ EService \in Streams \ Agreements
  /\ Client \in Streams \ Agreements
  /\ Purpose # EService /\ Purpose # Client /\ EService # Client
  /\ Agreements \subseteq Streams /\ 1 \in Agreements /\ Agreements \subseteq Nat
  BY DEF Purpose, EService, Client, Streams, Agreements

\* What every step does to the hands: one of them at most changes, and the shapes stay.
LEMMA IdleShape == DOMAIN Idle = HandFields /\ DOMAIN Idle.now = ReadFields /\ Idle.at = "idle"
  BY DEF Idle, NothingRead, HandFields, ReadFields

LEMMA HandledStep ==
  ASSUME Shapes, NEW s \in Streams, Handled(s)
  PROVE  /\ Shapes' /\ hand'[s] = Idle
         /\ \A t \in Streams \ {s} : hand'[t] = hand[t] /\ pos'[t] = pos[t]
  BY IdleShape DEF Handled, Shapes

LEMMA FailsStep ==
  ASSUME Shapes, NEW s \in Streams, Fails(s)
  PROVE  /\ Shapes' /\ hand'[s] = Idle /\ pos' = pos
         /\ \A t \in Streams \ {s} : hand'[t] = hand[t]
  BY IdleShape DEF Fails, Shapes

LEMMA GoStep ==
  ASSUME Shapes, NEW s \in Streams, NEW step, Go(s, step)
  PROVE  /\ Shapes' /\ hand'[s].at = step /\ pos' = pos
         /\ hand'[s] = [Idle EXCEPT !.at = step]
         /\ \A t \in Streams \ {s} : hand'[t] = hand[t]
  BY IdleShape DEF Go, Shapes, HandFields, ReadFields

-----------------------------------------------------------------------------
(* What the writers leave alone.                                             *)

\* A step of one stream's consumer.
Frame(s) == /\ log' = log /\ Shapes' /\ lost \subseteq lost'
            /\ \A t \in Streams \ {s} : hand'[t] = hand[t] /\ pos'[t] = pos[t]

LEMMA PurposeFrame ==
  ASSUME Shapes, PurposeWriter
  PROVE  Frame(Purpose) /\ UNCHANGED <<agreementEntry, catalogEntry, clientEntry, faults>>
<1>1. CASE PurposeSkip
  BY <1>1, HandledStep, StreamsAreDistinct DEF PurposeSkip, platform, Frame
<1>2. CASE PurposeStore
  BY <1>2, GoStep, StreamsAreDistinct DEF PurposeStore, Frame
<1>3. CASE PurposeStates
  BY <1>3, HandledStep, StreamsAreDistinct DEF PurposeStates, platform, Frame
<1>4. CASE PurposeQuery
  BY <1>4, StreamsAreDistinct DEF PurposeQuery, platform, Shapes, HandFields, Frame
<1>5. CASE PurposeReadAgreement
  BY <1>5, StreamsAreDistinct
     DEF PurposeReadAgreement, platform, Shapes, HandFields, ReadFields, Frame
<1>6. CASE PurposeReadCatalog
  BY <1>6, StreamsAreDistinct
     DEF PurposeReadCatalog, platform, Shapes, HandFields, ReadFields, Frame
<1>7. CASE PurposeFill
  BY <1>7, HandledStep, FailsStep, StreamsAreDistinct DEF PurposeFill, platform, Frame
<1> QED BY <1>1, <1>2, <1>3, <1>4, <1>5, <1>6, <1>7 DEF PurposeWriter

LEMMA CatalogFrame ==
  ASSUME Shapes, CatalogWriter
  PROVE  Frame(EService) /\ UNCHANGED <<purposeEntry, agreementEntry, clientEntry, faults>>
<1>0. ASSUME DescriptorDone
      PROVE  Shapes' /\ \A t \in Streams \ {EService} : hand'[t] = hand[t] /\ pos'[t] = pos[t]
  BY <1>0, HandledStep, GoStep, StreamsAreDistinct DEF DescriptorDone
<1>1. CASE DescriptorSkip
  BY <1>1, <1>0 DEF DescriptorSkip, platform, Frame
<1>2. CASE DescriptorStore
  BY <1>2, GoStep, StreamsAreDistinct DEF DescriptorStore, Frame
<1>3. CASE DescriptorStates
  BY <1>3, <1>0 DEF DescriptorStates, platform, Frame
<1>4. CASE PreviousDelete
  BY <1>4, GoStep, StreamsAreDistinct DEF PreviousDelete, Frame
<1>5. CASE PreviousStates
  BY <1>5, HandledStep, StreamsAreDistinct DEF PreviousStates, platform, Frame
<1> QED BY <1>1, <1>2, <1>3, <1>4, <1>5 DEF CatalogWriter

LEMMA ClientFrame ==
  ASSUME Shapes, ClientWriter
  PROVE  Frame(Client) /\ UNCHANGED <<purposeEntry, agreementEntry, catalogEntry, faults>>
<1>1. CASE ClientSkip
  BY <1>1, HandledStep, StreamsAreDistinct DEF ClientSkip, platform, Frame
<1>2. CASE ClientStore
  BY <1>2, GoStep, HandledStep, StreamsAreDistinct DEF ClientStore, Frame
<1>3. CASE ClientDelete
  BY <1>3, HandledStep, StreamsAreDistinct DEF ClientDelete, platform, Frame
<1>4. CASE ClientReadPurpose
  BY <1>4, StreamsAreDistinct
     DEF ClientReadPurpose, platform, Shapes, HandFields, ReadFields, Frame
<1>5. CASE ClientReadAgreement
  BY <1>5, StreamsAreDistinct
     DEF ClientReadAgreement, platform, Shapes, HandFields, ReadFields, Frame
<1>6. CASE ClientReadCatalog
  BY <1>6, StreamsAreDistinct
     DEF ClientReadCatalog, platform, Shapes, HandFields, ReadFields, Frame
<1>7. CASE ClientPut
  BY <1>7, StreamsAreDistinct, IdleShape
     DEF ClientPut, platform, Shapes, HandFields, ReadFields, NothingRead, Frame
<1>8. CASE ClientUpdate
  BY <1>8, HandledStep, StreamsAreDistinct DEF ClientUpdate, platform, Frame
<1> QED BY <1>1, <1>2, <1>3, <1>4, <1>5, <1>6, <1>7, <1>8 DEF ClientWriter

LEMMA AgreementFrame ==
  ASSUME Shapes, NEW a \in Agreements, AgreementWriter(a)
  PROVE  Frame(a) /\ UNCHANGED <<purposeEntry, catalogEntry, clientEntry, faults>>
<1>0. a \in Streams
  BY StreamsAreDistinct
<1>1. CASE AgreementRead(a)
  BY <1>0, <1>1 DEF AgreementRead, platform, Shapes, HandFields, ReadFields, Frame
<1>2. CASE AgreementSkip(a)
  BY <1>0, <1>2, HandledStep DEF AgreementSkip, platform, Frame
<1>3. CASE AgreementUpsert(a)
  BY <1>0, <1>3, GoStep DEF AgreementUpsert, Frame
<1>4. CASE AgreementUpdate(a)
  BY <1>0, <1>4, GoStep DEF AgreementUpdate, Frame
<1>5. CASE AgreementStates(a)
  <2>1. /\ log' = log /\ lost \subseteq lost'
        /\ UNCHANGED <<purposeEntry, catalogEntry, clientEntry, faults>>
    BY <1>5 DEF AgreementStates, platform
  <2>2. Shapes' /\ \A t \in Streams \ {a} : hand'[t] = hand[t] /\ pos'[t] = pos[t]
    <3>1. CASE Handled(a)
      BY <1>0, <3>1, HandledStep
    <3>2. CASE hand' = [hand EXCEPT ![a].at = "close"] /\ UNCHANGED pos
      BY <1>0, <3>2 DEF Shapes, HandFields
    <3> QED BY <1>5, <3>1, <3>2 DEF AgreementStates
  <2> QED BY <2>1, <2>2 DEF Frame
<1>6. CASE AgreementClose(a)
  BY <1>0, <1>6, HandledStep DEF AgreementClose, Frame
<1>8. CASE AgreementReadCatalog(a)
  BY <1>0, <1>8 DEF AgreementReadCatalog, platform, Shapes, HandFields, ReadFields, Frame
<1>9. CASE AgreementFill(a)
  BY <1>0, <1>9 DEF AgreementFill, platform, Shapes, HandFields, ReadFields, Frame
<1>10. CASE AgreementCheck(a)
  <2>1. /\ log' = log /\ lost \subseteq lost'
        /\ UNCHANGED <<purposeEntry, catalogEntry, clientEntry, faults>>
    BY <1>10 DEF AgreementCheck, platform
  <2>2. Shapes' /\ \A t \in Streams \ {a} : hand'[t] = hand[t] /\ pos'[t] = pos[t]
    <3>1. CASE Handled(a)
      BY <1>0, <3>1, HandledStep
    <3>2. CASE ~Handled(a)
      BY <1>0, <1>10, <3>2 DEF AgreementCheck, Shapes, HandFields, ReadFields
    <3> QED BY <3>1, <3>2
  <2> QED BY <2>1, <2>2 DEF Frame
<1>11. CASE AgreementRefill(a)
  BY <1>0, <1>11, HandledStep DEF AgreementRefill, platform, Frame
<1> QED BY <1>1, <1>2, <1>3, <1>4, <1>5, <1>6, <1>8, <1>9, <1>10, <1>11 DEF AgreementWriter

-----------------------------------------------------------------------------
(* The latest agreement.                                                     *)

\* What a handler decides on is an agreement that the entry has shown.
Looked == \A a \in Agreements :
            hand[a].at = "decide" => hand[a].now.g.state \in ItemState /\ hand[a].now.g.id \in Nat
PairEntry == /\ DOMAIN agreementEntry = EntryFields
             /\ agreementEntry.state \in ItemState /\ agreementEntry.id \in Nat

LatestInv == Shapes /\ Looked /\ PairEntry

\* A step of another writer.
LEMMA OthersStep ==
  ASSUME LatestInv, NEW s \in Streams \ Agreements, Frame(s), agreementEntry' = agreementEntry
  PROVE  LatestInv' /\ agreementEntry'.id >= agreementEntry.id
<1>1. Shapes' /\ \A a \in Agreements : hand'[a] = hand[a]
  BY StreamsAreDistinct DEF Frame
<1>2. Looked'
  BY <1>1 DEF LatestInv, Looked
<1> QED BY <1>1, <1>2 DEF LatestInv, PairEntry

\* A step of the agreements' writer after the decision, or which ends with it.
LEMMA AgreementMoves ==
  ASSUME LatestInv, Shapes', NEW a \in Agreements, hand[a].at # "idle",
         \A t \in Streams \ {a} : hand'[t] = hand[t], hand'[a].at # "decide"
  PROVE  Looked'
  BY StreamsAreDistinct DEF LatestInv, Looked

LEMMA AgreementKeepsLatest ==
  ASSUME LatestInv, NEW a \in Agreements, AgreementWriter(a)
  PROVE  LatestInv' /\ (agreementEntry'.id >= agreementEntry.id \/ LooksBack(a))
<1>0. a \in Streams /\ a \in Nat /\ Shapes /\ PairEntry
  BY StreamsAreDistinct DEF LatestInv
<1>1. CASE AgreementRead(a)
  <2>1. hand' = [hand EXCEPT ![a] = [hand[a] EXCEPT !.at = "decide",
                    !.now = [hand[a].now EXCEPT !.g = agreementEntry]]]
        /\ pos' = pos /\ agreementEntry' = agreementEntry
    BY <1>1 DEF AgreementRead, platform
  <2>2. /\ Shapes' /\ hand'[a].now.g = agreementEntry
        /\ \A t \in Streams \ {a} : hand'[t] = hand[t]
    BY <1>0, <2>1 DEF Shapes, HandFields, ReadFields
  <2> QED BY <1>0, <2>1, <2>2, StreamsAreDistinct DEF LatestInv, Looked, PairEntry
<1>2. CASE AgreementSkip(a)
  BY <1>0, <1>2, HandledStep, AgreementMoves, IdleShape
     DEF AgreementSkip, LatestInv, platform, PairEntry
<1>3. CASE AgreementUpsert(a)
  <2>1. agreementEntry' = [state |-> ItemOf(Message(a).state), version |-> Version(a),
                           id |-> a, descriptor |-> Message(a).descriptor]
        /\ hand[a].at = "decide" /\ IsLatest(hand[a].now.g, a) /\ Go(a, "catalog")
    BY <1>3 DEF AgreementUpsert, AgreementSkips
  <2>2. Here(hand[a].now.g) /\ hand[a].now.g.id \in Nat
    BY <2>1 DEF LatestInv, Looked, Here, ItemState
  <2>3. a >= hand[a].now.g.id
    BY <2>1, <2>2 DEF IsLatest
  <2>4. hand'[a].at = "catalog"
    BY <1>0, <2>1, GoStep
  <2>5. PairEntry' /\ agreementEntry'.id = a
    BY <1>0, <2>1 DEF PairEntry, EntryFields, ItemOf, ItemState
  <2>6. Looked' /\ Shapes'
    BY <1>0, <2>1, GoStep, AgreementMoves
  <2>7. agreementEntry.id <= a \/ LooksBack(a)
    BY <1>0, <2>1, <2>2, <2>3, <2>4 DEF LooksBack, PairEntry
  <2> QED BY <1>0, <2>5, <2>6, <2>7 DEF LatestInv, PairEntry
<1>4. CASE AgreementUpdate(a)
  <2>1. /\ agreementEntry' = [agreementEntry EXCEPT !.state = ItemOf(Message(a).state),
                                                    !.version = Version(a)]
        /\ hand[a].at = "decide" /\ Go(a, "states")
    BY <1>4 DEF AgreementUpdate
  <2>2. PairEntry' /\ agreementEntry'.id = agreementEntry.id
    BY <1>0, <2>1 DEF PairEntry, EntryFields, ItemOf, ItemState
  <2>3. Looked' /\ Shapes'
    BY <1>0, <2>1, GoStep, AgreementMoves
  <2> QED BY <1>0, <2>2, <2>3 DEF LatestInv, PairEntry
<1>5. CASE AgreementStates(a)
  <2>1. agreementEntry' = agreementEntry /\ hand[a].at # "idle"
    BY <1>5 DEF AgreementStates, platform
  <2>2. /\ Shapes' /\ hand'[a].at # "decide"
        /\ \A t \in Streams \ {a} : hand'[t] = hand[t]
    <3>1. CASE Handled(a)
      BY <1>0, <3>1, HandledStep, IdleShape
    <3>2. CASE hand' = [hand EXCEPT ![a].at = "close"] /\ UNCHANGED pos
      BY <1>0, <3>2 DEF Shapes, HandFields
    <3> QED BY <1>5, <3>1, <3>2 DEF AgreementStates
  <2>3. Looked'
    BY <1>0, <2>1, <2>2, AgreementMoves
  <2> QED BY <1>0, <2>1, <2>2, <2>3 DEF LatestInv, PairEntry
<1>6. CASE AgreementClose(a)
  <2>1. /\ agreementEntry' = [agreementEntry EXCEPT !.state = "inactive", !.version = Version(a)]
        /\ hand[a].at = "close" /\ Handled(a)
    BY <1>6 DEF AgreementClose
  <2>2. PairEntry' /\ agreementEntry'.id = agreementEntry.id
    BY <1>0, <2>1 DEF PairEntry, EntryFields, ItemState
  <2>3. Looked' /\ Shapes'
    BY <1>0, <2>1, HandledStep, AgreementMoves, IdleShape
  <2> QED BY <1>0, <2>2, <2>3 DEF LatestInv, PairEntry
<1>7. ASSUME agreementEntry' = agreementEntry, hand[a].at # "idle",
             Shapes', hand'[a].at # "decide",
             \A t \in Streams \ {a} : hand'[t] = hand[t]
      PROVE  LatestInv' /\ agreementEntry'.id >= agreementEntry.id
  BY <1>0, <1>7, AgreementMoves DEF LatestInv, PairEntry
<1>8. CASE AgreementReadCatalog(a)
  BY <1>0, <1>7, <1>8
     DEF AgreementReadCatalog, platform, Shapes, HandFields, ReadFields
<1>9. CASE AgreementFill(a)
  BY <1>0, <1>7, <1>9
     DEF AgreementFill, platform, Shapes, HandFields, ReadFields
<1>10. CASE AgreementCheck(a)
  BY <1>0, <1>7, <1>10, HandledStep, IdleShape
     DEF AgreementCheck, platform, Shapes, HandFields, ReadFields
<1>11. CASE AgreementRefill(a)
  BY <1>0, <1>7, <1>11, HandledStep, IdleShape DEF AgreementRefill, platform
<1> QED BY <1>1, <1>2, <1>3, <1>4, <1>5, <1>6, <1>8, <1>9, <1>10, <1>11 DEF AgreementWriter

LEMMA DomainKeeps ==
  ASSUME Domain
  PROVE  UNCHANGED <<pos, platform, tokenEntry, hand, lost, faults>>
<1>1. \A s, ev : Store(s, ev) => UNCHANGED <<pos, platform, tokenEntry, hand, lost, faults>>
  BY DEF Store
<1> QED BY <1>1 DEF Domain, StorePurpose, StoreAgreement, StoreDescriptor, StoreClient

LEMMA LatestInit == Init => LatestInv
<1> SUFFICES ASSUME Init PROVE LatestInv
  OBVIOUS
<1>1. Shapes
  BY IdleShape DEF Init, Shapes
<1>2. Looked
  BY IdleShape, StreamsAreDistinct DEF Init, Looked
<1>3. PairEntry
  BY DEF Init, PairEntry, EntryFields, ItemState
<1> QED BY <1>1, <1>2, <1>3 DEF LatestInv

LEMMA LatestStep ==
  ASSUME LatestInv, [Next]_vars
  PROVE  /\ LatestInv'
         /\ agreementEntry'.id >= agreementEntry.id \/ \E a \in Agreements : LooksBack(a)
<1>0. Shapes /\ agreementEntry.id \in Nat
  BY DEF LatestInv, PairEntry
<1>1. CASE Domain
  BY <1>0, <1>1, DomainKeeps
     DEF LatestInv, Shapes, Looked, PairEntry, platform
<1>2. CASE Consumers
  BY <1>0, <1>2, PurposeFrame, CatalogFrame, ClientFrame, OthersStep, StreamsAreDistinct,
     AgreementKeepsLatest DEF Consumers
<1>3. ASSUME NEW s \in Streams, Crash(s)
      PROVE  LatestInv' /\ agreementEntry'.id >= agreementEntry.id
  <2>1. /\ Shapes' /\ hand'[s] = Idle /\ agreementEntry' = agreementEntry
        /\ \A t \in Streams \ {s} : hand'[t] = hand[t]
    BY <1>0, <1>3, FailsStep DEF Crash, platform
  <2> QED BY <1>0, <2>1, IdleShape, StreamsAreDistinct DEF LatestInv, Looked, PairEntry
<1>4. ASSUME NEW s \in Streams, Redeliver(s)
      PROVE  LatestInv' /\ agreementEntry'.id >= agreementEntry.id
  <2>1. Shapes' /\ hand' = hand /\ agreementEntry' = agreementEntry
    BY <1>0, <1>4 DEF Redeliver, platform, Shapes
  <2> QED BY <1>0, <2>1 DEF LatestInv, Looked, PairEntry
<1>5. CASE UNCHANGED vars
  BY <1>0, <1>5 DEF LatestInv, Shapes, Looked, PairEntry, vars, platform
<1> QED BY <1>1, <1>2, <1>3, <1>4, <1>5 DEF Next

\* The entry of the pair (consumer, e-service) goes back to an earlier agreement only when that
\* one's handler has read the entry before a later agreement's wrote it (isLatestAgreement in
\* agreement-platformstate-writer is asked of what was read, and the put has no condition),
\* however many agreements there are, however many of their handlers are at work at once,
\* however their events are interleaved, and however often they are delivered again.
THEOREM LatestEntryKept == Spec => LatestKept
<1>1. Init => LatestInv
  BY LatestInit
<1>2. LatestInv /\ [Next]_vars => LatestInv'
  BY LatestStep
<1>3. LatestInv /\ [Next]_vars =>
        [agreementEntry'.id >= agreementEntry.id \/ \E a \in Agreements : LooksBack(a)]_vars
  BY LatestStep
<1> QED BY <1>1, <1>2, <1>3, PTL DEF Spec, LatestKept

-----------------------------------------------------------------------------
(* The entries of the client's keys.                                         *)

ClientTypes == {"KeyAdded", "KeyDeleted", "PurposeAdded", "PurposeRemoved", "Deleted"}
ClientRecord == [keys : SUBSET Keys, purpose : BOOLEAN, gone : BOOLEAN]
ClientEvent == [type : ClientTypes, key : Keys, client : ClientRecord]

\* A client's key has an entry with the purpose.
Wants(c, k) == c.purpose /\ k \in c.keys /\ ~c.gone
\* The event makes or deletes the key's entry.
Touches(ev, k) == k \in MadeBy(ev) \/ k \in DeletedBy(ev)

\* The stream of a client: the last event about a key's entry tells whether it has one,
\* and nothing follows the deletion.
History(l) ==
  /\ l \in Seq(ClientEvent) /\ l # <<>>
  /\ \A j \in DOMAIN l : l[j].client.gone <=> l[j].type = "Deleted"
  /\ \A j \in DOMAIN l : l[j].type = "Deleted" => j = Len(l)
  /\ \A k \in Keys : \A j \in DOMAIN l :
       /\ Touches(l[j], k)
       /\ \A i \in DOMAIN l : i > j => ~Touches(l[i], k)
       => (Wants(l[Len(l)].client, k) <=> k \in MadeBy(l[j]))

LEMMA TruthIsLast ==
  ASSUME NEW l \in Seq(ClientEvent), log[Client] = l, l # <<>>
  PROVE  ClientTruth = l[Len(l)].client /\ l[Len(l)] \in ClientEvent /\ Len(l) \in Nat \ {0}
  BY DEF ClientTruth, Last

\* What an event tells of each key, given what was so before.
LEMMA EventTells ==
  ASSUME NEW c \in ClientRecord, ~c.gone, NEW k \in Keys, NEW x \in Keys,
         NEW ev \in ClientEvent, ev.key = k,
         \/ ev.type = "KeyAdded" /\ k \notin c.keys /\ ev.client = [c EXCEPT !.keys = @ \cup {k}]
         \/ ev.type = "KeyDeleted" /\ k \in c.keys /\ ev.client = [c EXCEPT !.keys = @ \ {k}]
         \/ ev.type = "PurposeAdded" /\ ~c.purpose /\ ev.client = [c EXCEPT !.purpose = TRUE]
         \/ ev.type = "PurposeRemoved" /\ c.purpose /\ ev.client = [c EXCEPT !.purpose = FALSE]
         \/ ev.type = "Deleted" /\ ev.client = [c EXCEPT !.gone = TRUE]
  PROVE  /\ Touches(ev, x) => (Wants(ev.client, x) <=> x \in MadeBy(ev))
         /\ ~Touches(ev, x) => (Wants(ev.client, x) <=> Wants(c, x))
         /\ ev.client.gone <=> ev.type = "Deleted"
<1>1. CASE ev.type = "KeyAdded"
  BY <1>1 DEF ClientRecord, ClientEvent, Touches, Wants, MadeBy, DeletedBy
<1>2. CASE ev.type = "KeyDeleted"
  BY <1>2 DEF ClientRecord, ClientEvent, Touches, Wants, MadeBy, DeletedBy
<1>3. CASE ev.type = "PurposeAdded"
  BY <1>3 DEF ClientRecord, ClientEvent, Touches, Wants, MadeBy, DeletedBy
<1>4. CASE ev.type = "PurposeRemoved"
  BY <1>4 DEF ClientRecord, ClientEvent, Touches, Wants, MadeBy, DeletedBy
<1>5. CASE ev.type = "Deleted"
  BY <1>5 DEF ClientRecord, ClientEvent, Touches, Wants, MadeBy, DeletedBy
<1> QED BY <1>1, <1>2, <1>3, <1>4, <1>5

LEMMA HistoryGrows ==
  ASSUME NEW l, History(l), NEW ev \in ClientEvent, ~l[Len(l)].client.gone,
         ev.client.gone <=> ev.type = "Deleted",
         \A x \in Keys :
           /\ Touches(ev, x) => (Wants(ev.client, x) <=> x \in MadeBy(ev))
           /\ ~Touches(ev, x) => (Wants(ev.client, x) <=> Wants(l[Len(l)].client, x))
  PROVE  History(Append(l, ev))
<1> DEFINE m == Append(l, ev)
<1>1. /\ l \in Seq(ClientEvent) /\ m \in Seq(ClientEvent) /\ m # <<>> /\ Len(l) \in Nat \ {0}
      /\ Len(m) = Len(l) + 1 /\ m[Len(m)] = ev
      /\ DOMAIN l = 1..Len(l) /\ DOMAIN m = 1..(Len(l) + 1)
      /\ \A j \in DOMAIN l : m[j] = l[j]
  BY DEF History
<1> HIDE DEF m
<1>2. \A j \in DOMAIN m : m[j].client.gone <=> m[j].type = "Deleted"
  BY <1>1 DEF History
<1>3. \A j \in DOMAIN m : m[j].type = "Deleted" => j = Len(m)
  BY <1>1 DEF History
<1>4. ASSUME NEW k \in Keys, NEW j \in DOMAIN m, Touches(m[j], k),
             \A i \in DOMAIN m : i > j => ~Touches(m[i], k)
      PROVE  Wants(ev.client, k) <=> k \in MadeBy(m[j])
  <2>1. CASE j = Len(m)
    BY <1>1, <1>4, <2>1
  <2>2. CASE j # Len(m)
    <3>1. j \in DOMAIN l /\ m[j] = l[j] /\ Len(m) \in DOMAIN m /\ Len(m) > j
      BY <1>1, <2>2
    <3>2. ~Touches(ev, k)
      BY <1>1, <1>4, <3>1
    <3>3. \A i \in DOMAIN l : i > j => ~Touches(l[i], k)
      BY <1>1, <1>4
    <3>4. Wants(l[Len(l)].client, k) <=> k \in MadeBy(l[j])
      BY <1>4, <3>1, <3>3 DEF History
    <3> QED BY <3>1, <3>2, <3>4
  <2> QED BY <2>1, <2>2
<1>5. m[Len(m)].client = ev.client
  BY <1>1
<1>6. History(m)
  BY <1>1, <1>2, <1>3, <1>4, <1>5 DEF History
<1> QED BY <1>6 DEF m

TokenShapes ==
  /\ DOMAIN tokenEntry = Keys
  /\ \A k \in Keys : DOMAIN tokenEntry[k] = Fields /\ tokenEntry[k].here \in BOOLEAN
\* The entries that there are stay the same; so do their purpose's states.
SameEntries == TokenShapes' /\ \A k \in Keys : tokenEntry'[k].here = tokenEntry[k].here
SamePurposes == \A k \in Keys : tokenEntry'[k].purposeState = tokenEntry[k].purposeState

\* What fills an entry makes none.
LEMMA FillsKeep ==
  ASSUME NEW e, DOMAIN e = Fields, NEW f, NEW g, NEW c, NEW a
  PROVE  /\ FilledByPurpose(e, f, g, c).here = e.here
         /\ DOMAIN FilledByPurpose(e, f, g, c) = Fields
         /\ FilledByPurpose(e, f, g, c).purposeState = Message(Purpose).state
         /\ FilledByAgreement(e, a, c).here = e.here
         /\ FilledByAgreement(e, a, c).purposeState = e.purposeState
         /\ DOMAIN FilledByAgreement(e, a, c) = Fields
  BY DEF FilledByPurpose, FilledByAgreement, Fields

LEMMA RetrievalKeeps ==
  ASSUME NEW e, DOMAIN e = Fields, NEW put, NEW read
  PROVE  /\ SecondRetrieval(e, put, read).here = e.here
         /\ DOMAIN SecondRetrieval(e, put, read) = Fields
  BY DEF SecondRetrieval, Fields

LEMMA PurposeKeepsEntries ==
  ASSUME TokenShapes, PurposeWriter
  PROVE  SameEntries
<1>1. CASE tokenEntry' = tokenEntry
  BY <1>1 DEF SameEntries, TokenShapes
<1>2. CASE PurposeStates
  <2> DEFINE x == IF Message(Purpose).state = "active" THEN "active" ELSE "inactive"
  <2>1. tokenEntry' = [k \in Keys |-> IF tokenEntry[k].here /\ TRUE
                         THEN [tokenEntry[k] EXCEPT !.purposeState = x] ELSE tokenEntry[k]]
    BY <1>2 DEF PurposeStates, UpdateTokens
  <2> HIDE DEF x
  <2> QED BY <2>1 DEF SameEntries, TokenShapes, Fields
<1>3. CASE PurposeFill
  <2>1. CASE tokenEntry' = tokenEntry
    BY <1>1, <2>1
  <2>2. CASE tokenEntry' # tokenEntry
    <3> DEFINE h == hand[Purpose]
               filled(k) == FilledByPurpose(tokenEntry[k], h.found[k], h.now.g, h.now.c)
    <3>1. tokenEntry' = [k \in Keys |-> IF k \in {x \in Keys : h.found[x].here}
                                        THEN filled(k) ELSE tokenEntry[k]]
      BY <1>3, <2>2 DEF PurposeFill
    <3>2. \A k \in Keys : filled(k).here = tokenEntry[k].here /\ DOMAIN filled(k) = Fields
      BY FillsKeep DEF TokenShapes
    <3> HIDE DEF filled
    <3> QED BY <3>1, <3>2 DEF SameEntries, TokenShapes
  <2> QED BY <2>1, <2>2
<1> QED BY <1>1, <1>2, <1>3
        DEF PurposeWriter, PurposeSkip, PurposeStore, PurposeQuery, PurposeReadAgreement,
            PurposeReadCatalog

LEMMA CatalogKeepsEntries ==
  ASSUME TokenShapes, CatalogWriter
  PROVE  SameEntries /\ SamePurposes
<1>1. CASE tokenEntry' = tokenEntry
  BY <1>1 DEF SameEntries, SamePurposes, TokenShapes
<1>2. CASE DescriptorStates
  <2> DEFINE ev == Message(EService)
             of == ev.descriptors[ev.of]
             upd(e) == [e EXCEPT
               !.descriptorState = IF ev.type = "QuotasUpdated" THEN @ ELSE ItemOf(of.state),
               !.lifespan = IF ev.type \in {"Published", "QuotasUpdated"} THEN of.lifespan ELSE @]
  <2>1. tokenEntry' = [k \in Keys |-> IF tokenEntry[k].here /\ tokenEntry[k].descriptor = ev.of
                                      THEN upd(tokenEntry[k]) ELSE tokenEntry[k]]
    BY <1>2 DEF DescriptorStates, UpdateTokens
  <2>2. \A k \in Keys : /\ upd(tokenEntry[k]).here = tokenEntry[k].here
                         /\ upd(tokenEntry[k]).purposeState = tokenEntry[k].purposeState
                         /\ DOMAIN upd(tokenEntry[k]) = Fields
    BY DEF TokenShapes, Fields
  <2> HIDE DEF upd
  <2> QED BY <2>1, <2>2 DEF SameEntries, SamePurposes, TokenShapes
<1>3. CASE PreviousStates
  <2>1. tokenEntry' = [k \in Keys |-> IF tokenEntry[k].here /\ tokenEntry[k].descriptor = Previous
                         THEN [tokenEntry[k] EXCEPT !.descriptorState = "inactive"]
                         ELSE tokenEntry[k]]
    BY <1>3 DEF PreviousStates, UpdateTokens
  <2> QED BY <2>1 DEF SameEntries, SamePurposes, TokenShapes, Fields
<1> QED BY <1>1, <1>2, <1>3
        DEF CatalogWriter, DescriptorSkip, DescriptorStore, PreviousDelete

LEMMA AgreementKeepsEntries ==
  ASSUME TokenShapes, NEW a \in Agreements, AgreementWriter(a)
  PROVE  SameEntries /\ SamePurposes
<1>1. CASE tokenEntry' = tokenEntry
  BY <1>1 DEF SameEntries, SamePurposes, TokenShapes
<1>2. CASE AgreementStates(a)
  <2> DEFINE x == ItemOf(Message(a).state)
  <2>1. tokenEntry' = [k \in Keys |-> IF tokenEntry[k].here /\ tokenEntry[k].linked
                         THEN [tokenEntry[k] EXCEPT !.agreementState = x] ELSE tokenEntry[k]]
    BY <1>2 DEF AgreementStates, UpdateTokens, Linked
  <2> HIDE DEF x
  <2> QED BY <2>1 DEF SameEntries, SamePurposes, TokenShapes, Fields
<1>3. ASSUME NEW c,
             tokenEntry' = [k \in Keys |-> IF tokenEntry[k].here /\ tokenEntry[k].linked
                              THEN FilledByAgreement(tokenEntry[k], a, c) ELSE tokenEntry[k]]
      PROVE  SameEntries /\ SamePurposes
  <2> DEFINE filled(k) == FilledByAgreement(tokenEntry[k], a, c)
  <2>1. \A k \in Keys : /\ filled(k).here = tokenEntry[k].here /\ DOMAIN filled(k) = Fields
                         /\ filled(k).purposeState = tokenEntry[k].purposeState
    BY FillsKeep DEF TokenShapes
  <2>2. tokenEntry' = [k \in Keys |-> IF tokenEntry[k].here /\ tokenEntry[k].linked
                                      THEN filled(k) ELSE tokenEntry[k]]
    BY <1>3
  <2> HIDE DEF filled
  <2> QED BY <2>1, <2>2 DEF SameEntries, SamePurposes, TokenShapes
<1>4. CASE AgreementFill(a)
  <2> DEFINE c == hand[a].now.c
  <2>1. tokenEntry' = [k \in Keys |-> IF tokenEntry[k].here /\ tokenEntry[k].linked
                         THEN FilledByAgreement(tokenEntry[k], a, c) ELSE tokenEntry[k]]
    BY <1>4 DEF AgreementFill, UpdateTokens, Linked
  <2> HIDE DEF c
  <2> QED BY <2>1, <1>3
<1>5. CASE AgreementRefill(a)
  <2> DEFINE c == hand[a].now.c
  <2>1. tokenEntry' = [k \in Keys |-> IF tokenEntry[k].here /\ tokenEntry[k].linked
                         THEN FilledByAgreement(tokenEntry[k], a, c) ELSE tokenEntry[k]]
    BY <1>5 DEF AgreementRefill, UpdateTokens, Linked
  <2> HIDE DEF c
  <2> QED BY <2>1, <1>3
<1> QED BY <1>1, <1>2, <1>4, <1>5
        DEF AgreementWriter, AgreementRead, AgreementSkip, AgreementUpsert, AgreementUpdate,
            AgreementClose, AgreementReadCatalog, AgreementCheck

-----------------------------------------------------------------------------
\* Whether a key has its entry is what the last event says, or an event that touches it
\* is still to be handled: one that is not skipped as older than the client's entry.
Ahead(k, j) == /\ j \in DOMAIN log[Client] /\ j > pos[Client] /\ j >= clientEntry
               /\ Touches(log[Client][j], k)
CaughtUp(k) == tokenEntry[k].here <=> Wants(ClientTruth, k)

\* A deleted client's entry is gone, and events delivered again are not recognised as old;
\* but what is left of its keys' entries the last event deletes.
Erased == clientEntry = 0 =>
  LET ev == log[Client][Len(log[Client])] IN
  /\ ev.type = "Deleted"
  /\ \A k \in Keys : tokenEntry[k].here => k \in DeletedBy(ev)

\* A handler at work.
AtWork ==
  LET h == hand[Client]
      ev == Message(Client)
  IN
  /\ h.at \in {"idle", "delete", "purpose", "agreement", "catalog", "put", "update"}
  /\ h.at = "idle" => h.round = 1
  /\ h.at # "idle" =>
       /\ pos[Client] < Len(log[Client])
       /\ clientEntry = IF ev.type = "Deleted" THEN 0 ELSE Version(Client)
  /\ h.at = "delete" => DeletedBy(ev) # {}
  /\ h.at \notin {"idle", "delete"} => MadeBy(ev) # {}
  /\ h.at = "update" => h.round # 1
  /\ h.round # 1 => \A k \in MadeBy(ev) : tokenEntry[k].here

EntriesInv ==
  /\ Shapes /\ TokenShapes
  /\ DOMAIN log = Streams /\ History(log[Client])
  /\ pos[Client] \in 0..Len(log[Client]) /\ clientEntry \in 0..Len(log[Client])
  /\ \A k \in Keys : CaughtUp(k) \/ \E j \in DOMAIN log[Client] : Ahead(k, j)
  /\ Erased /\ AtWork

\* An event makes entries, or deletes them, or leaves them alone.
LEMMA MakesOrDeletes ==
  ASSUME NEW ev \in ClientEvent
  PROVE  /\ MadeBy(ev) = {} \/ DeletedBy(ev) = {}
         /\ ev.type = "Deleted" => MadeBy(ev) = {}
         /\ MadeBy(ev) \subseteq Keys /\ DeletedBy(ev) \subseteq Keys
<1>1. CASE ev.type = "KeyAdded"
  BY <1>1 DEF ClientEvent, ClientRecord, MadeBy, DeletedBy
<1>2. CASE ev.type = "KeyDeleted"
  BY <1>2 DEF ClientEvent, ClientRecord, MadeBy, DeletedBy
<1>3. CASE ev.type = "PurposeAdded"
  BY <1>3 DEF ClientEvent, ClientRecord, MadeBy, DeletedBy
<1>4. CASE ev.type = "PurposeRemoved"
  BY <1>4 DEF ClientEvent, ClientRecord, MadeBy, DeletedBy
<1>5. CASE ev.type = "Deleted"
  BY <1>5 DEF ClientEvent, ClientRecord, MadeBy, DeletedBy
<1> QED BY <1>1, <1>2, <1>3, <1>4, <1>5 DEF ClientEvent, ClientTypes

\* What the invariant says of the client's stream.
LEMMA StreamFacts ==
  ASSUME EntriesInv
  PROVE  /\ log[Client] \in Seq(ClientEvent) /\ Len(log[Client]) \in Nat \ {0}
         /\ DOMAIN log[Client] = 1..Len(log[Client])
         /\ pos[Client] \in Nat /\ pos[Client] <= Len(log[Client])
         /\ clientEntry \in Nat /\ clientEntry <= Len(log[Client])
         /\ Version(Client) = pos[Client] + 1
         /\ ClientTruth = log[Client][Len(log[Client])].client
         /\ pos[Client] < Len(log[Client]) =>
              /\ Version(Client) \in DOMAIN log[Client]
              /\ Message(Client) = log[Client][Version(Client)]
              /\ Message(Client) \in ClientEvent
  BY TruthIsLast DEF EntriesInv, History, Version, Message

\* The steps of the other writers.
LEMMA OthersKeepEntries ==
  ASSUME EntriesInv, Shapes', SameEntries, UNCHANGED <<log, clientEntry>>,
         hand'[Client] = hand[Client], pos'[Client] = pos[Client]
  PROVE  EntriesInv'
<1>1. ClientTruth' = ClientTruth /\ Message(Client)' = Message(Client)
      /\ Version(Client)' = Version(Client)
  BY DEF ClientTruth, Message, Version
<1>2. \A k \in Keys : /\ CaughtUp(k) => CaughtUp(k)'
                      /\ \A j \in DOMAIN log[Client] : Ahead(k, j) => Ahead(k, j)'
  BY <1>1 DEF CaughtUp, Ahead, SameEntries
<1>3. Erased'
  BY DEF EntriesInv, Erased, SameEntries
<1>4. AtWork'
  <2>1. pos[Client] < Len(log[Client]) => MadeBy(Message(Client)) \subseteq Keys
    BY StreamFacts, MakesOrDeletes
  <2> QED BY <1>1, <2>1 DEF EntriesInv, AtWork, SameEntries
<1> QED BY <1>2, <1>3, <1>4 DEF EntriesInv, SameEntries

\* The end of an event: its entries are made or deleted, and the others as they were.
LEMMA Done ==
  ASSUME EntriesInv, pos[Client] < Len(log[Client]),
         NEW ev \in ClientEvent, ev = Message(Client),
         log' = log, Shapes', TokenShapes', hand'[Client] = Idle,
         pos'[Client] = Version(Client), clientEntry' \in Nat, clientEntry' <= Version(Client),
         \A k \in Keys : /\ k \in MadeBy(ev) => tokenEntry'[k].here
                         /\ k \in DeletedBy(ev) => ~tokenEntry'[k].here
                         /\ ~Touches(ev, k) => tokenEntry'[k].here = tokenEntry[k].here,
         Erased'
  PROVE  EntriesInv'
<1> DEFINE l == log[Client]
           v == Version(Client)
<1>1. /\ l \in Seq(ClientEvent) /\ Len(l) \in Nat \ {0} /\ DOMAIN l = 1..Len(l) /\ History(l)
      /\ v = pos[Client] + 1 /\ v \in DOMAIN l /\ ev = l[v] /\ v \in Nat
      /\ ClientTruth = l[Len(l)].client /\ clientEntry' <= v /\ clientEntry' \in Nat
      /\ pos'[Client] = v /\ pos[Client] \in Nat /\ clientEntry \in Nat
  BY StreamFacts DEF EntriesInv
<1>2. ClientTruth' = ClientTruth
  BY DEF ClientTruth
<1> HIDE DEF l, v
<1>3. ASSUME NEW k \in Keys
      PROVE  CaughtUp(k)' \/ \E j \in DOMAIN l : Ahead(k, j)'
  <2>0. \A j \in DOMAIN l : Touches(l[j], k) /\ j > v => Ahead(k, j)'
    BY <1>1 DEF Ahead, l
  <2>1. CASE Touches(ev, k)
    <3>1. CASE \E i \in DOMAIN l : i > v /\ Touches(l[i], k)
      BY <2>0, <3>1
    <3>2. CASE \A i \in DOMAIN l : i > v => ~Touches(l[i], k)
      <4>1. Wants(l[Len(l)].client, k) <=> k \in MadeBy(ev)
        BY <1>1, <2>1, <3>2 DEF History
      <4>2. tokenEntry'[k].here <=> k \in MadeBy(ev)
        BY <2>1, MakesOrDeletes DEF Touches, TokenShapes
      <4> QED BY <1>1, <1>2, <4>1, <4>2 DEF CaughtUp
    <3> QED BY <3>1, <3>2
  <2>2. CASE ~Touches(ev, k)
    <3>1. CASE CaughtUp(k)
      BY <1>2, <2>2, <3>1 DEF CaughtUp
    <3>2. ASSUME NEW j \in DOMAIN l, Ahead(k, j)
          PROVE  Ahead(k, j)'
      <4>1. Touches(l[j], k) /\ j > pos[Client] /\ j \in Nat
        BY <1>1, <3>2 DEF Ahead, l
      <4>2. j # v
        BY <1>1, <2>2, <4>1
      <4> QED BY <1>1, <2>0, <4>1, <4>2
    <3> QED BY <3>1, <3>2 DEF EntriesInv, l
  <2> QED BY <2>1, <2>2
<1>4. AtWork'
  BY DEF AtWork, Idle
<1>5. pos'[Client] \in 0..Len(log'[Client]) /\ clientEntry' \in 0..Len(log'[Client])
  BY <1>1 DEF l
<1> QED BY <1>3, <1>4, <1>5 DEF EntriesInv, l

\* A step in the middle of an event: only its own entries change.
LEMMA Midway ==
  ASSUME EntriesInv, pos[Client] < Len(log[Client]), log' = log, Shapes', TokenShapes',
         pos'[Client] = pos[Client], clientEntry' \in Nat, clientEntry' <= Version(Client),
         \A k \in Keys : tokenEntry'[k].here = tokenEntry[k].here \/ Touches(Message(Client), k),
         Erased', AtWork'
  PROVE  EntriesInv'
<1>1. /\ Version(Client) = pos[Client] + 1 /\ Version(Client) \in DOMAIN log[Client]
      /\ Message(Client) = log[Client][Version(Client)]
      /\ DOMAIN log[Client] = 1..Len(log[Client]) /\ Len(log[Client]) \in Nat
      /\ pos[Client] \in Nat /\ clientEntry \in Nat
  BY StreamFacts
<1>2. ClientTruth' = ClientTruth
  BY DEF ClientTruth
<1>3. ASSUME NEW k \in Keys
      PROVE  CaughtUp(k)' \/ \E j \in DOMAIN log[Client] : Ahead(k, j)'
  <2>1. CASE Touches(Message(Client), k)
    <3>1. PICK v \in DOMAIN log[Client] : v = Version(Client)
      BY <1>1
    <3>2. Ahead(k, v)'
      BY <1>1, <2>1, <3>1 DEF Ahead
    <3> QED BY <3>2
  <2>2. ASSUME NEW j \in DOMAIN log[Client], Ahead(k, j)
        PROVE  Ahead(k, j)'
    BY <1>1, <2>2 DEF Ahead
  <2>3. CASE ~Touches(Message(Client), k) /\ CaughtUp(k)
    BY <1>2, <2>3 DEF CaughtUp
  <2> QED BY <2>1, <2>2, <2>3 DEF EntriesInv
<1>4. clientEntry' \in 0..Len(log'[Client])
  BY <1>1
<1> QED BY <1>3, <1>4 DEF EntriesInv

\* At the deletion of the client no entry is left but those it deletes.
LEMMA NothingElseLeft ==
  ASSUME EntriesInv, pos[Client] < Len(log[Client]), Message(Client).type = "Deleted"
  PROVE  LET ev == log[Client][Len(log[Client])] IN
         /\ ev = Message(Client)
         /\ \A k \in Keys : tokenEntry[k].here => k \in DeletedBy(ev)
<1> DEFINE ev == log[Client][Len(log[Client])]
<1>1. Version(Client) = Len(log[Client]) /\ ev = Message(Client) /\ ev.client.gone
      /\ ev \in ClientEvent /\ Len(log[Client]) \in Nat
      /\ DOMAIN log[Client] = 1..Len(log[Client])
  BY StreamFacts DEF EntriesInv, History
<1>2. ASSUME NEW k \in Keys, tokenEntry[k].here
      PROVE  k \in DeletedBy(ev)
  <2>1. ~CaughtUp(k)
    BY <1>1, <1>2, StreamFacts DEF CaughtUp, Wants
  <2>2. PICK j \in DOMAIN log[Client] : Ahead(k, j)
    BY <2>1 DEF EntriesInv
  <2>3. j = Len(log[Client])
    BY <1>1, <2>2, StreamFacts DEF Ahead
  <2> QED BY <1>1, <2>2, <2>3, MakesOrDeletes DEF Ahead, Touches
<1> QED BY <1>1, <1>2

\* A skipped event leaves nothing undone: a later one makes or deletes the entry.
LEMMA SkipLeavesAhead ==
  ASSUME EntriesInv, ClientSkip, NEW k \in Keys, NEW j \in DOMAIN log[Client], Ahead(k, j),
         tokenEntry[k].here \/ ~CaughtUp(k)
  PROVE  \E i \in DOMAIN log[Client] : Ahead(k, i)'
<1> DEFINE l == log[Client]
           v == Version(Client)
           ev == Message(Client)
<1>1. /\ l \in Seq(ClientEvent) /\ Len(l) \in Nat \ {0} /\ DOMAIN l = 1..Len(l) /\ History(l)
      /\ v = pos[Client] + 1 /\ v \in DOMAIN l /\ ev = l[v] /\ v \in Nat /\ ev \in ClientEvent
      /\ clientEntry \in Nat /\ pos[Client] \in Nat
  BY StreamFacts DEF EntriesInv, ClientSkip, Takes
<1>2. /\ pos'[Client] = v /\ log' = log /\ clientEntry' = clientEntry
  BY HandledStep, StreamsAreDistinct, <1>1
     DEF ClientSkip, EntriesInv, platform, Handled, Shapes, Version
<1>3. clientEntry > v \/ (ev.type = "PurposeRemoved" /\ clientEntry = 0)
  BY DEF ClientSkip, ClientSkips, Erased, EntriesInv
<1> HIDE DEF l, v, ev
<1>4. Touches(l[j], k) /\ j > pos[Client] /\ j >= clientEntry /\ j \in Nat /\ j \in DOMAIN l
  BY <1>1 DEF Ahead, l
<1>5. CASE j # v
  BY <1>1, <1>2, <1>4, <1>5 DEF Ahead, l
<1>6. CASE j = v
  <2>1. clientEntry = 0 /\ ev.type = "PurposeRemoved"
    BY <1>1, <1>3, <1>4, <1>6
  <2>2. l[Len(l)].type = "Deleted"
        /\ \A x \in Keys : tokenEntry[x].here => x \in DeletedBy(l[Len(l)])
    BY <2>1 DEF EntriesInv, Erased, l
  <2>3. l[Len(l)].client.gone /\ v # Len(l)
    BY <1>1, <2>1, <2>2 DEF History
  <2>4. tokenEntry[k].here
    BY <2>3, StreamFacts DEF CaughtUp, Wants, EntriesInv, TokenShapes, l
  <2>5. PICK i \in DOMAIN l : i = Len(l)
    BY <1>1
  <2>6. Ahead(k, i)'
    BY <1>1, <1>2, <2>1, <2>2, <2>3, <2>4, <2>5 DEF Ahead, Touches, l
  <2> QED BY <2>6 DEF l
<1> QED BY <1>5, <1>6

LEMMA SkipKeepsEntries ==
  ASSUME EntriesInv, ClientSkip
  PROVE  EntriesInv'
<1>1. /\ Version(Client) = pos[Client] + 1 /\ Version(Client) \in DOMAIN log[Client]
      /\ DOMAIN log[Client] = 1..Len(log[Client]) /\ Len(log[Client]) \in Nat
  BY StreamFacts DEF ClientSkip, Takes
<1>2. /\ Shapes' /\ hand'[Client] = Idle /\ pos'[Client] = Version(Client) /\ log' = log
      /\ tokenEntry' = tokenEntry /\ clientEntry' = clientEntry
  BY HandledStep, StreamsAreDistinct DEF ClientSkip, EntriesInv, platform, Handled, Shapes, Version
<1>3. \A k \in Keys : CaughtUp(k) => CaughtUp(k)'
  BY <1>2 DEF CaughtUp, ClientTruth
<1>4. ASSUME NEW k \in Keys
      PROVE  CaughtUp(k)' \/ \E i \in DOMAIN log[Client] : Ahead(k, i)'
  <2>1. CASE CaughtUp(k)
    BY <1>3, <2>1
  <2>2. CASE ~CaughtUp(k)
    <3>1. PICK j \in DOMAIN log[Client] : Ahead(k, j)
      BY <2>2 DEF EntriesInv
    <3> QED BY <2>2, <3>1, SkipLeavesAhead
  <2> QED BY <2>1, <2>2
<1>5. Erased' /\ AtWork' /\ TokenShapes'
  BY <1>2 DEF EntriesInv, Erased, AtWork, Idle, TokenShapes
<1>6. pos'[Client] \in 0..Len(log'[Client])
  BY <1>1, <1>2
<1> QED BY <1>2, <1>4, <1>5, <1>6 DEF EntriesInv

LEMMA StoreKeepsEntries ==
  ASSUME EntriesInv, ClientStore
  PROVE  EntriesInv'
<1> DEFINE ev == Message(Client)
<1>1. /\ pos[Client] < Len(log[Client]) /\ ev \in ClientEvent
      /\ Version(Client) \in Nat \ {0} /\ Version(Client) \in DOMAIN log[Client]
      /\ hand[Client].at = "idle"
  BY StreamFacts DEF ClientStore, Takes
<1>2. /\ log' = log /\ tokenEntry' = tokenEntry
      /\ clientEntry' = IF ev.type = "Deleted" THEN 0 ELSE Version(Client)
  BY DEF ClientStore
<1>3. Erased' /\ TokenShapes'
  BY <1>1, <1>2, NothingElseLeft DEF Erased, EntriesInv, TokenShapes
<1>4. CASE Handled(Client) /\ MadeBy(ev) = {} /\ DeletedBy(ev) = {}
  <2>1. Shapes' /\ hand'[Client] = Idle /\ pos'[Client] = Version(Client)
    BY <1>4, HandledStep, StreamsAreDistinct DEF EntriesInv, Handled, Shapes, Version
  <2> HIDE DEF ev
  <2> QED BY <1>1, <1>2, <1>3, <1>4, <2>1, Done DEF ev
<1>5. ASSUME NEW step \in {"delete", "purpose"}, Go(Client, step),
             step = "delete" => DeletedBy(ev) # {}, step = "purpose" => MadeBy(ev) # {}
      PROVE  EntriesInv'
  <2>1. Shapes' /\ hand'[Client] = [Idle EXCEPT !.at = step] /\ pos' = pos
    BY <1>5, GoStep, StreamsAreDistinct DEF EntriesInv
  <2>2. hand'[Client].at = step /\ hand'[Client].round = 1
    BY <2>1 DEF Idle
  <2>3. Message(Client)' = ev /\ Version(Client)' = Version(Client)
    BY <1>2, <2>1 DEF Message, Version
  <2>4. AtWork'
    BY <1>1, <1>2, <1>5, <2>1, <2>2, <2>3 DEF AtWork
  <2> QED BY <1>1, <1>2, <1>3, <2>1, <2>4, Midway
<1> QED BY <1>4, <1>5 DEF ClientStore

LEMMA DeleteKeepsEntries ==
  ASSUME EntriesInv, ClientDelete
  PROVE  EntriesInv'
<1> DEFINE ev == Message(Client)
<1>1. /\ pos[Client] < Len(log[Client]) /\ DeletedBy(ev) # {}
      /\ clientEntry = IF ev.type = "Deleted" THEN 0 ELSE Version(Client)
  BY DEF ClientDelete, EntriesInv, AtWork
<1>2. /\ ev \in ClientEvent /\ MadeBy(ev) = {} /\ Version(Client) \in Nat
      /\ log[Client][Len(log[Client])] \in ClientEvent
  BY <1>1, StreamFacts, MakesOrDeletes
<1>3. /\ log' = log /\ clientEntry' = clientEntry
      /\ tokenEntry' = [k \in Keys |-> IF k \in DeletedBy(ev) THEN NoToken ELSE tokenEntry[k]]
  BY DEF ClientDelete, platform
<1>4. Shapes' /\ hand'[Client] = Idle /\ pos'[Client] = Version(Client)
  BY HandledStep, StreamsAreDistinct DEF ClientDelete, EntriesInv, Handled, Shapes, Version
<1>5. /\ TokenShapes'
      /\ \A k \in Keys : /\ k \in DeletedBy(ev) => ~tokenEntry'[k].here
                         /\ k \notin DeletedBy(ev) => tokenEntry'[k].here = tokenEntry[k].here
  BY <1>3 DEF EntriesInv, TokenShapes, NoToken, Fields
<1>6. Erased'
  BY <1>3, <1>5 DEF EntriesInv, Erased
<1>7. clientEntry' \in Nat /\ clientEntry' <= Version(Client)
  BY <1>1, <1>2, <1>3
<1> HIDE DEF ev
<1> QED BY <1>1, <1>2, <1>3, <1>4, <1>5, <1>6, <1>7, Done DEF ev, Touches

\* The reads: the hand moves on.
LEMMA ReadKeepsEntries ==
  ASSUME EntriesInv, ClientReadPurpose \/ ClientReadAgreement \/ ClientReadCatalog
  PROVE  EntriesInv'
<1>1. PICK at \in {"purpose", "agreement", "catalog", "put", "update"} :
        /\ hand'[Client].at = at /\ hand'[Client].round = hand[Client].round
        /\ at = "update" => hand[Client].round # 1
  BY StreamsAreDistinct
     DEF ClientReadPurpose, ClientReadAgreement, ClientReadCatalog, Retrieved, EntriesInv, Shapes,
         HandFields
<1>2. /\ hand[Client].at \in {"purpose", "agreement", "catalog"}
      /\ UNCHANGED <<log, pos, clientEntry, tokenEntry>>
  BY DEF ClientReadPurpose, ClientReadAgreement, ClientReadCatalog, platform
<1>3. Shapes'
  BY ClientFrame DEF EntriesInv, ClientWriter, Frame
<1>4. ClientTruth' = ClientTruth /\ Message(Client)' = Message(Client)
      /\ Version(Client)' = Version(Client)
  BY <1>2 DEF ClientTruth, Message, Version
<1>5. AtWork'
  BY <1>1, <1>2, <1>4 DEF EntriesInv, AtWork
<1>6. \A k \in Keys : /\ CaughtUp(k) => CaughtUp(k)'
                      /\ \A j \in DOMAIN log[Client] : Ahead(k, j) => Ahead(k, j)'
  BY <1>2, <1>4 DEF CaughtUp, Ahead
<1>7. Erased' /\ TokenShapes'
  BY <1>2 DEF EntriesInv, Erased, TokenShapes
<1> QED BY <1>2, <1>3, <1>5, <1>6, <1>7 DEF EntriesInv

LEMMA PutKeepsEntries ==
  ASSUME EntriesInv, ClientPut
  PROVE  EntriesInv'
<1> DEFINE ev == Message(Client)
<1>1. /\ pos[Client] < Len(log[Client]) /\ MadeBy(ev) # {}
      /\ clientEntry = IF ev.type = "Deleted" THEN 0 ELSE Version(Client)
  BY DEF ClientPut, EntriesInv, AtWork
<1>2. ev \in ClientEvent /\ ev.type # "Deleted" /\ Version(Client) \in Nat \ {0}
      /\ MadeBy(ev) \subseteq Keys
  BY <1>1, StreamFacts, MakesOrDeletes
<1>3. /\ log' = log /\ clientEntry' = clientEntry /\ pos' = pos
      /\ tokenEntry' = [k \in Keys |-> IF k \in MadeBy(ev) THEN Made(hand[Client].now)
                                       ELSE tokenEntry[k]]
  BY DEF ClientPut, platform
<1>4. Shapes'
  BY ClientFrame DEF EntriesInv, ClientWriter, Frame
<1>5. hand'[Client].at = "purpose"
  BY StreamsAreDistinct DEF ClientPut, EntriesInv, Shapes, HandFields
<1>6. /\ TokenShapes'
      /\ \A k \in Keys : /\ k \in MadeBy(ev) => tokenEntry'[k].here
                         /\ k \notin MadeBy(ev) => tokenEntry'[k].here = tokenEntry[k].here
  BY <1>3 DEF EntriesInv, TokenShapes, Made, Fields
<1>7. Message(Client)' = ev /\ Version(Client)' = Version(Client)
  BY <1>3 DEF Message, Version
<1>8. Erased'
  BY <1>1, <1>2, <1>3 DEF Erased
<1>9. AtWork'
  BY <1>1, <1>2, <1>3, <1>5, <1>6, <1>7 DEF AtWork
<1> HIDE DEF ev
<1> QED BY <1>1, <1>2, <1>3, <1>4, <1>6, <1>8, <1>9, Midway DEF ev, Touches

LEMMA UpdateKeepsEntries ==
  ASSUME EntriesInv, ClientUpdate
  PROVE  EntriesInv'
<1> DEFINE ev == Message(Client)
           again(k) == SecondRetrieval(tokenEntry[k], Made(hand[Client].before),
                                       hand[Client].now)
<1>1. /\ pos[Client] < Len(log[Client]) /\ MadeBy(ev) # {}
      /\ clientEntry = IF ev.type = "Deleted" THEN 0 ELSE Version(Client)
      /\ \A k \in MadeBy(ev) : tokenEntry[k].here
  BY DEF ClientUpdate, EntriesInv, AtWork
<1>2. ev \in ClientEvent /\ ev.type # "Deleted" /\ Version(Client) \in Nat \ {0}
      /\ MadeBy(ev) \subseteq Keys /\ DeletedBy(ev) = {}
  BY <1>1, StreamFacts, MakesOrDeletes
<1>3. /\ log' = log /\ clientEntry' = clientEntry
      /\ tokenEntry' = [k \in Keys |-> IF k \in MadeBy(ev) THEN again(k) ELSE tokenEntry[k]]
  BY DEF ClientUpdate, platform
<1>4. Shapes' /\ hand'[Client] = Idle /\ pos'[Client] = Version(Client)
  BY HandledStep, StreamsAreDistinct DEF ClientUpdate, EntriesInv, Handled, Shapes, Version
<1>5. \A k \in Keys : again(k).here = tokenEntry[k].here /\ DOMAIN again(k) = Fields
  BY RetrievalKeeps DEF EntriesInv, TokenShapes
<1> HIDE DEF again, ev
<1>6. TokenShapes' /\ \A k \in Keys : tokenEntry'[k].here = tokenEntry[k].here
  BY <1>3, <1>5 DEF EntriesInv, TokenShapes
<1>7. Erased'
  BY <1>1, <1>2, <1>3 DEF Erased
<1> QED BY <1>1, <1>2, <1>3, <1>4, <1>6, <1>7, Done DEF ev

\* The domain appends events to one stream.
LEMMA ClientEventAdded ==
  ASSUME EntriesInv, NEW k \in Keys, NEW type \in ClientTypes, StoreClient(type, k)
  PROVE  \E ev \in ClientEvent :
           /\ Store(Client, ev) /\ History(Append(log[Client], ev))
           /\ \A x \in Keys : ~Touches(ev, x) => (Wants(ev.client, x) <=> Wants(ClientTruth, x))
<1> DEFINE c == ClientTruth
           l == log[Client]
           e(client) == [type |-> type, key |-> k, client |-> client]
<1>1. /\ l \in Seq(ClientEvent) /\ Len(l) \in Nat \ {0} /\ c = l[Len(l)].client
      /\ c \in ClientRecord /\ History(l) /\ ~c.gone
  <2>1. l[Len(l)] \in ClientEvent
    BY StreamFacts
  <2> QED BY <2>1, StreamFacts DEF EntriesInv, ClientEvent, StoreClient
<1> HIDE DEF c
<1>2. ASSUME NEW client \in ClientRecord, Store(Client, e(client)),
             \/ type = "KeyAdded" /\ k \notin c.keys /\ client = [c EXCEPT !.keys = @ \cup {k}]
             \/ type = "KeyDeleted" /\ k \in c.keys /\ client = [c EXCEPT !.keys = @ \ {k}]
             \/ type = "PurposeAdded" /\ ~c.purpose /\ client = [c EXCEPT !.purpose = TRUE]
             \/ type = "PurposeRemoved" /\ c.purpose /\ client = [c EXCEPT !.purpose = FALSE]
             \/ type = "Deleted" /\ client = [c EXCEPT !.gone = TRUE]
      PROVE  \E ev \in ClientEvent :
               /\ Store(Client, ev) /\ History(Append(l, ev))
               /\ \A x \in Keys : ~Touches(ev, x) => (Wants(ev.client, x) <=> Wants(c, x))
  <2>1. PICK ev : ev = e(client)
    OBVIOUS
  <2>2. ev \in ClientEvent /\ ev.type = type /\ ev.key = k /\ ev.client = client
    BY <2>1 DEF ClientEvent
  <2>3. \A x \in Keys :
           /\ Touches(ev, x) => (Wants(ev.client, x) <=> x \in MadeBy(ev))
           /\ ~Touches(ev, x) => (Wants(ev.client, x) <=> Wants(c, x))
           /\ ev.client.gone <=> ev.type = "Deleted"
    <3>1. \/ ev.type = "KeyAdded" /\ k \notin c.keys /\ ev.client = [c EXCEPT !.keys = @ \cup {k}]
          \/ ev.type = "KeyDeleted" /\ k \in c.keys /\ ev.client = [c EXCEPT !.keys = @ \ {k}]
          \/ ev.type = "PurposeAdded" /\ ~c.purpose /\ ev.client = [c EXCEPT !.purpose = TRUE]
          \/ ev.type = "PurposeRemoved" /\ c.purpose /\ ev.client = [c EXCEPT !.purpose = FALSE]
          \/ ev.type = "Deleted" /\ ev.client = [c EXCEPT !.gone = TRUE]
      BY <1>2, <2>2
    <3>2. c \in ClientRecord /\ ~c.gone
      BY <1>1
    <3>3. ASSUME NEW x \in Keys
          PROVE  /\ Touches(ev, x) => (Wants(ev.client, x) <=> x \in MadeBy(ev))
                 /\ ~Touches(ev, x) => (Wants(ev.client, x) <=> Wants(c, x))
                 /\ ev.client.gone <=> ev.type = "Deleted"
      BY <2>2, <3>1, <3>2, EventTells
    <3> QED BY <3>3
  <2> HIDE DEF l
  <2>4. History(Append(l, ev))
    BY <1>1, <2>2, <2>3, HistoryGrows
  <2> QED BY <1>2, <2>1, <2>2, <2>3, <2>4
<1>3. CASE type = "KeyAdded"
  <2>1. Store(Client, e([c EXCEPT !.keys = @ \cup {k}])) /\ k \notin c.keys
    BY <1>3 DEF StoreClient, c
  <2>2. [c EXCEPT !.keys = @ \cup {k}] \in ClientRecord
    BY <1>1 DEF ClientRecord
  <2> QED BY <1>2, <1>3, <2>1, <2>2 DEF c
<1>4. CASE type = "KeyDeleted"
  <2>1. Store(Client, e([c EXCEPT !.keys = @ \ {k}])) /\ k \in c.keys
    BY <1>4 DEF StoreClient, c
  <2>2. [c EXCEPT !.keys = @ \ {k}] \in ClientRecord
    BY <1>1 DEF ClientRecord
  <2> QED BY <1>2, <1>4, <2>1, <2>2 DEF c
<1>5. CASE type = "PurposeAdded"
  <2>1. Store(Client, e([c EXCEPT !.purpose = TRUE])) /\ ~c.purpose
    BY <1>5 DEF StoreClient, c
  <2>2. [c EXCEPT !.purpose = TRUE] \in ClientRecord
    BY <1>1 DEF ClientRecord
  <2> QED BY <1>2, <1>5, <2>1, <2>2 DEF c
<1>6. CASE type = "PurposeRemoved"
  <2>1. Store(Client, e([c EXCEPT !.purpose = FALSE])) /\ c.purpose
    BY <1>6 DEF StoreClient, c
  <2>2. [c EXCEPT !.purpose = FALSE] \in ClientRecord
    BY <1>1 DEF ClientRecord
  <2> QED BY <1>2, <1>6, <2>1, <2>2 DEF c
<1>7. CASE type = "Deleted"
  <2>1. Store(Client, e([c EXCEPT !.gone = TRUE]))
    BY <1>7 DEF StoreClient, c
  <2>2. [c EXCEPT !.gone = TRUE] \in ClientRecord
    BY <1>1 DEF ClientRecord
  <2> QED BY <1>2, <1>7, <2>1, <2>2 DEF c
<1> QED BY <1>3, <1>4, <1>5, <1>6, <1>7 DEF ClientTypes

LEMMA StreamGrows ==
  ASSUME EntriesInv, NEW s, s # Client, NEW ev, Store(s, ev)
  PROVE  EntriesInv'
<1>1. log'[Client] = log[Client] /\ DOMAIN log' = Streams
  BY StreamsAreDistinct DEF Store, EntriesInv
<1>2. UNCHANGED <<pos, clientEntry, tokenEntry, hand>>
  BY DEF Store, platform
<1>3. ClientTruth' = ClientTruth /\ Message(Client)' = Message(Client)
      /\ Version(Client)' = Version(Client)
  BY <1>1, <1>2 DEF ClientTruth, Message, Version
<1>4. \A k \in Keys : /\ CaughtUp(k) => CaughtUp(k)'
                      /\ \A j \in DOMAIN log[Client] : Ahead(k, j) => Ahead(k, j)'
  BY <1>1, <1>2, <1>3 DEF CaughtUp, Ahead
<1>5. Erased' /\ AtWork' /\ Shapes' /\ TokenShapes'
  BY <1>1, <1>2, <1>3 DEF EntriesInv, Erased, AtWork, Shapes, TokenShapes
<1> QED BY <1>1, <1>2, <1>4, <1>5 DEF EntriesInv

LEMMA ClientStreamGrows ==
  ASSUME EntriesInv, NEW ev \in ClientEvent, Store(Client, ev), ~ClientTruth.gone,
         History(Append(log[Client], ev)),
         \A x \in Keys : ~Touches(ev, x) => (Wants(ev.client, x) <=> Wants(ClientTruth, x))
  PROVE  EntriesInv'
<1> DEFINE l == log[Client]
           m == Append(l, ev)
<1>1. log'[Client] = m /\ DOMAIN log' = Streams /\ UNCHANGED <<pos, clientEntry, tokenEntry, hand>>
  BY StreamsAreDistinct DEF Store, EntriesInv, platform
<1>2. /\ l \in Seq(ClientEvent) /\ m \in Seq(ClientEvent) /\ m # <<>> /\ Len(l) \in Nat \ {0}
      /\ Len(m) = Len(l) + 1 /\ m[Len(m)] = ev
      /\ DOMAIN l = 1..Len(l) /\ DOMAIN m = 1..(Len(l) + 1)
      /\ \A j \in DOMAIN l : m[j] = l[j]
      /\ pos[Client] \in Nat /\ pos[Client] <= Len(l)
      /\ clientEntry \in Nat /\ clientEntry <= Len(l)
      /\ ClientTruth = l[Len(l)].client
  BY StreamFacts
<1> HIDE DEF l, m
<1>3. ClientTruth' = ev.client
  BY <1>1, <1>2 DEF ClientTruth, Last
<1>4. clientEntry # 0
  BY <1>2, StreamFacts DEF EntriesInv, Erased, History, l
<1>5. ASSUME NEW k \in Keys
      PROVE  CaughtUp(k)' \/ \E j \in DOMAIN m : Ahead(k, j)'
  <2>1. CASE Touches(ev, k)
    <3>1. PICK j \in DOMAIN m : j = Len(m)
      BY <1>2
    <3>2. Ahead(k, j)'
      BY <1>1, <1>2, <2>1, <3>1 DEF Ahead
    <3> QED BY <3>2
  <2>2. ASSUME NEW j \in DOMAIN l, Ahead(k, j)
        PROVE  j \in DOMAIN m /\ Ahead(k, j)'
    BY <1>1, <1>2, <2>2 DEF Ahead, l
  <2>3. CASE ~Touches(ev, k) /\ CaughtUp(k)
    BY <1>1, <1>3, <2>3 DEF CaughtUp
  <2> QED BY <2>1, <2>2, <2>3 DEF EntriesInv, l
<1>6. AtWork'
  <2>1. CASE hand[Client].at = "idle"
    BY <1>1, <2>1 DEF EntriesInv, AtWork
  <2>2. CASE hand[Client].at # "idle"
    <3>1. pos[Client] < Len(l)
      BY <2>2 DEF EntriesInv, AtWork, l
    <3>0. m[pos[Client] + 1] = l[pos[Client] + 1]
      BY <1>2, <3>1
    <3>2. Message(Client)' = Message(Client) /\ Version(Client)' = Version(Client)
      BY <1>1, <3>0 DEF Message, Version, l
    <3>3. pos'[Client] < Len(log'[Client])
      BY <1>1, <1>2, <3>1
    <3> QED BY <1>1, <3>2, <3>3, <2>2 DEF EntriesInv, AtWork
  <2> QED BY <2>1, <2>2
<1>7. Erased'
  BY <1>1, <1>4 DEF Erased
<1>8. Shapes' /\ TokenShapes'
  BY <1>1 DEF EntriesInv, Shapes, TokenShapes
<1>9. History(log'[Client])
  BY <1>1 DEF l, m
<1> QED BY <1>1, <1>2, <1>5, <1>7, <1>6, <1>8, <1>9 DEF EntriesInv

LEMMA DomainKeepsEntries ==
  ASSUME EntriesInv, Domain
  PROVE  EntriesInv'
<1>1. ASSUME NEW k \in Keys, NEW type \in ClientTypes, StoreClient(type, k)
      PROVE  EntriesInv'
  <2>1. ~ClientTruth.gone
    BY <1>1 DEF StoreClient
  <2> QED BY <1>1, <2>1, ClientEventAdded, ClientStreamGrows
<1>2. (CHOOSE k \in Keys : TRUE) \in Keys
  <2>1. log[Client][Len(log[Client])] \in ClientEvent
    BY StreamFacts
  <2>2. \E k \in Keys : TRUE
    BY <2>1 DEF ClientEvent
  <2> QED BY <2>2
<1>3. ASSUME NEW type, NEW state, StorePurpose(type, state)
      PROVE  EntriesInv'
  BY <1>3, StreamGrows, StreamsAreDistinct DEF StorePurpose
<1>4. ASSUME NEW type, NEW state, StoreAgreement(type, state)
      PROVE  EntriesInv'
  <2>1. LatestAgreement \in Nat
    <3>1. IsFiniteSet(Agreements)
      BY FS_Interval DEF Agreements
    <3>2. {a \in Agreements : log[a] # <<>>} \in SUBSET Agreements
      OBVIOUS
    <3>3. IsFiniteSet({a \in Agreements : log[a] # <<>>})
      BY <3>1, <3>2, FS_Subset
    <3> QED BY <3>3, FS_CardinalityType DEF LatestAgreement
  <2>2. LatestAgreement # Client /\ LatestAgreement + 1 # Client
    BY <2>1 DEF Client
  <2> QED BY <1>4, <2>2, StreamGrows DEF StoreAgreement
<1>5. ASSUME NEW type, NEW d, StoreDescriptor(type, d)
      PROVE  EntriesInv'
  BY <1>5, StreamGrows, StreamsAreDistinct DEF StoreDescriptor
<1> QED BY <1>1, <1>2, <1>3, <1>4, <1>5 DEF Domain, ClientTypes

LEMMA ClientKeepsEntries ==
  ASSUME EntriesInv, ClientWriter
  PROVE  EntriesInv'
  BY SkipKeepsEntries, StoreKeepsEntries, DeleteKeepsEntries, ReadKeepsEntries,
     PutKeepsEntries, UpdateKeepsEntries DEF ClientWriter

\* A stop gives the message again; a redelivery goes back. Either way what was ahead still is.
LEMMA FaultsKeepEntries ==
  ASSUME EntriesInv, NEW s \in Streams, Crash(s) \/ Redeliver(s)
  PROVE  EntriesInv'
<1>1. UNCHANGED <<log, clientEntry, tokenEntry>>
  BY DEF Crash, Redeliver, platform
<1>2. Shapes'
  BY FailsStep DEF Crash, Redeliver, EntriesInv, Shapes
<1>3. /\ pos'[Client] \in 0..pos[Client]
      /\ \/ hand'[Client] = Idle
         \/ hand'[Client] = hand[Client] /\ pos'[Client] = pos[Client]
         \/ hand'[Client] = hand[Client] /\ hand[Client].at = "idle"
  <2>0. Client \in Streams /\ pos[Client] \in Nat
    BY StreamsAreDistinct, StreamFacts
  <2>1. CASE Crash(s)
    <3>1. pos' = pos /\ (hand'[Client] = Idle \/ hand'[Client] = hand[Client])
      BY <2>0, <2>1, FailsStep DEF Crash, EntriesInv
    <3> QED BY <2>0, <3>1
  <2>2. CASE Redeliver(s)
    <3>1. PICK n \in 0..(pos[s] - 1) : pos' = [pos EXCEPT ![s] = n]
      BY <2>2 DEF Redeliver
    <3>2. DOMAIN pos = Streams /\ hand' = hand /\ hand[s].at = "idle"
      BY <2>2 DEF Redeliver, EntriesInv, Shapes
    <3>3. CASE s = Client
      BY <2>0, <3>1, <3>2, <3>3
    <3>4. CASE s # Client
      BY <2>0, <3>1, <3>2, <3>4
    <3> QED BY <3>3, <3>4
  <2> QED BY <2>1, <2>2
<1>4. ClientTruth' = ClientTruth
  BY <1>1 DEF ClientTruth
<1>5. \A k \in Keys : /\ CaughtUp(k) => CaughtUp(k)'
                      /\ \A j \in DOMAIN log[Client] : Ahead(k, j) => Ahead(k, j)'
  BY <1>1, <1>3, <1>4, StreamFacts DEF CaughtUp, Ahead
<1>6. Erased' /\ TokenShapes'
  BY <1>1 DEF EntriesInv, Erased, TokenShapes
<1>7. AtWork'
  <2>1. CASE hand'[Client] = hand[Client] /\ pos'[Client] = pos[Client]
    <3>1. Message(Client)' = Message(Client) /\ Version(Client)' = Version(Client)
      BY <1>1, <2>1 DEF Message, Version
    <3> QED BY <1>1, <2>1, <3>1 DEF EntriesInv, AtWork
  <2>2. CASE hand'[Client].at = "idle" /\ hand'[Client].round = 1
    BY <2>2 DEF AtWork
  <2> QED BY <1>3, <2>1, <2>2 DEF Idle, EntriesInv, AtWork
<1>8. pos'[Client] \in 0..Len(log'[Client])
  BY <1>1, <1>3, StreamFacts
<1> QED BY <1>1, <1>2, <1>5, <1>6, <1>7, <1>8 DEF EntriesInv

LEMMA EntriesInit == Init => EntriesInv
<1> SUFFICES ASSUME Init PROVE EntriesInv
  OBVIOUS
<1>1. PICK k \in Keys :
        /\ DOMAIN log = Streams
        /\ log[Client] = <<[type |-> "KeyAdded", key |-> k,
                            client |-> [keys |-> {k}, purpose |-> FALSE, gone |-> FALSE]],
                           [type |-> "PurposeAdded", key |-> k,
                            client |-> [keys |-> {k}, purpose |-> TRUE, gone |-> FALSE]]>>
  BY StreamsAreDistinct DEF Init
<1> DEFINE l == log[Client]
<1>2. /\ l \in Seq(ClientEvent) /\ l # <<>> /\ Len(l) = 2 /\ DOMAIN l = 1..2
      /\ l[1].type = "KeyAdded" /\ ~l[1].client.purpose /\ ~l[1].client.gone
      /\ l[2].type = "PurposeAdded" /\ l[2].client.purpose /\ ~l[2].client.gone
      /\ l[2].client.keys = {k}
  <2>1. /\ [type |-> "KeyAdded", key |-> k,
            client |-> [keys |-> {k}, purpose |-> FALSE, gone |-> FALSE]] \in ClientEvent
        /\ [type |-> "PurposeAdded", key |-> k,
            client |-> [keys |-> {k}, purpose |-> TRUE, gone |-> FALSE]] \in ClientEvent
    BY DEF ClientEvent, ClientTypes, ClientRecord
  <2> QED BY <1>1, <2>1
<1> HIDE DEF l
<1>3. /\ MadeBy(l[1]) = {} /\ DeletedBy(l[1]) = {}
      /\ MadeBy(l[2]) = {k} /\ DeletedBy(l[2]) = {}
  BY <1>2 DEF MadeBy, DeletedBy
<1>4. History(l)
  <2>1. ASSUME NEW x \in Keys, NEW j \in DOMAIN l, Touches(l[j], x)
        PROVE  Wants(l[Len(l)].client, x) <=> x \in MadeBy(l[j])
    BY <1>2, <1>3, <2>1 DEF Touches, Wants
  <2>2. \A j \in DOMAIN l : (l[j].client.gone <=> l[j].type = "Deleted")
                            /\ l[j].type # "Deleted"
    BY <1>2
  <2> QED BY <1>2, <2>1, <2>2 DEF History
<1>5. /\ pos[Client] = 1 /\ clientEntry = 1 /\ hand[Client] = Idle
      /\ tokenEntry = [x \in Keys |-> NoToken] /\ Shapes
  BY IdleShape, StreamsAreDistinct DEF Init, Shapes
<1>6. ASSUME NEW x \in Keys
      PROVE  CaughtUp(x) \/ Ahead(x, 2)
  <2>1. CASE x = k
    BY <1>2, <1>3, <1>5, <2>1 DEF Ahead, Touches, l
  <2>2. CASE x # k
    BY <1>2, <1>5, <2>2 DEF CaughtUp, Wants, ClientTruth, Last, NoToken, l
  <2> QED BY <2>1, <2>2
<1>7. 2 \in DOMAIN l
  BY <1>2
<1>8. Erased /\ AtWork
  BY <1>5 DEF Erased, AtWork, Idle
<1>9. TokenShapes
  BY <1>5 DEF TokenShapes, NoToken, Fields
<1>10. \A x \in Keys : CaughtUp(x) \/ \E j \in DOMAIN log[Client] : Ahead(x, j)
  BY <1>6, <1>7 DEF l
<1>11. pos[Client] \in 0..Len(log[Client]) /\ clientEntry \in 0..Len(log[Client])
  BY <1>2, <1>5 DEF l
<1> QED BY <1>1, <1>4, <1>5, <1>8, <1>9, <1>10, <1>11 DEF EntriesInv, l

LEMMA EntriesStep ==
  ASSUME EntriesInv, [Next]_vars
  PROVE  EntriesInv'
<1>0. Shapes /\ TokenShapes /\ \A a \in Agreements : a \in Streams /\ a # Client
  BY StreamsAreDistinct DEF EntriesInv
<1>1. CASE Domain
  BY <1>1, DomainKeepsEntries
<1>2. CASE PurposeWriter
  BY <1>0, <1>2, PurposeFrame, PurposeKeepsEntries, OthersKeepEntries, StreamsAreDistinct DEF Frame
<1>3. CASE CatalogWriter
  BY <1>0, <1>3, CatalogFrame, CatalogKeepsEntries, OthersKeepEntries, StreamsAreDistinct DEF Frame
<1>4. ASSUME NEW a \in Agreements, AgreementWriter(a)
      PROVE  EntriesInv'
  BY <1>0, <1>4, AgreementFrame, AgreementKeepsEntries, OthersKeepEntries, StreamsAreDistinct
     DEF Frame
<1>5. CASE ClientWriter
  BY <1>5, ClientKeepsEntries
<1>6. ASSUME NEW s \in Streams, Crash(s) \/ Redeliver(s)
      PROVE  EntriesInv'
  BY <1>6, FaultsKeepEntries
<1>7. CASE UNCHANGED vars
  <2>1. Shapes' /\ SameEntries /\ hand' = hand /\ pos' = pos /\ UNCHANGED <<log, clientEntry>>
    BY <1>0, <1>7 DEF vars, platform, Shapes, SameEntries, TokenShapes
  <2> QED BY <2>1, OthersKeepEntries
<1> QED BY <1>1, <1>2, <1>3, <1>4, <1>5, <1>6, <1>7 DEF Next, Consumers

\* When the authorization writer has handled a client's events, the entries in the
\* token-generation-states are those of the client's keys and purpose, no more and no
\* less (upsertTokenGenStatesConsumerClient, deleteEntriesFromTokenGenStates...): whatever
\* the other writers do meanwhile, wherever it stopped, and however often old events were
\* delivered again, also after the client's deletion, when nothing tells that they are old.
THEOREM EntriesAreTheKeys == Spec => []EntriesSettled
<1>1. Init => EntriesInv
  BY EntriesInit
<1>2. EntriesInv /\ [Next]_vars => EntriesInv'
  BY EntriesStep
<1>3. EntriesInv => EntriesSettled
  <2> SUFFICES ASSUME EntriesInv, Quiet({Client}), NEW k \in Keys
               PROVE  CaughtUp(k)
    BY DEF EntriesSettled, CaughtUp, Wants
  <2>1. pos[Client] = Len(log[Client])
    BY DEF Quiet
  <2>2. \A j \in DOMAIN log[Client] : ~Ahead(k, j)
    BY <2>1, StreamFacts DEF Ahead
  <2> QED BY <2>2 DEF EntriesInv
<1> QED BY <1>1, <1>2, <1>3, PTL DEF Spec

-----------------------------------------------------------------------------
(* The purpose's state in the entries.                                       *)

PurposeEvent == [type : {"Activated", "Changed", "Archived"}, state : ItemState \cup {"archived"}]

\* The stream of a purpose begins with its activation, and ends when it is archived.
Lifetime(l) ==
  /\ l \in Seq(PurposeEvent) /\ l # <<>> /\ l[1].type = "Activated"
  /\ \A j \in DOMAIN l : /\ l[j].type = "Activated" => l[j].state = "active"
                         /\ l[j].type = "Archived" <=> l[j].state = "archived"
                         /\ l[j].type = "Archived" => j = Len(l)

\* The purpose's entry shows an event that is not older than the last handled one.
PurposeShown ==
  LET l == log[Purpose]
      v == purposeEntry.version
  IN
  /\ Here(purposeEntry) =>
       /\ v \in DOMAIN l /\ v >= pos[Purpose]
       /\ l[v].type # "Archived" /\ purposeEntry.state = l[v].state
  /\ ~Here(purposeEntry) => pos[Purpose] = 0 \/ l[Len(l)].type = "Archived"

\* The purpose's handler at work has written the entry.
PurposeAtWork ==
  LET h == hand[Purpose]
      ev == Message(Purpose)
  IN
  /\ h.at \in {"idle", "states", "query", "agreement", "catalog", "fill"}
  /\ h.at # "idle" =>
       /\ pos[Purpose] < Len(log[Purpose])
       /\ IF ev.type = "Archived" THEN ~Here(purposeEntry)
          ELSE purposeEntry = [state |-> ev.state, version |-> Version(Purpose)]
  /\ h.at \notin {"idle", "states"} => ev.type = "Activated"

Matches(k) == (tokenEntry[k].purposeState = "active") <=> (purposeEntry.state = "active")
\* An event will make the key's entry anew, or delete it.
Pending(k) == \E j \in DOMAIN log[Client] :
                 Ahead(k, j) /\ (j # Version(Client) \/ hand[Client].round = 1)
\* The entry is as it was put, and its second retrieval reads, or has read, what is so now.
OnHand(k) ==
  LET h == hand[Client] IN
  /\ h.round # 1 /\ k \in MadeBy(Message(Client))
  /\ tokenEntry[k].purposeState = h.before.p.state
  /\ h.at = "purpose" \/ h.now.p = purposeEntry

\* The last event of the purpose has reached the key's entry, or will not: the purpose's
\* handler is done with it, or has looked for entries and has not found this one.
Reached(k) ==
  LET h == hand[Purpose] IN
  \/ h.at = "idle" /\ pos[Purpose] = Len(log[Purpose])
  \/ /\ h.at \in {"agreement", "catalog", "fill"}
     /\ Version(Purpose) = Len(log[Purpose]) /\ ~h.found[k].here
Owed(k) == tokenEntry[k].here /\ Reached(k) => Matches(k) \/ Pending(k) \/ OnHand(k)

PurposeInv ==
  /\ EntriesInv
  /\ Lifetime(log[Purpose]) /\ pos[Purpose] \in 0..Len(log[Purpose])
  /\ PurposeShown /\ PurposeAtWork
  /\ "purpose" \in lost \/ \A k \in Keys : Owed(k)

\* What the invariant says of the purpose's stream.
LEMMA PurposeFacts ==
  ASSUME PurposeInv
  PROVE  /\ log[Purpose] \in Seq(PurposeEvent) /\ Len(log[Purpose]) \in Nat \ {0}
         /\ DOMAIN log[Purpose] = 1..Len(log[Purpose])
         /\ pos[Purpose] \in Nat /\ pos[Purpose] <= Len(log[Purpose])
         /\ Version(Purpose) = pos[Purpose] + 1
         /\ PurposeTruth = log[Purpose][Len(log[Purpose])].state
         /\ pos[Purpose] < Len(log[Purpose]) =>
              /\ Version(Purpose) \in DOMAIN log[Purpose]
              /\ Message(Purpose) = log[Purpose][Version(Purpose)]
              /\ Message(Purpose) \in PurposeEvent
  BY DEF PurposeInv, Lifetime, Version, Message, PurposeTruth, Last

\* The last event is not skipped.
LEMMA LastIsHandled ==
  ASSUME PurposeInv, PurposeSkip
  PROVE  Version(Purpose) < Len(log[Purpose])
<1>1. /\ pos[Purpose] < Len(log[Purpose])
      /\ \/ Message(Purpose).type # "Archived" /\ Newer(purposeEntry, Purpose)
         \/ Message(Purpose).type = "Changed" /\ ~Here(purposeEntry)
  BY DEF PurposeSkip, Takes
<1>2. CASE Newer(purposeEntry, Purpose)
  BY <1>1, <1>2, PurposeFacts DEF PurposeInv, PurposeShown, Newer
<1>3. CASE Message(Purpose).type = "Changed" /\ ~Here(purposeEntry)
  BY <1>1, <1>3, PurposeFacts DEF PurposeInv, PurposeShown, Lifetime
<1> QED BY <1>1, <1>2, <1>3

\* The steps of the other writers.
LEMMA OthersOwe ==
  ASSUME PurposeInv, EntriesInv', SameEntries, SamePurposes, lost \subseteq lost',
         UNCHANGED <<log, clientEntry, purposeEntry>>,
         \A s \in {Purpose, Client} : hand'[s] = hand[s] /\ pos'[s] = pos[s]
  PROVE  PurposeInv'
<1>0. hand'[Purpose] = hand[Purpose] /\ pos'[Purpose] = pos[Purpose]
      /\ hand'[Client] = hand[Client] /\ pos'[Client] = pos[Client]
  OBVIOUS
<1>1. \A s \in {Purpose, Client} : Message(s)' = Message(s) /\ Version(s)' = Version(s)
  BY DEF Message, Version
<1>2. ASSUME NEW k \in Keys, Owed(k)
      PROVE  Owed(k)'
  <2>1. \A j \in DOMAIN log[Client] : Ahead(k, j) => Ahead(k, j)'
    BY <1>0 DEF Ahead
  <2>2. Pending(k) => Pending(k)'
    BY <1>0, <1>1, <2>1 DEF Pending
  <2>3. OnHand(k) => OnHand(k)'
    BY <1>0, <1>1 DEF OnHand, SamePurposes
  <2>4. Matches(k) => Matches(k)'
    BY DEF Matches, SamePurposes
  <2>5. Reached(k)' => Reached(k)
    BY <1>0, <1>1 DEF Reached
  <2> QED BY <1>2, <2>2, <2>3, <2>4, <2>5 DEF Owed, SameEntries
<1>3. PurposeShown' /\ PurposeAtWork'
  BY <1>0, <1>1 DEF PurposeInv, PurposeShown, PurposeAtWork
<1> QED BY <1>0, <1>2, <1>3 DEF PurposeInv

\* What a step of the purpose's writer leaves as it was.
LEMMA PurposeStepFacts ==
  ASSUME PurposeInv, PurposeWriter
  PROVE  /\ EntriesInv' /\ log' = log /\ lost \subseteq lost' /\ Shapes /\ Shapes'
         /\ hand'[Client] = hand[Client] /\ pos'[Client] = pos[Client]
         /\ clientEntry' = clientEntry
         /\ \A k \in Keys : tokenEntry'[k].here = tokenEntry[k].here
         /\ \A k \in Keys : Pending(k) => Pending(k)'
<1>1. /\ Frame(Purpose) /\ clientEntry' = clientEntry /\ SameEntries
      /\ hand'[Client] = hand[Client] /\ pos'[Client] = pos[Client]
  BY PurposeFrame, PurposeKeepsEntries, StreamsAreDistinct DEF PurposeInv, EntriesInv, Frame
<1>2. EntriesInv'
  BY <1>1, OthersKeepEntries DEF PurposeInv, Frame
<1>3. \A k \in Keys : Pending(k) => Pending(k)'
  <2>1. \A k \in Keys : \A j \in DOMAIN log[Client] : Ahead(k, j) => Ahead(k, j)'
    BY <1>1 DEF Ahead, Frame
  <2> QED BY <1>1, <2>1 DEF Pending, Frame, Version
<1> QED BY <1>1, <1>2, <1>3 DEF PurposeInv, EntriesInv, Frame, SameEntries

\* An event that is not the last, or whose writes are still to come, owes nothing.
LEMMA NothingOwed ==
  ASSUME \A k \in Keys : ~Reached(k)'
  PROVE  \A k \in Keys : Owed(k)'
  BY DEF Owed

LEMMA PurposeSkipOwes ==
  ASSUME PurposeInv, PurposeSkip
  PROVE  PurposeInv'
<1>1. Version(Purpose) < Len(log[Purpose]) /\ Version(Purpose) \in Nat
      /\ Message(Purpose) = log[Purpose][Version(Purpose)] /\ pos[Purpose] < Len(log[Purpose])
      /\ Version(Purpose) = pos[Purpose] + 1
  BY LastIsHandled, PurposeFacts DEF PurposeSkip, Takes
<1>2. /\ hand'[Purpose] = Idle /\ pos'[Purpose] = Version(Purpose) /\ log' = log
      /\ purposeEntry' = purposeEntry
  BY HandledStep, StreamsAreDistinct
     DEF PurposeSkip, PurposeInv, EntriesInv, platform, Handled, Shapes, Version
<1>3. \A k \in Keys : ~Reached(k)'
  BY <1>1, <1>2 DEF Reached, Idle
<1>4. PurposeShown'
  <2>1. CASE Here(purposeEntry)
    <3>1. Newer(purposeEntry, Purpose)
      BY <2>1, PurposeFacts DEF PurposeSkip, PurposeInv, PurposeShown
    <3> QED BY <1>1, <1>2, <2>1, <3>1, PurposeFacts DEF PurposeInv, PurposeShown, Newer
  <2>2. CASE ~Here(purposeEntry)
    <3>1. pos[Purpose] # 0
      BY <1>1, <2>2, PurposeFacts DEF PurposeSkip, Newer, PurposeInv, Lifetime
    <3> QED BY <1>2, <2>2, <3>1 DEF PurposeInv, PurposeShown
  <2> QED BY <2>1, <2>2
<1>5. PurposeAtWork'
  BY <1>2 DEF PurposeAtWork, Idle
<1>6. pos'[Purpose] \in 0..Len(log'[Purpose])
  BY <1>1, <1>2, PurposeFacts
<1> QED BY <1>2, <1>3, <1>4, <1>5, <1>6, NothingOwed, PurposeStepFacts
        DEF PurposeInv, PurposeWriter

LEMMA PurposeStoreOwes ==
  ASSUME PurposeInv, PurposeStore
  PROVE  PurposeInv'
<1> DEFINE ev == Message(Purpose)
<1>1. /\ pos[Purpose] < Len(log[Purpose]) /\ Version(Purpose) \in Nat
      /\ Version(Purpose) = pos[Purpose] + 1 /\ Version(Purpose) \in DOMAIN log[Purpose]
      /\ ev = log[Purpose][Version(Purpose)] /\ ev \in PurposeEvent
  BY PurposeFacts DEF PurposeStore, Takes
<1>2. /\ purposeEntry' = IF ev.type = "Archived" THEN NoPurpose
                         ELSE [state |-> ev.state, version |-> Version(Purpose)]
      /\ Go(Purpose, IF ev.type = "Activated" THEN "query" ELSE "states") /\ log' = log
  BY DEF PurposeStore
<1>3. hand'[Purpose].at = (IF ev.type = "Activated" THEN "query" ELSE "states") /\ pos' = pos
  BY <1>2, GoStep, StreamsAreDistinct DEF PurposeInv, EntriesInv
<1>4. Message(Purpose)' = ev /\ Version(Purpose)' = Version(Purpose)
  BY <1>2, <1>3 DEF Message, Version
<1>5. \A k \in Keys : ~Reached(k)'
  BY <1>3 DEF Reached
<1>6. PurposeShown' /\ PurposeAtWork'
  <2>1. CASE ev.type = "Archived"
    <3>1. ~Here(purposeEntry)' /\ Version(Purpose) = Len(log[Purpose])
      BY <1>1, <1>2, <2>1 DEF Here, NoPurpose, PurposeInv, Lifetime
    <3>2. log'[Purpose][Len(log'[Purpose])].type = "Archived"
      BY <1>1, <1>2, <2>1, <3>1
    <3> QED BY <1>1, <1>2, <1>3, <1>4, <2>1, <3>1, <3>2 DEF PurposeShown, PurposeAtWork
  <2>2. CASE ev.type # "Archived"
    <3>1. /\ purposeEntry'.state = ev.state /\ purposeEntry'.version = Version(Purpose)
          /\ purposeEntry' = [state |-> ev.state, version |-> Version(Purpose)]
          /\ Here(purposeEntry)'
      BY <1>1, <1>2, <2>2 DEF Here, PurposeEvent, ItemState
    <3>2. /\ purposeEntry'.version \in DOMAIN log'[Purpose]
          /\ log'[Purpose][purposeEntry'.version] = ev
          /\ purposeEntry'.version >= pos'[Purpose]
      <4>1. log' = log /\ pos' = pos
        BY <1>2, <1>3
      <4>2. Version(Purpose) >= pos[Purpose]
        BY <1>1, PurposeFacts
      <4> HIDE DEF ev
      <4> QED BY <1>1, <4>1, <4>2, <3>1
    <3> HIDE DEF ev
    <3>3. PurposeShown'
      BY <2>2, <3>1, <3>2 DEF PurposeShown
    <3>4. PurposeAtWork'
      BY <1>1, <1>2, <1>3, <1>4, <2>2, <3>1 DEF PurposeAtWork
    <3> QED BY <3>3, <3>4
  <2> QED BY <2>1, <2>2
<1>7. pos'[Purpose] \in 0..Len(log'[Purpose])
  BY <1>2, <1>3 DEF PurposeInv
<1> QED BY <1>2, <1>5, <1>6, <1>7, NothingOwed, PurposeStepFacts DEF PurposeInv, PurposeWriter

\* The end of an event whose entry is written.
LEMMA PurposeDone ==
  ASSUME PurposeInv, PurposeWriter, Handled(Purpose), hand[Purpose].at # "idle",
         purposeEntry' = purposeEntry,
         "purpose" \in lost
           \/ \A k \in Keys : tokenEntry[k].here /\ Version(Purpose) = Len(log[Purpose])
                => Matches(k)' \/ Pending(k) \/ OnHand(k)'
  PROVE  PurposeInv'
<1>1. /\ pos[Purpose] < Len(log[Purpose]) /\ Version(Purpose) \in Nat
      /\ Version(Purpose) = pos[Purpose] + 1 /\ Version(Purpose) \in DOMAIN log[Purpose]
      /\ Message(Purpose) = log[Purpose][Version(Purpose)]
      /\ IF Message(Purpose).type = "Archived" THEN ~Here(purposeEntry)
         ELSE purposeEntry = [state |-> Message(Purpose).state, version |-> Version(Purpose)]
  BY PurposeFacts DEF PurposeInv, PurposeAtWork
<1>2. hand'[Purpose] = Idle /\ pos'[Purpose] = Version(Purpose)
  BY HandledStep, StreamsAreDistinct DEF PurposeInv, EntriesInv, Handled, Shapes, Version
<1>3. log' = log /\ lost \subseteq lost' /\ EntriesInv'
      /\ \A k \in Keys : tokenEntry'[k].here = tokenEntry[k].here /\ (Pending(k) => Pending(k)')
  BY PurposeStepFacts
<1>4. "purpose" \in lost' \/ \A k \in Keys : Owed(k)'
  BY <1>2, <1>3 DEF Owed, Reached, Idle
<1>5. PurposeShown' /\ PurposeAtWork'
  <2>1. PurposeAtWork'
    BY <1>2 DEF PurposeAtWork, Idle
  <2>2. CASE Message(Purpose).type = "Archived"
    <3>1. ~Here(purposeEntry) /\ Version(Purpose) = Len(log[Purpose])
      BY <1>1, <2>2 DEF PurposeInv, Lifetime
    <3>2. log'[Purpose][Len(log'[Purpose])].type = "Archived" /\ ~Here(purposeEntry)'
      BY <1>1, <1>3, <2>2, <3>1
    <3> QED BY <2>1, <3>2 DEF PurposeShown
  <2>3. CASE Message(Purpose).type # "Archived"
    <3>1. purposeEntry.version = Version(Purpose) /\ purposeEntry.state = Message(Purpose).state
      BY <1>1, <2>3
    <3>2. Message(Purpose).state # "absent"
      BY <1>1, PurposeFacts DEF PurposeEvent, ItemState
    <3>3. /\ log'[Purpose][purposeEntry'.version] = Message(Purpose)
          /\ purposeEntry'.version \in DOMAIN log'[Purpose]
          /\ purposeEntry'.version >= pos'[Purpose] /\ Here(purposeEntry)'
      BY <1>1, <1>2, <1>3, <3>1, <3>2 DEF Here
    <3> QED BY <2>1, <2>3, <3>1, <3>3 DEF PurposeShown
  <2> QED BY <2>1, <2>2, <2>3
<1>6. pos'[Purpose] \in 0..Len(log'[Purpose])
  BY <1>1, <1>2, <1>3, PurposeFacts
<1> QED BY <1>3, <1>4, <1>5, <1>6 DEF PurposeInv

LEMMA PurposeStatesOwes ==
  ASSUME PurposeInv, PurposeStates
  PROVE  PurposeInv'
<1> DEFINE ev == Message(Purpose)
           x == IF ev.state = "active" THEN "active" ELSE "inactive"
<1>1. /\ Handled(Purpose) /\ hand[Purpose].at = "states" /\ purposeEntry' = purposeEntry
      /\ tokenEntry' = [k \in Keys |-> IF tokenEntry[k].here /\ TRUE
                          THEN [tokenEntry[k] EXCEPT !.purposeState = x] ELSE tokenEntry[k]]
  BY DEF PurposeStates, UpdateTokens, platform
<1>2. (x = "active") <=> (purposeEntry.state = "active")
  <2>1. /\ ev = log[Purpose][Version(Purpose)] /\ ev \in PurposeEvent
        /\ Version(Purpose) \in DOMAIN log[Purpose]
        /\ IF ev.type = "Archived" THEN ~Here(purposeEntry)
           ELSE purposeEntry = [state |-> ev.state, version |-> Version(Purpose)]
    BY <1>1, PurposeFacts DEF PurposeInv, PurposeAtWork
  <2>2. ev.type = "Archived" => ev.state = "archived"
    BY <2>1 DEF PurposeInv, Lifetime
  <2> HIDE DEF ev
  <2> QED BY <2>1, <2>2 DEF Here
<1> HIDE DEF x
<1>3. \A k \in Keys : tokenEntry[k].here => tokenEntry'[k].purposeState = x
  BY <1>1 DEF PurposeInv, EntriesInv, TokenShapes, Fields
<1>4. \A k \in Keys : tokenEntry[k].here => Matches(k)'
  BY <1>1, <1>2, <1>3 DEF Matches
<1> QED BY <1>1, <1>4, PurposeDone DEF PurposeWriter

\* The activation's query and reads: what was found is every entry there was.
LEMMA PurposeReadOwes ==
  ASSUME PurposeInv, PurposeQuery \/ PurposeReadAgreement \/ PurposeReadCatalog
  PROVE  PurposeInv'
<1>1. PICK at \in {"agreement", "catalog", "fill"} :
        /\ hand'[Purpose].at = at
        /\ \/ hand[Purpose].at = "query" /\ hand'[Purpose].found = tokenEntry
           \/ /\ hand[Purpose].at \in {"agreement", "catalog"}
              /\ hand'[Purpose].found = hand[Purpose].found
  BY StreamsAreDistinct
     DEF PurposeQuery, PurposeReadAgreement, PurposeReadCatalog, PurposeInv, EntriesInv, Shapes,
         HandFields
<1>2. UNCHANGED <<log, pos, purposeEntry, tokenEntry, lost>>
  BY DEF PurposeQuery, PurposeReadAgreement, PurposeReadCatalog, platform
<1>3. Message(Purpose)' = Message(Purpose) /\ Version(Purpose)' = Version(Purpose)
      /\ Message(Client)' = Message(Client)
  BY <1>2 DEF Message, Version
<1>4. /\ EntriesInv' /\ hand'[Client] = hand[Client]
      /\ \A k \in Keys : Pending(k) => Pending(k)'
  BY PurposeStepFacts DEF PurposeWriter
<1>5. ASSUME NEW k \in Keys, Owed(k)
      PROVE  Owed(k)'
  <2>1. OnHand(k) => OnHand(k)'
    BY <1>2, <1>3, <1>4 DEF OnHand
  <2>2. Matches(k) => Matches(k)'
    BY <1>2 DEF Matches
  <2>3. tokenEntry[k].here /\ Reached(k)' => Reached(k)
    BY <1>1, <1>2, <1>3 DEF Reached
  <2> QED BY <1>2, <1>4, <1>5, <2>1, <2>2, <2>3 DEF Owed
<1>6. PurposeShown' /\ PurposeAtWork'
  BY <1>1, <1>2, <1>3 DEF PurposeInv, PurposeShown, PurposeAtWork
<1> QED BY <1>2, <1>4, <1>5, <1>6 DEF PurposeInv

LEMMA PurposeFillOwes ==
  ASSUME PurposeInv, PurposeFill
  PROVE  PurposeInv'
<1> DEFINE h == hand[Purpose]
           ev == Message(Purpose)
           queried == {k \in Keys : h.found[k].here}
           filled(k) == FilledByPurpose(tokenEntry[k], h.found[k], h.now.g, h.now.c)
<1>1. /\ h.at = "fill" /\ purposeEntry' = purposeEntry /\ log' = log
      /\ pos[Purpose] < Len(log[Purpose])
      /\ ev.state = "active" /\ purposeEntry.state = "active"
  <2>1. h.at = "fill" /\ purposeEntry' = purposeEntry /\ log' = log
    BY DEF PurposeFill, platform
  <2>2. /\ pos[Purpose] < Len(log[Purpose]) /\ ev.type = "Activated"
        /\ purposeEntry = [state |-> ev.state, version |-> Version(Purpose)]
    BY <2>1 DEF PurposeInv, PurposeAtWork
  <2>3. ev.state = "active"
    BY <2>2, PurposeFacts DEF PurposeInv, Lifetime
  <2> QED BY <2>1, <2>2, <2>3
<1>2. CASE Fails(Purpose) /\ UNCHANGED <<tokenEntry, lost>>
  <2>1. hand'[Purpose] = Idle /\ pos' = pos
    BY <1>2, FailsStep, StreamsAreDistinct DEF PurposeInv, EntriesInv
  <2>2. \A k \in Keys : ~Reached(k)'
    BY <1>1, <2>1 DEF Reached, Idle
  <2>3. PurposeShown' /\ PurposeAtWork' /\ pos'[Purpose] \in 0..Len(log'[Purpose])
    BY <1>1, <2>1 DEF PurposeInv, PurposeShown, PurposeAtWork, Idle
  <2> QED BY <1>1, <2>2, <2>3, NothingOwed, PurposeStepFacts DEF PurposeInv, PurposeWriter
<1>3. CASE /\ tokenEntry' = [k \in Keys |-> IF k \in queried THEN filled(k) ELSE tokenEntry[k]]
           /\ Handled(Purpose)
  <2>1. \A k \in Keys : filled(k).purposeState = ev.state
    BY FillsKeep DEF PurposeInv, EntriesInv, TokenShapes
  <2> HIDE DEF filled
  <2>2. /\ \A k \in queried : tokenEntry'[k].purposeState = "active"
        /\ \A k \in Keys : ~h.found[k].here => tokenEntry'[k] = tokenEntry[k]
    BY <1>1, <1>3, <2>1
  <2>3. hand'[Client] = hand[Client] /\ Message(Client)' = Message(Client)
    BY PurposeStepFacts DEF PurposeWriter, Message, Version
  <2>4. ASSUME NEW k \in Keys, tokenEntry[k].here, Version(Purpose) = Len(log[Purpose]),
               "purpose" \notin lost
        PROVE  Matches(k)' \/ Pending(k) \/ OnHand(k)'
    <3>1. CASE h.found[k].here
      BY <1>1, <2>2, <3>1 DEF Matches
    <3>2. CASE ~h.found[k].here
      <4>1. Reached(k)
        BY <1>1, <2>4, <3>2 DEF Reached
      <4>2. Matches(k) \/ Pending(k) \/ OnHand(k)
        BY <2>4, <4>1 DEF PurposeInv, Owed
      <4>3. tokenEntry'[k] = tokenEntry[k]
        BY <2>2, <3>2
      <4> QED BY <1>1, <2>3, <4>2, <4>3 DEF Matches, OnHand
    <3> QED BY <3>1, <3>2
  <2> QED BY <1>1, <1>3, <2>4, PurposeDone DEF PurposeWriter
<1> QED BY <1>2, <1>3 DEF PurposeFill

LEMMA PurposeWriterOwes ==
  ASSUME PurposeInv, PurposeWriter
  PROVE  PurposeInv'
  BY PurposeSkipOwes, PurposeStoreOwes, PurposeStatesOwes, PurposeReadOwes, PurposeFillOwes
     DEF PurposeWriter

-----------------------------------------------------------------------------
\* A step of the authorization writer owes the purpose's states as before, key by key.
LEMMA ClientStepFacts ==
  ASSUME PurposeInv, ClientWriter,
         \A k \in Keys : /\ tokenEntry'[k].here /\ "purpose" \notin lost'
                         /\ tokenEntry[k].here => Matches(k) \/ Pending(k) \/ OnHand(k)
                         => Matches(k)' \/ Pending(k)' \/ OnHand(k)'
  PROVE  PurposeInv'
<1>1. /\ Frame(Client) /\ purposeEntry' = purposeEntry /\ EntriesInv' /\ lost \subseteq lost'
  BY ClientFrame, ClientKeepsEntries DEF PurposeInv, EntriesInv, Frame
<1>2. hand'[Purpose] = hand[Purpose] /\ pos'[Purpose] = pos[Purpose] /\ log' = log
  BY <1>1, StreamsAreDistinct DEF Frame
<1>3. Message(Purpose)' = Message(Purpose) /\ Version(Purpose)' = Version(Purpose)
  BY <1>2 DEF Message, Version
<1>4. ASSUME NEW k \in Keys, "purpose" \notin lost'
      PROVE  Owed(k)'
  <2>1. Owed(k)
    BY <1>1, <1>4 DEF PurposeInv
  <2>2. Reached(k)' => Reached(k)
    BY <1>2, <1>3 DEF Reached
  <2> QED BY <1>4, <2>1, <2>2 DEF Owed
<1>5. PurposeShown' /\ PurposeAtWork'
  BY <1>1, <1>2, <1>3 DEF PurposeInv, PurposeShown, PurposeAtWork
<1> QED BY <1>1, <1>2, <1>4, <1>5 DEF PurposeInv

LEMMA ClientSkipOwes ==
  ASSUME PurposeInv, ClientSkip
  PROVE  PurposeInv'
<1>1. /\ tokenEntry' = tokenEntry /\ hand'[Client] = Idle /\ hand[Client].round = 1
      /\ purposeEntry' = purposeEntry /\ log' = log
  BY HandledStep, StreamsAreDistinct DEF ClientSkip, Takes, PurposeInv, EntriesInv, AtWork, platform
<1>2. ASSUME NEW k \in Keys, tokenEntry'[k].here,
             tokenEntry[k].here => Matches(k) \/ Pending(k) \/ OnHand(k)
      PROVE  Matches(k)' \/ Pending(k)' \/ OnHand(k)'
  <2>1. CASE Matches(k)
    BY <1>1, <2>1 DEF Matches
  <2>2. CASE Pending(k)
    <3>1. PICK j \in DOMAIN log[Client] : Ahead(k, j)
      BY <2>2 DEF Pending
    <3>2. PICK i \in DOMAIN log[Client] : Ahead(k, i)'
      BY <1>1, <1>2, <3>1, SkipLeavesAhead DEF PurposeInv
    <3> QED BY <1>1, <3>2 DEF Pending, Idle
  <2>3. ~OnHand(k)
    BY <1>1 DEF OnHand
  <2> QED BY <1>1, <1>2, <2>1, <2>2, <2>3
<1> QED BY <1>2, ClientStepFacts DEF ClientWriter

\* A step that does not change entries and goes on, or ends an event that changes none.
LEMMA ClientStoreOwes ==
  ASSUME PurposeInv, ClientStore
  PROVE  PurposeInv'
<1> DEFINE ev == Message(Client)
<1>1. /\ pos[Client] < Len(log[Client]) /\ hand[Client].at = "idle"
      /\ clientEntry' = IF ev.type = "Deleted" THEN 0 ELSE Version(Client)
      /\ tokenEntry' = tokenEntry /\ purposeEntry' = purposeEntry /\ log' = log
  BY DEF ClientStore, Takes
<1>2. /\ Version(Client) = pos[Client] + 1 /\ ev = log[Client][Version(Client)]
      /\ pos[Client] \in Nat /\ DOMAIN log[Client] = 1..Len(log[Client])
      /\ Len(log[Client]) \in Nat
  BY <1>1, StreamFacts DEF PurposeInv
<1>3. /\ hand'[Client].round = 1
      /\ \/ pos'[Client] = pos[Client]
         \/ pos'[Client] = Version(Client) /\ MadeBy(ev) = {} /\ DeletedBy(ev) = {}
  <2>1. ASSUME NEW step, Go(Client, step)
        PROVE  hand'[Client].round = 1 /\ pos'[Client] = pos[Client]
    <3>1. hand'[Client] = [Idle EXCEPT !.at = step] /\ pos' = pos
      BY <2>1, GoStep, StreamsAreDistinct DEF PurposeInv, EntriesInv
    <3> QED BY <3>1 DEF Idle
  <2>2. ASSUME Handled(Client)
        PROVE  hand'[Client].round = 1 /\ pos'[Client] = Version(Client)
    BY <2>2, HandledStep, StreamsAreDistinct
       DEF PurposeInv, EntriesInv, Idle, Handled, Shapes, Version
  <2> QED BY <2>1, <2>2 DEF ClientStore
<1>4. ASSUME NEW k \in Keys, Pending(k)
      PROVE  Pending(k)'
  <2>1. PICK j \in DOMAIN log[Client] : Ahead(k, j)
    BY <1>4 DEF Pending
  <2>2. j > pos[Client] /\ Touches(log[Client][j], k)
    BY <2>1 DEF Ahead
  <2>3. j > pos'[Client] /\ j >= clientEntry'
    <3>1. CASE pos'[Client] = pos[Client]
      BY <1>1, <1>2, <2>2, <3>1
    <3>2. CASE pos'[Client] = Version(Client) /\ MadeBy(ev) = {} /\ DeletedBy(ev) = {}
      <4>1. j # Version(Client)
        BY <1>2, <2>2, <3>2 DEF Touches
      <4> QED BY <1>1, <1>2, <2>2, <3>2, <4>1
    <3> QED BY <1>3, <3>1, <3>2
  <2>4. Ahead(k, j)'
    BY <1>1, <2>2, <2>3 DEF Ahead
  <2> QED BY <1>1, <1>3, <2>4 DEF Pending
<1>5. \A k \in Keys : /\ Matches(k) => Matches(k)'
                      /\ ~OnHand(k)
  BY <1>1 DEF Matches, OnHand, PurposeInv, EntriesInv, AtWork
<1>6. \A k \in Keys : tokenEntry'[k].here = tokenEntry[k].here
  BY <1>1
<1> QED BY <1>4, <1>5, <1>6, ClientStepFacts DEF ClientWriter

LEMMA ClientDeleteOwes ==
  ASSUME PurposeInv, ClientDelete
  PROVE  PurposeInv'
<1> DEFINE ev == Message(Client)
<1>1. /\ log' = log /\ clientEntry' = clientEntry /\ purposeEntry' = purposeEntry
      /\ tokenEntry' = [k \in Keys |-> IF k \in DeletedBy(ev) THEN NoToken ELSE tokenEntry[k]]
  BY DEF ClientDelete, platform
<1>2. /\ hand'[Client] = Idle /\ pos'[Client] = Version(Client)
      /\ pos[Client] < Len(log[Client]) /\ DeletedBy(ev) # {}
  BY HandledStep, StreamsAreDistinct
     DEF ClientDelete, PurposeInv, EntriesInv, Handled, Shapes, Version, AtWork
<1>3. /\ MadeBy(ev) = {} /\ Version(Client) = pos[Client] + 1 /\ pos[Client] \in Nat
      /\ ev = log[Client][Version(Client)] /\ DOMAIN log[Client] = 1..Len(log[Client])
      /\ Len(log[Client]) \in Nat
  BY <1>2, StreamFacts, MakesOrDeletes DEF PurposeInv
<1>4. ASSUME NEW k \in Keys, tokenEntry'[k].here,
             tokenEntry[k].here => Matches(k) \/ Pending(k) \/ OnHand(k)
      PROVE  Matches(k)' \/ Pending(k)' \/ OnHand(k)'
  <2>1. k \notin DeletedBy(ev) /\ tokenEntry'[k] = tokenEntry[k] /\ tokenEntry[k].here
    BY <1>1, <1>4 DEF NoToken
  <2>2. ~OnHand(k)
    BY <1>3 DEF OnHand
  <2>3. Matches(k) => Matches(k)'
    BY <1>1, <2>1 DEF Matches
  <2>4. ASSUME NEW j \in DOMAIN log[Client], Ahead(k, j)
        PROVE  Ahead(k, j)'
    <3>1. j > pos[Client] /\ Touches(log[Client][j], k) /\ j >= clientEntry
      BY <2>4 DEF Ahead
    <3>2. j # Version(Client)
      BY <1>3, <2>1, <3>1 DEF Touches
    <3> QED BY <1>1, <1>2, <1>3, <3>1, <3>2 DEF Ahead
  <2>5. Pending(k) => Pending(k)'
    BY <1>1, <1>2, <2>4 DEF Pending, Idle
  <2> QED BY <1>4, <2>1, <2>2, <2>3, <2>5
<1> QED BY <1>4, ClientStepFacts DEF ClientWriter

LEMMA ClientReadOwes ==
  ASSUME PurposeInv, ClientReadPurpose \/ ClientReadAgreement \/ ClientReadCatalog
  PROVE  PurposeInv'
<1>1. /\ hand'[Client].round = hand[Client].round /\ hand'[Client].before = hand[Client].before
      /\ \/ hand'[Client].now.p = purposeEntry
         \/ hand[Client].at # "purpose" /\ hand'[Client].now.p = hand[Client].now.p
  BY StreamsAreDistinct
     DEF ClientReadPurpose, ClientReadAgreement, ClientReadCatalog, PurposeInv, EntriesInv, Shapes,
         HandFields, ReadFields
<1>2. UNCHANGED <<log, pos, clientEntry, purposeEntry, tokenEntry>>
  BY DEF ClientReadPurpose, ClientReadAgreement, ClientReadCatalog, platform
<1>3. Message(Client)' = Message(Client) /\ Version(Client)' = Version(Client)
  BY <1>2 DEF Message, Version
<1>4. \A k \in Keys : /\ Matches(k) => Matches(k)'
                      /\ OnHand(k) => OnHand(k)'
  BY <1>1, <1>2, <1>3 DEF Matches, OnHand
<1>5. \A k \in Keys : Pending(k) => Pending(k)'
  <2>1. \A k \in Keys : \A j \in DOMAIN log[Client] : Ahead(k, j) => Ahead(k, j)'
    BY <1>2 DEF Ahead
  <2> QED BY <1>1, <1>2, <1>3, <2>1 DEF Pending
<1> QED BY <1>2, <1>4, <1>5, ClientStepFacts DEF ClientWriter

LEMMA ClientPutOwes ==
  ASSUME PurposeInv, ClientPut
  PROVE  PurposeInv'
<1> DEFINE ev == Message(Client)
<1>1. /\ log' = log /\ clientEntry' = clientEntry /\ purposeEntry' = purposeEntry /\ pos' = pos
      /\ tokenEntry' = [k \in Keys |-> IF k \in MadeBy(ev) THEN Made(hand[Client].now)
                                       ELSE tokenEntry[k]]
  BY DEF ClientPut, platform
<1>2. /\ hand'[Client].at = "purpose" /\ hand'[Client].round = 2
      /\ hand'[Client].before = hand[Client].now
      /\ pos[Client] < Len(log[Client]) /\ MadeBy(ev) # {}
  BY StreamsAreDistinct DEF ClientPut, PurposeInv, EntriesInv, Shapes, HandFields, AtWork
<1>3. /\ DeletedBy(ev) = {} /\ ev = log[Client][Version(Client)]
  BY <1>2, StreamFacts, MakesOrDeletes DEF PurposeInv
<1>4. Message(Client)' = ev /\ Version(Client)' = Version(Client)
  BY <1>1 DEF Message, Version
<1>5. ASSUME NEW k \in Keys, tokenEntry'[k].here,
             tokenEntry[k].here => Matches(k) \/ Pending(k) \/ OnHand(k)
      PROVE  Matches(k)' \/ Pending(k)' \/ OnHand(k)'
  <2>1. CASE k \in MadeBy(ev)
    <3>1. tokenEntry'[k].purposeState = hand[Client].now.p.state
      BY <1>1, <2>1 DEF Made
    <3> QED BY <1>2, <1>4, <2>1, <3>1 DEF OnHand
  <2>2. CASE k \notin MadeBy(ev)
    <3>1. tokenEntry'[k] = tokenEntry[k] /\ tokenEntry[k].here
      BY <1>1, <1>5, <2>2
    <3>2. ~OnHand(k) /\ (Matches(k) => Matches(k)')
      BY <1>1, <2>2, <3>1 DEF OnHand, Matches
    <3>3. ASSUME NEW j \in DOMAIN log[Client], Ahead(k, j)
          PROVE  Ahead(k, j)' /\ j # Version(Client)
      BY <1>1, <1>3, <2>2, <3>3 DEF Ahead, Touches
    <3>4. Pending(k) => Pending(k)'
      BY <1>1, <1>4, <3>3 DEF Pending
    <3> QED BY <1>5, <3>1, <3>2, <3>4
  <2> QED BY <2>1, <2>2
<1> QED BY <1>5, ClientStepFacts DEF ClientWriter

\* The state of the purpose that the second retrieval leaves in an entry.
LEMMA RetrievedPurpose ==
  ASSUME NEW e, DOMAIN e = Fields, NEW put, NEW read
  PROVE  SecondRetrieval(e, put, read).purposeState =
           IF Here(read.p) /\ read.p.state # put.purposeState THEN read.p.state
           ELSE e.purposeState
  BY DEF SecondRetrieval, Fields

LEMMA ClientUpdateOwes ==
  ASSUME PurposeInv, ClientUpdate
  PROVE  PurposeInv'
<1> DEFINE h == hand[Client]
           ev == Message(Client)
           again(k) == SecondRetrieval(tokenEntry[k], Made(h.before), h.now)
<1>1. /\ log' = log /\ clientEntry' = clientEntry /\ purposeEntry' = purposeEntry
      /\ tokenEntry' = [k \in Keys |-> IF k \in MadeBy(ev) THEN again(k) ELSE tokenEntry[k]]
      /\ OvertakenRetrieval(h.before, h.now) \subseteq lost'
  BY DEF ClientUpdate, platform
<1>2. /\ hand'[Client] = Idle /\ pos'[Client] = Version(Client)
      /\ pos[Client] < Len(log[Client]) /\ MadeBy(ev) # {} /\ h.round # 1 /\ h.at = "update"
  BY HandledStep, StreamsAreDistinct
     DEF ClientUpdate, PurposeInv, EntriesInv, Handled, Shapes, Version, AtWork
<1>3. /\ DeletedBy(ev) = {} /\ Version(Client) = pos[Client] + 1 /\ pos[Client] \in Nat
      /\ ev = log[Client][Version(Client)] /\ DOMAIN log[Client] = 1..Len(log[Client])
      /\ Len(log[Client]) \in Nat /\ Version(Client) \in DOMAIN log[Client]
  BY <1>2, StreamFacts, MakesOrDeletes DEF PurposeInv
<1>4. ASSUME NEW k \in Keys
      PROVE  /\ again(k).here = tokenEntry[k].here
             /\ again(k).purposeState =
                  IF Here(h.now.p) /\ h.now.p.state # h.before.p.state THEN h.now.p.state
                  ELSE tokenEntry[k].purposeState
  <2>1. DOMAIN tokenEntry[k] = Fields /\ Made(h.before).purposeState = h.before.p.state
    BY DEF PurposeInv, EntriesInv, TokenShapes, Made
  <2> QED BY <2>1, RetrievalKeeps, RetrievedPurpose
<1> HIDE DEF again
<1>5. ASSUME NEW k \in Keys, Pending(k)
      PROVE  Pending(k)' 
  <2>1. PICK j \in DOMAIN log[Client] : Ahead(k, j) /\ j # Version(Client)
    BY <1>2, <1>5 DEF Pending
  <2>2. Ahead(k, j)'
    BY <1>1, <1>2, <1>3, <2>1 DEF Ahead
  <2> QED BY <1>1, <1>2, <2>2 DEF Pending, Idle
<1>6. ASSUME NEW k \in Keys, tokenEntry'[k].here, "purpose" \notin lost',
             tokenEntry[k].here => Matches(k) \/ Pending(k) \/ OnHand(k)
      PROVE  Matches(k)' \/ Pending(k)' \/ OnHand(k)'
  <2>1. tokenEntry[k].here
    BY <1>1, <1>4, <1>6
  <2>2. CASE k \in MadeBy(ev)
    <3>1. /\ ~(Here(h.before.p) /\ ~Here(h.now.p))
          /\ h.now.p.state # h.before.p.state => h.now.p.state = purposeEntry.state
      BY <1>1, <1>6 DEF OvertakenRetrieval
    <3>2. tokenEntry'[k].purposeState =
            IF Here(h.now.p) /\ h.now.p.state # h.before.p.state THEN h.now.p.state
            ELSE tokenEntry[k].purposeState
      BY <1>1, <1>4, <2>2
    <3>3. CASE Matches(k)
      BY <1>1, <3>1, <3>2, <3>3 DEF Matches
    <3>4. CASE OnHand(k)
      <4>1. tokenEntry[k].purposeState = h.before.p.state /\ h.now.p = purposeEntry
        BY <1>2, <3>4 DEF OnHand
      <4> QED BY <1>1, <3>1, <3>2, <4>1 DEF Matches, Here
    <3> QED BY <1>5, <1>6, <2>1, <3>3, <3>4
  <2>3. CASE k \notin MadeBy(ev)
    <3>1. tokenEntry'[k] = tokenEntry[k]
      BY <1>1, <2>3
    <3>2. ~OnHand(k) /\ (Matches(k) => Matches(k)')
      BY <1>1, <2>3, <3>1 DEF OnHand, Matches
    <3>3. Pending(k) => Pending(k)'
      <4>1. ASSUME Pending(k)
            PROVE  Pending(k)'
        BY <1>5, <4>1
      <4> QED BY <4>1
    <3> QED BY <1>6, <2>1, <3>2, <3>3
  <2> QED BY <2>2, <2>3
<1> QED BY <1>6, ClientStepFacts DEF ClientWriter

LEMMA ClientWriterOwes ==
  ASSUME PurposeInv, ClientWriter
  PROVE  PurposeInv'
  BY ClientSkipOwes, ClientStoreOwes, ClientDeleteOwes, ClientReadOwes, ClientPutOwes,
     ClientUpdateOwes DEF ClientWriter

\* The client's stream grows, or stays.
LEMMA ClientLogGrows ==
  ASSUME PurposeInv, UNCHANGED <<pos, purposeEntry, clientEntry, tokenEntry, hand>>,
         log'[Client] = log[Client] \/ \E ev : log'[Client] = Append(log[Client], ev)
  PROVE  \A k \in Keys : /\ Matches(k) => Matches(k)'
                         /\ Pending(k) => Pending(k)'
                         /\ OnHand(k) => OnHand(k)'
<1> DEFINE l == log[Client]
<1>1. /\ Len(l) \in Nat /\ DOMAIN l = 1..Len(l) /\ Version(Client) = pos[Client] + 1
      /\ pos[Client] \in Nat /\ l \in Seq(ClientEvent)
  BY StreamFacts DEF PurposeInv
<1>2. \A j \in DOMAIN l : j \in DOMAIN log'[Client] /\ log'[Client][j] = l[j]
  <2>1. ASSUME NEW ev, log'[Client] = Append(l, ev), NEW j \in DOMAIN l
        PROVE  j \in DOMAIN log'[Client] /\ log'[Client][j] = l[j]
    BY <1>1, <2>1
  <2> QED BY <2>1
<1> HIDE DEF l
<1>3. Version(Client)' = Version(Client)
  BY DEF Version
<1>4. \A k \in Keys : Matches(k) => Matches(k)'
  BY DEF Matches
<1>5. ASSUME NEW k \in Keys, Pending(k)
      PROVE  Pending(k)'
  <2>1. PICK j \in DOMAIN l : Ahead(k, j) /\ (j # Version(Client) \/ hand[Client].round = 1)
    BY <1>5 DEF Pending, l
  <2>2. j \in DOMAIN log'[Client] /\ Ahead(k, j)'
    BY <1>2, <2>1 DEF Ahead, l
  <2> QED BY <1>3, <2>1, <2>2 DEF Pending
<1>6. ASSUME NEW k \in Keys, OnHand(k)
      PROVE  OnHand(k)'
  <2>1. pos[Client] < Len(l)
    BY <1>6 DEF OnHand, PurposeInv, EntriesInv, AtWork, l
  <2>2. Message(Client)' = Message(Client)
    <3>1. Version(Client) \in DOMAIN l
      BY <1>1, <2>1
    <3>2. log'[Client][Version(Client)] = l[Version(Client)]
      BY <1>2, <3>1
    <3> QED BY <1>3, <3>2 DEF Message, l
  <2> QED BY <1>6, <2>2 DEF OnHand
<1> QED BY <1>4, <1>5, <1>6

LEMMA StoreOwes ==
  ASSUME PurposeInv, EntriesInv', UNCHANGED <<pos, platform, tokenEntry, hand, lost>>,
         log'[Client] = log[Client] \/ \E ev : log'[Client] = Append(log[Client], ev),
         log'[Purpose] = log[Purpose]
  PROVE  PurposeInv'
<1>1. \A k \in Keys : Owed(k) => Owed(k)'
  <2>1. UNCHANGED <<pos, purposeEntry, clientEntry, tokenEntry, hand>>
    BY DEF platform
  <2>2. \A k \in Keys : Reached(k)' => Reached(k)
    BY <2>1 DEF Reached, Version
  <2> QED BY <2>1, <2>2, ClientLogGrows DEF Owed
<1>2. PurposeShown' /\ PurposeAtWork'
  BY DEF PurposeInv, PurposeShown, PurposeAtWork, platform, Message, Version
<1> QED BY <1>1, <1>2 DEF PurposeInv

LEMMA PurposeEventOwes ==
  ASSUME PurposeInv, EntriesInv', NEW type, NEW state, StorePurpose(type, state)
  PROVE  PurposeInv'
<1> DEFINE l == log[Purpose]
           ev == [type |-> type, state |-> state]
           m == Append(l, ev)
<1>1. /\ log' = [log EXCEPT ![Purpose] = m] /\ DOMAIN log = Streams
      /\ UNCHANGED <<pos, platform, tokenEntry, hand, lost>>
  BY DEF StorePurpose, Store, PurposeInv, EntriesInv
<1>2. log'[Purpose] = m
  BY <1>1, StreamsAreDistinct
<1>3. /\ ev \in PurposeEvent /\ ev.type = type /\ ev.state = state
      /\ type = "Activated" => state = "active"
      /\ type = "Archived" <=> state = "archived"
  BY DEF StorePurpose, PurposeEvent, ItemState
<1>4. /\ l \in Seq(PurposeEvent) /\ Len(l) \in Nat \ {0} /\ m \in Seq(PurposeEvent) /\ m # <<>>
      /\ Len(m) = Len(l) + 1 /\ m[Len(m)] = ev /\ DOMAIN l = 1..Len(l)
      /\ DOMAIN m = 1..(Len(l) + 1) /\ \A j \in DOMAIN l : m[j] = l[j]
      /\ pos[Purpose] \in Nat /\ pos[Purpose] <= Len(l) /\ Version(Purpose) = pos[Purpose] + 1
      /\ l[Len(l)].state # "archived"
  <2>1. PurposeTruth # "archived"
    BY DEF StorePurpose
  <2> QED BY <1>3, <2>1, PurposeFacts
<1> HIDE DEF l, m, ev
<1>5. Lifetime(m)
  <2>1. m[1].type = "Activated"
    BY <1>4 DEF PurposeInv, Lifetime, l
  <2>2. ASSUME NEW j \in DOMAIN m
        PROVE  /\ m[j].type = "Activated" => m[j].state = "active"
               /\ m[j].type = "Archived" <=> m[j].state = "archived"
               /\ m[j].type = "Archived" => j = Len(m)
    <3>1. CASE j = Len(m)
      BY <1>3, <1>4, <3>1
    <3>2. CASE j # Len(m)
      <4>1. j \in DOMAIN l /\ m[j] = l[j]
        BY <1>4, <3>2
      <4> QED BY <1>4, <4>1 DEF PurposeInv, Lifetime, l
    <3> QED BY <3>1, <3>2
  <2> QED BY <1>4, <2>1, <2>2 DEF Lifetime
<1>6. Version(Purpose)' = Version(Purpose)
      /\ (pos[Purpose] < Len(l) => Message(Purpose)' = Message(Purpose))
  BY <1>1, <1>2, <1>4 DEF Version, Message, l
<1>7. \A k \in Keys : ~Reached(k)'
  <2>1. hand[Purpose].at # "idle" => pos[Purpose] < Len(l)
    BY DEF PurposeInv, PurposeAtWork, l
  <2> QED BY <1>1, <1>2, <1>4, <1>6, <2>1 DEF Reached
<1>8. PurposeShown'
  <2>1. CASE Here(purposeEntry)
    BY <1>1, <1>2, <1>4, <2>1 DEF platform, PurposeInv, PurposeShown, l
  <2>2. CASE ~Here(purposeEntry)
    <3>1. l[Len(l)].type # "Archived"
      BY <1>4 DEF PurposeInv, Lifetime, l
    <3>2. pos[Purpose] = 0
      BY <2>2, <3>1 DEF PurposeInv, PurposeShown, l
    <3> QED BY <1>1, <2>2, <3>2 DEF platform, PurposeShown
  <2> QED BY <2>1, <2>2
<1>9. PurposeAtWork'
  <2>1. CASE hand[Purpose].at = "idle"
    BY <1>1, <2>1 DEF PurposeAtWork
  <2>2. CASE hand[Purpose].at # "idle"
    <3>1. pos[Purpose] < Len(l)
      BY <2>2 DEF PurposeInv, PurposeAtWork, l
    <3>2. pos'[Purpose] < Len(log'[Purpose])
      BY <1>1, <1>2, <1>4, <3>1
    <3> QED BY <1>1, <1>6, <2>2, <3>1, <3>2 DEF PurposeInv, PurposeAtWork, platform
  <2> QED BY <2>1, <2>2
<1>10. pos'[Purpose] \in 0..Len(log'[Purpose])
  BY <1>1, <1>2, <1>4
<1> QED BY <1>2, <1>5, <1>7, <1>8, <1>9, <1>10, NothingOwed DEF PurposeInv

\* An agreement's stream is one of those of the agreements.
LEMMA AgreementStream ==
  ASSUME NEW type, NEW state, StoreAgreement(type, state)
  PROVE  \E s, ev : s \notin {Purpose, Client} /\ Store(s, ev)
<1>1. LatestAgreement \in Nat
  <2>1. IsFiniteSet(Agreements)
    BY FS_Interval DEF Agreements
  <2>2. {a \in Agreements : log[a] # <<>>} \in SUBSET Agreements
    OBVIOUS
  <2>3. IsFiniteSet({a \in Agreements : log[a] # <<>>})
    BY <2>1, <2>2, FS_Subset
  <2> QED BY <2>3, FS_CardinalityType DEF LatestAgreement
<1>2. InForce => LatestAgreement # 0
  BY DEF InForce, AgreementTruth, ItemState
<1>3. LatestAgreement + 1 \notin {Purpose, Client}
  BY <1>1 DEF Purpose, Client
<1>4. InForce => LatestAgreement \notin {Purpose, Client}
  BY <1>1, <1>2 DEF Purpose, Client
<1> QED BY <1>3, <1>4 DEF StoreAgreement

LEMMA DomainOwes ==
  ASSUME PurposeInv, Domain
  PROVE  PurposeInv'
<1>0. EntriesInv' /\ DOMAIN log = Streams /\ UNCHANGED <<pos, platform, tokenEntry, hand, lost>>
  BY DomainKeepsEntries, DomainKeeps DEF PurposeInv, EntriesInv
<1>1. ASSUME NEW s, NEW ev, s # Purpose, Store(s, ev)
      PROVE  PurposeInv'
  <2>1. log'[Purpose] = log[Purpose]
    BY <1>0, <1>1, StreamsAreDistinct DEF Store
  <2>2. log'[Client] = log[Client] \/ log'[Client] = Append(log[Client], ev)
    BY <1>0, <1>1, StreamsAreDistinct DEF Store
  <2> QED BY <1>0, <2>1, <2>2, StoreOwes
<1>2. ASSUME NEW type, NEW state, StorePurpose(type, state)
      PROVE  PurposeInv'
  BY <1>0, <1>2, PurposeEventOwes
<1>3. ASSUME NEW type, NEW state, StoreAgreement(type, state)
      PROVE  PurposeInv'
  BY <1>1, <1>3, AgreementStream
<1>4. ASSUME NEW type, NEW d, StoreDescriptor(type, d)
      PROVE  PurposeInv'
  BY <1>1, <1>4, StreamsAreDistinct DEF StoreDescriptor
<1>5. ASSUME NEW type, NEW k, StoreClient(type, k)
      PROVE  PurposeInv'
  BY <1>1, <1>5, StreamsAreDistinct DEF StoreClient
<1> QED BY <1>2, <1>3, <1>4, <1>5 DEF Domain

LEMMA FaultsOwe ==
  ASSUME PurposeInv, NEW s \in Streams, Crash(s) \/ Redeliver(s)
  PROVE  PurposeInv'
<1>1. /\ EntriesInv' /\ UNCHANGED <<log, purposeEntry, clientEntry, tokenEntry, lost>>
      /\ Shapes
  BY FaultsKeepEntries DEF PurposeInv, EntriesInv, Crash, Redeliver, platform
<1>2. \A t \in Streams \ {s} : hand'[t] = hand[t] /\ pos'[t] = pos[t]
  <2>1. CASE Crash(s)
    BY <1>1, <2>1, FailsStep DEF Crash
  <2>2. CASE Redeliver(s)
    BY <1>1, <2>2 DEF Redeliver, Shapes
  <2> QED BY <2>1, <2>2
<1>3. \/ pos'[s] = pos[s] /\ hand'[s] = Idle /\ hand[s].at # "idle"
      \/ pos'[s] \in 0..(pos[s] - 1) /\ hand'[s] = hand[s] /\ hand[s].at = "idle"
  <2>1. CASE Crash(s)
    BY <1>1, <2>1, FailsStep DEF Crash
  <2>2. CASE Redeliver(s)
    BY <1>1, <2>2 DEF Redeliver, Shapes
  <2> QED BY <2>1, <2>2
<1>4. CASE s \notin {Purpose, Client}
  <2>1. SameEntries /\ SamePurposes
    BY <1>1 DEF SameEntries, SamePurposes, PurposeInv, EntriesInv, TokenShapes
  <2>2. \A t \in {Purpose, Client} : hand'[t] = hand[t] /\ pos'[t] = pos[t]
    BY <1>2, <1>4, StreamsAreDistinct
  <2> QED BY <1>1, <2>1, <2>2, OthersOwe
<1>5. CASE s = Purpose
  <2>1. pos'[Purpose] < Len(log'[Purpose]) /\ pos'[Purpose] \in 0..pos[Purpose]
        /\ hand'[Purpose].at = "idle"
    <3>1. CASE hand[s].at # "idle"
      <4>1. pos[Purpose] < Len(log[Purpose])
        BY <1>5, <3>1 DEF PurposeInv, PurposeAtWork
      <4> QED BY <1>1, <1>3, <1>5, <3>1, <4>1, PurposeFacts DEF Idle
    <3>2. CASE hand[s].at = "idle"
      BY <1>1, <1>3, <1>5, <3>2, PurposeFacts
    <3> QED BY <3>1, <3>2
  <2>2. \A k \in Keys : ~Reached(k)'
    BY <2>1, PurposeFacts DEF Reached
  <2>3. PurposeShown'
    BY <1>1, <2>1, PurposeFacts DEF PurposeInv, PurposeShown
  <2>4. PurposeAtWork'
    BY <2>1 DEF PurposeAtWork
  <2>5. pos'[Purpose] \in 0..Len(log'[Purpose])
    BY <1>1, <2>1, PurposeFacts
  <2> QED BY <1>1, <2>2, <2>3, <2>4, <2>5, NothingOwed DEF PurposeInv
<1>6. CASE s = Client
  <2>1. hand'[Purpose] = hand[Purpose] /\ pos'[Purpose] = pos[Purpose]
    BY <1>2, <1>6, StreamsAreDistinct
  <2>2. PurposeShown' /\ PurposeAtWork'
    BY <1>1, <2>1 DEF PurposeInv, PurposeShown, PurposeAtWork, Message, Version
  <2>3. /\ pos'[Client] <= pos[Client] /\ hand'[Client].round = 1
        /\ pos[Client] \in Nat /\ pos'[Client] \in Nat
    BY <1>3, <1>6, StreamFacts DEF PurposeInv, EntriesInv, AtWork, Idle
  <2>4. ASSUME NEW k \in Keys, NEW j \in DOMAIN log[Client], Ahead(k, j)
        PROVE  Pending(k)'
    <3>1. Ahead(k, j)'
      BY <1>1, <2>3, <2>4, StreamFacts DEF Ahead, PurposeInv
    <3> QED BY <1>1, <2>3, <3>1 DEF Pending
  <2>5. ASSUME NEW k \in Keys, OnHand(k)
        PROVE  Pending(k)'
    <3>1. k \in MadeBy(Message(Client)) /\ hand[Client].at # "idle"
      BY <2>5 DEF OnHand, PurposeInv, EntriesInv, AtWork
    <3>2. pos[Client] < Len(log[Client])
          /\ clientEntry = IF Message(Client).type = "Deleted" THEN 0 ELSE Version(Client)
      BY <3>1 DEF PurposeInv, EntriesInv, AtWork
    <3>3. PICK j \in DOMAIN log[Client] : j = Version(Client)
      BY <3>2, StreamFacts DEF PurposeInv
    <3>4. Ahead(k, j)
      BY <3>1, <3>2, <3>3, StreamFacts DEF Ahead, Touches, PurposeInv
    <3> QED BY <2>4, <3>4
  <2>6. ASSUME NEW k \in Keys, Owed(k)
        PROVE  Owed(k)'
    <3>1. Reached(k)' => Reached(k)
      BY <1>1, <2>1 DEF Reached, Version
    <3>2. Matches(k) => Matches(k)'
      BY <1>1 DEF Matches
    <3>3. Pending(k) => Pending(k)'
      BY <2>4 DEF Pending
    <3> QED BY <1>1, <2>5, <2>6, <3>1, <3>2, <3>3 DEF Owed
  <2> QED BY <1>1, <2>1, <2>2, <2>6 DEF PurposeInv
<1> QED BY <1>4, <1>5, <1>6

LEMMA PurposeInit == Init => PurposeInv
<1> SUFFICES ASSUME Init PROVE PurposeInv
  OBVIOUS
<1> DEFINE ev == [type |-> "Activated", state |-> "active"]
<1>1. /\ log[Purpose] = <<ev>> /\ pos[Purpose] = 0 /\ hand[Purpose] = Idle
      /\ purposeEntry = NoPurpose
  BY StreamsAreDistinct DEF Init
<1>2. /\ ev \in PurposeEvent /\ ev.type = "Activated" /\ ev.state = "active"
      /\ <<ev>> \in Seq(PurposeEvent) /\ Len(<<ev>>) = 1 /\ DOMAIN <<ev>> = {1} /\ <<ev>>[1] = ev
      /\ <<ev>> # <<>>
  BY DEF PurposeEvent, ItemState
<1> HIDE DEF ev
<1>3. Lifetime(log[Purpose])
  BY <1>1, <1>2 DEF Lifetime
<1>4. PurposeShown /\ PurposeAtWork
  BY <1>1 DEF PurposeShown, PurposeAtWork, Here, NoPurpose, Idle
<1>5. \A k \in Keys : Owed(k)
  BY <1>1, <1>2 DEF Owed, Reached, Idle
<1>6. pos[Purpose] \in 0..Len(log[Purpose])
  BY <1>1, <1>2
<1> QED BY <1>3, <1>4, <1>5, <1>6, EntriesInit DEF PurposeInv

LEMMA PurposeStep ==
  ASSUME PurposeInv, [Next]_vars
  PROVE  PurposeInv'
<1>0. /\ Shapes /\ TokenShapes /\ EntriesInv'
      /\ \A a \in Agreements : a \in Streams /\ a # Client /\ a # Purpose
  BY StreamsAreDistinct, EntriesStep DEF PurposeInv, EntriesInv
<1>1. CASE Domain
  BY <1>1, DomainOwes
<1>2. CASE PurposeWriter
  BY <1>2, PurposeWriterOwes
<1>3. CASE CatalogWriter
  <2>1. /\ Frame(EService) /\ purposeEntry' = purposeEntry /\ clientEntry' = clientEntry
        /\ SameEntries /\ SamePurposes
    BY <1>0, <1>3, CatalogFrame, CatalogKeepsEntries
  <2>2. \A t \in {Purpose, Client} : hand'[t] = hand[t] /\ pos'[t] = pos[t]
    BY <2>1, StreamsAreDistinct DEF Frame
  <2> QED BY <1>0, <2>1, <2>2, OthersOwe DEF Frame
<1>4. ASSUME NEW a \in Agreements, AgreementWriter(a)
      PROVE  PurposeInv'
  <2>1. /\ Frame(a) /\ purposeEntry' = purposeEntry /\ clientEntry' = clientEntry
        /\ SameEntries /\ SamePurposes
    BY <1>0, <1>4, AgreementFrame, AgreementKeepsEntries
  <2>2. \A t \in {Purpose, Client} : hand'[t] = hand[t] /\ pos'[t] = pos[t]
    BY <1>0, <2>1, StreamsAreDistinct DEF Frame
  <2> QED BY <1>0, <2>1, <2>2, OthersOwe DEF Frame
<1>5. CASE ClientWriter
  BY <1>5, ClientWriterOwes
<1>6. ASSUME NEW s \in Streams, Crash(s) \/ Redeliver(s)
      PROVE  PurposeInv'
  BY <1>6, FaultsOwe
<1>7. CASE UNCHANGED vars
  <2>1. SameEntries /\ SamePurposes /\ hand' = hand /\ pos' = pos
        /\ UNCHANGED <<log, clientEntry, purposeEntry, lost>>
    BY <1>0, <1>7 DEF vars, platform, SameEntries, SamePurposes, TokenShapes
  <2> QED BY <1>0, <2>1, OthersOwe
<1> QED BY <1>1, <1>2, <1>3, <1>4, <1>5, <1>6, <1>7 DEF Next, Consumers

\* When the purpose's and the client's events are handled, each of the client's entries
\* shows the purpose as active exactly when it is, unless the second retrieval overtook an
\* update or missed a deletion (updateTokenGenStatesDataForSecondRetrieval, lost): an
\* update found every entry there was, and an entry made since was read after it, or twice.
\* So it is with any number of keys, of activations and suspensions, with writers stopped
\* at any call, and with old events of either stream delivered again.
THEOREM PurposeReachesEntries == Spec => []PurposeSettled
<1>1. Init => PurposeInv
  BY PurposeInit
<1>2. PurposeInv /\ [Next]_vars => PurposeInv'
  BY PurposeStep
<1>3. PurposeInv => PurposeSettled
  <2> SUFFICES ASSUME PurposeInv, Quiet({Purpose, Client}), "purpose" \notin lost,
                      NEW k \in Keys, tokenEntry[k].here
               PROVE  (tokenEntry[k].purposeState = "active") <=> (PurposeTruth = "active")
    BY DEF PurposeSettled, Tokens
  <2>1. /\ pos[Purpose] = Len(log[Purpose]) /\ hand[Purpose].at = "idle"
        /\ pos[Client] = Len(log[Client]) /\ hand[Client].at = "idle"
    BY DEF Quiet
  <2>2. Matches(k) \/ Pending(k) \/ OnHand(k)
    BY <2>1 DEF PurposeInv, Owed, Reached
  <2>3. ~Pending(k) /\ ~OnHand(k)
    BY <2>1, StreamFacts DEF Pending, Ahead, OnHand, PurposeInv, EntriesInv, AtWork
  <2>4. (purposeEntry.state = "active") <=> (PurposeTruth = "active")
    <3>1. /\ PurposeTruth = log[Purpose][Len(log[Purpose])].state
          /\ Len(log[Purpose]) \in Nat \ {0} /\ DOMAIN log[Purpose] = 1..Len(log[Purpose])
      BY PurposeFacts
    <3>2. CASE Here(purposeEntry)
      BY <2>1, <3>1, <3>2 DEF PurposeInv, PurposeShown
    <3>3. CASE ~Here(purposeEntry)
      BY <2>1, <3>1, <3>3 DEF PurposeInv, PurposeShown, Lifetime, Here
    <3> QED BY <3>2, <3>3
  <2> QED BY <2>2, <2>3, <2>4 DEF Matches
<1> QED BY <1>1, <1>2, <1>3, PTL DEF Spec

-----------------------------------------------------------------------------
(* The agreements' streams, and what the pair's entry shows of them.         *)

AgreementEvent == [type : {"Activated", "Changed", "Archived"},
                   state : ItemState \cup {"archived"}, descriptor : Nat]

\* An agreement begins with its only activation, keeps its descriptor, and ends when it is
\* archived; the agreements take effect one after the other.
Course(l) ==
  /\ l \in Seq(AgreementEvent)
  /\ \A j \in DOMAIN l : /\ l[j].type = "Activated" <=> j = 1
                         /\ l[j].type = "Archived" <=> l[j].state = "archived"
                         /\ l[j].type = "Archived" => j = Len(l)
                         /\ l[j].descriptor = l[1].descriptor
Begun(n) == \A a \in Agreements : log[a] # <<>> <=> a <= n
Courses == /\ DOMAIN log = Streams
           /\ \A a \in Agreements : Course(log[a]) /\ pos[a] \in 0..Len(log[a])
           /\ \E n \in Agreements : Begun(n)

\* The entry shows an event of its agreement that is not older than the last handled one,
\* and no later agreement has been handled.
PairShown ==
  LET g == agreementEntry
      l == log[g.id]
  IN
  /\ g.id \in Agreements /\ g.version \in DOMAIN l /\ g.version >= pos[g.id]
  /\ g.state = ItemOf(l[g.version].state) /\ g.descriptor = l[1].descriptor
  /\ \A a \in Agreements : pos[a] >= 1 => g.id >= a

\* A handler that has written the entry, which may be a later agreement's by now.
Upserting == {"catalog", "fill", "check", "refill"}
WorkOf(a) ==
  LET h == hand[a]
      ev == Message(a)
  IN
  /\ h.at \in {"idle", "decide", "states", "close"} \cup Upserting
  /\ h.at # "idle" => pos[a] < Len(log[a])
  /\ h.at = "decide" => h.now.g.id <= agreementEntry.id /\ (agreementEntry.id = a =>
                                                             h.now.g = agreementEntry)
  /\ h.at \notin {"idle", "decide"} => agreementEntry.id >= a
  /\ h.at \in Upserting => ev.type = "Activated"
  /\ h.at = "states" => ev.type = "Changed"
  /\ h.at \in Upserting \cup {"states"} /\ agreementEntry.id = a =>
       agreementEntry.version = Version(a)
  /\ h.at = "close" => ev.type = "Archived" /\ h.now.g.id = a

PairInv == LatestInv /\ Courses /\ PairShown /\ \A a \in Agreements : WorkOf(a)

LEMMA CourseFacts ==
  ASSUME Courses, NEW a \in Agreements
  PROVE  /\ log[a] \in Seq(AgreementEvent) /\ Len(log[a]) \in Nat
         /\ DOMAIN log[a] = 1..Len(log[a])
         /\ pos[a] \in Nat /\ pos[a] <= Len(log[a]) /\ Version(a) = pos[a] + 1
         /\ \A j \in DOMAIN log[a] : log[a][j] \in AgreementEvent
         /\ pos[a] < Len(log[a]) =>
              /\ Version(a) \in DOMAIN log[a]
              /\ Message(a) = log[a][Version(a)]
              /\ Message(a) \in AgreementEvent
              /\ Message(a).type = "Activated" <=> Version(a) = 1
              /\ Message(a).type = "Archived" <=> Message(a).state = "archived"
              /\ Message(a).type = "Archived" => Version(a) = Len(log[a])
              /\ Message(a).descriptor = log[a][1].descriptor
  BY DEF Courses, Course, Version, Message

LEMMA EntryFacts ==
  ASSUME Courses, PairShown
  PROVE  /\ agreementEntry.id \in Agreements /\ agreementEntry.id \in Nat
         /\ agreementEntry.version \in Nat \ {0}
         /\ agreementEntry.version <= Len(log[agreementEntry.id])
         /\ agreementEntry.state \in ItemState /\ Here(agreementEntry)
         /\ agreementEntry.descriptor \in Nat
         /\ agreementEntry.version >= pos[agreementEntry.id]
<1> DEFINE g == agreementEntry
           l == log[g.id]
<1>1. g.id \in Agreements /\ g.version \in DOMAIN l /\ g.version >= pos[g.id]
      /\ g.state = ItemOf(l[g.version].state) /\ g.descriptor = l[1].descriptor
  BY DEF PairShown
<1>2. l \in Seq(AgreementEvent) /\ Len(l) \in Nat /\ DOMAIN l = 1..Len(l)
      /\ \A j \in DOMAIN l : l[j] \in AgreementEvent
  BY <1>1, CourseFacts
<1>3. 1 \in DOMAIN l /\ l[1].descriptor \in Nat
  BY <1>1, <1>2 DEF AgreementEvent
<1>4. g.state \in ItemState /\ Here(g)
  BY <1>1 DEF ItemOf, ItemState, Here
<1>5. g.version \in Nat \ {0} /\ g.version <= Len(l)
  <2> HIDE DEF l
  <2> QED BY <1>1, <1>2
<1>6. g.id \in Nat
  BY <1>1, StreamsAreDistinct
<1> QED BY <1>1, <1>3, <1>4, <1>5, <1>6

\* The steps of the others.
LEMMA OthersKeepPair ==
  ASSUME PairInv, LatestInv', DOMAIN log' = Streams, agreementEntry' = agreementEntry,
         \A a \in Agreements : log'[a] = log[a] /\ pos'[a] = pos[a] /\ hand'[a] = hand[a]
  PROVE  PairInv'
<1>1. Courses'
  BY DEF PairInv, Courses, Begun
<1>2. PairShown'
  BY DEF PairInv, PairShown
<1>3. ASSUME NEW a \in Agreements
      PROVE  WorkOf(a)'
  <2>1. Message(a)' = Message(a) /\ Version(a)' = Version(a)
    BY DEF Message, Version
  <2> QED BY <2>1 DEF PairInv, WorkOf
<1> QED BY <1>1, <1>2, <1>3 DEF PairInv

\* A step of the handler of one agreement, which leaves the entry or writes its own.
LEMMA HandlerKeepsPair ==
  ASSUME PairInv, LatestInv', log' = log, NEW a \in Agreements,
         pos'[a] = pos[a] \/ (pos'[a] = Version(a) /\ pos[a] < Len(log[a])),
         \A b \in Agreements \ {a} : hand'[b] = hand[b] /\ pos'[b] = pos[b],
         \/ agreementEntry' = agreementEntry
         \/ agreementEntry'.id = a /\ a >= agreementEntry.id,
         PairShown', WorkOf(a)'
  PROVE  PairInv'
<1>1. Courses'
  <2>1. \A b \in Agreements : pos'[b] \in 0..Len(log[b])
    BY CourseFacts DEF PairInv, Courses
  <2> QED BY <2>1 DEF PairInv, Courses, Begun
<1>2. ASSUME NEW b \in Agreements \ {a}
      PROVE  WorkOf(b)'
  <2>1. Message(b)' = Message(b) /\ Version(b)' = Version(b) /\ hand'[b] = hand[b]
        /\ pos'[b] = pos[b]
    BY <1>2 DEF Message, Version
  <2>2. WorkOf(b) /\ (hand[b].at = "decide" => hand[b].now.g.id \in Nat)
        /\ a \in Nat /\ b \in Nat /\ a # b /\ agreementEntry.id \in Nat
    BY <1>2, EntryFacts, StreamsAreDistinct DEF PairInv, LatestInv, Looked
  <2>3. CASE agreementEntry' = agreementEntry
    BY <2>1, <2>2, <2>3 DEF WorkOf
  <2>4. CASE agreementEntry'.id = a /\ a >= agreementEntry.id
    BY <2>1, <2>2, <2>4 DEF WorkOf
  <2> QED BY <2>3, <2>4
<1> QED BY <1>1, <1>2 DEF PairInv

\* What there is before such a step.
LEMMA HandlerFacts ==
  ASSUME PairInv, NEW a \in Agreements, AgreementWriter(a)
  PROVE  /\ Shapes /\ Shapes' /\ LatestInv' /\ log' = log /\ a \in Streams
         /\ \A b \in Agreements \ {a} : hand'[b] = hand[b] /\ pos'[b] = pos[b]
         /\ pos[a] < Len(log[a])
<1>1. Shapes /\ a \in Streams
  BY StreamsAreDistinct DEF PairInv, LatestInv
<1>2. LatestInv' /\ Frame(a)
  BY <1>1, AgreementKeepsLatest, AgreementFrame DEF PairInv
<1>3. CASE AgreementRead(a)
  BY <1>1, <1>2, <1>3, StreamsAreDistinct DEF AgreementRead, Takes, Frame
<1>4. CASE hand[a].at # "idle"
  BY <1>1, <1>2, <1>4, StreamsAreDistinct DEF PairInv, LatestInv, WorkOf, Frame
<1> QED BY <1>3, <1>4
    DEF AgreementWriter, AgreementSkip, AgreementUpsert, AgreementUpdate, AgreementStates,
        AgreementClose, AgreementReadCatalog, AgreementFill, AgreementCheck, AgreementRefill

\* A write that marks nothing is made from what the entry still shows, or is its agreement's.
LEMMA Unsuperseded ==
  ASSUME NEW a \in Agreements, "agreement" \notin lost'
  PROVE  /\ AgreementUpsert(a) \/ AgreementUpdate(a) \/ AgreementClose(a) =>
              hand[a].now.g.id = agreementEntry.id
         /\ AgreementStates(a) \/ AgreementFill(a) \/ AgreementRefill(a) => agreementEntry.id = a
<1>1. OvertakenEntry(a) = {} => hand[a].now.g.id = agreementEntry.id
  BY DEF OvertakenEntry, AgreementData
<1>2. "agreement" \notin OvertakenEntry(a) => OvertakenEntry(a) = {}
  BY DEF OvertakenEntry
<1>3. "agreement" \notin Superseded(a) => agreementEntry.id = a
  BY DEF Superseded
<1> QED BY <1>1, <1>2, <1>3
    DEF AgreementUpsert, AgreementUpdate, AgreementClose, AgreementStates, AgreementFill,
        AgreementRefill

LEMMA ReadKeepsPair ==
  ASSUME PairInv, "agreement" \notin lost', NEW a \in Agreements, AgreementRead(a)
  PROVE  PairInv'
<1>1. /\ Shapes /\ LatestInv' /\ log' = log /\ a \in Streams /\ pos[a] < Len(log[a])
      /\ \A b \in Agreements \ {a} : hand'[b] = hand[b] /\ pos'[b] = pos[b]
  BY HandlerFacts DEF AgreementWriter
<1>2. hand'[a].at = "decide" /\ pos' = pos /\ agreementEntry' = agreementEntry
  BY <1>1 DEF AgreementRead, platform, Shapes, HandFields
<1>3. PairShown'
  BY <1>1, <1>2 DEF PairInv, PairShown
<1>4. WorkOf(a)'
  <2>1. hand'[a].now.g = agreementEntry /\ agreementEntry.id \in Nat
    BY <1>1, EntryFacts DEF AgreementRead, Shapes, HandFields, ReadFields, PairInv
  <2> QED BY <1>1, <1>2, <2>1 DEF WorkOf, Upserting
<1> QED BY <1>1, <1>2, <1>3, <1>4, HandlerKeepsPair

LEMMA SkipKeepsPair ==
  ASSUME PairInv, "agreement" \notin lost', NEW a \in Agreements, AgreementSkip(a)
  PROVE  PairInv'
<1> DEFINE g == agreementEntry
<1>1. /\ Shapes /\ LatestInv' /\ log' = log /\ a \in Streams /\ pos[a] < Len(log[a])
      /\ \A b \in Agreements \ {a} : hand'[b] = hand[b] /\ pos'[b] = pos[b]
  BY HandlerFacts DEF AgreementWriter
<1>2. /\ hand'[a] = Idle /\ pos'[a] = Version(a) /\ g' = g
      /\ hand[a].at = "decide" /\ AgreementSkips(a)
  BY <1>1, HandledStep DEF AgreementSkip, platform, Handled, Shapes, Version
<1> DEFINE r == hand[a].now.g
<1>3. Here(r) /\ r.id \in Nat /\ r.id <= g.id /\ (g.id = a => r = g)
  BY <1>2 DEF PairInv, LatestInv, Looked, WorkOf, Here, ItemState
<1>4. g.id >= a /\ (g.id = a => g.version >= Version(a))
  <2>0. g.id \in Nat /\ a \in Nat /\ Here(g) /\ g.version \in Nat /\ Version(a) \in Nat
        /\ pos[a] \in Nat /\ Version(a) = pos[a] + 1
    BY EntryFacts, CourseFacts, StreamsAreDistinct DEF PairInv
  <2> HIDE DEF r
  <2>1. CASE ~IsLatest(r, a)
    BY <1>3, <2>0, <2>1 DEF IsLatest
  <2>2. CASE NewerOfSame(r, a)
    BY <1>3, <2>0, <2>2 DEF NewerOfSame, Newer
  <2>3. CASE Message(a).type = "Archived" /\ r.id # a
    <3>1. Version(a) # 1
      BY <1>1, <2>3, CourseFacts DEF PairInv
    <3>2. pos[a] >= 1
      BY <2>0, <3>1
    <3> QED BY <1>3, <2>3, <3>2 DEF PairInv, PairShown
  <2> QED BY <1>2, <1>3, <2>1, <2>2, <2>3 DEF AgreementSkips, r
<1>5. PairShown'
  <2>1. g.version >= pos'[g.id]
    <3>1. CASE g.id = a
      BY <1>2, <1>4, <3>1
    <3>2. CASE g.id # a
      BY <1>1, <3>2, EntryFacts DEF PairInv
    <3> QED BY <3>1, <3>2
  <2>2. \A b \in Agreements : pos'[b] >= 1 => g.id >= b
    BY <1>1, <1>4 DEF PairInv, PairShown
  <2> QED BY <1>1, <1>2, <2>1, <2>2 DEF PairInv, PairShown
<1>6. WorkOf(a)'
  BY <1>2 DEF WorkOf, Idle, Upserting
<1> QED BY <1>1, <1>2, <1>5, <1>6, HandlerKeepsPair

\* What a decision to write rests on.
LEMMA DecidedFacts ==
  ASSUME PairInv, NEW a \in Agreements, hand[a].at = "decide", ~AgreementSkips(a),
         hand[a].now.g.id = agreementEntry.id \/ agreementEntry.id = a
  PROVE  /\ pos[a] < Len(log[a]) /\ a >= agreementEntry.id
         /\ Message(a).type # "Activated" => agreementEntry.id = a
         /\ agreementEntry.id = a => Version(a) >= agreementEntry.version
<1> DEFINE g == agreementEntry
<1>1. /\ pos[a] < Len(log[a]) /\ (g.id = a => hand[a].now.g = g)
      /\ Here(hand[a].now.g) /\ hand[a].now.g.id \in Nat
  BY DEF PairInv, LatestInv, Looked, WorkOf, Here, ItemState
<1>2. g.id \in Nat /\ a \in Nat /\ Here(g) /\ g.version \in Nat /\ Version(a) \in Nat
      /\ pos[a] \in Nat /\ Version(a) = pos[a] + 1 /\ g.version <= Len(log[g.id])
  BY EntryFacts, CourseFacts, StreamsAreDistinct DEF PairInv
<1>3. a >= g.id
  BY <1>1, <1>2 DEF AgreementSkips, IsLatest
<1>4. ASSUME Message(a).type # "Activated"
      PROVE  g.id = a
  <2>1. Version(a) # 1
    BY <1>1, <1>4, CourseFacts DEF PairInv
  <2>2. g.id >= a
    BY <1>2, <2>1 DEF PairInv, PairShown
  <2> QED BY <1>2, <1>3, <2>2
<1>5. ASSUME g.id = a
      PROVE  Version(a) >= g.version
  <2>1. CASE Message(a).type = "Archived"
    BY <1>1, <1>2, <1>5, <2>1, CourseFacts DEF PairInv
  <2>2. CASE Message(a).type # "Archived"
    BY <1>1, <1>2, <1>5, <2>2 DEF AgreementSkips, NewerOfSame, Newer
  <2> QED BY <2>1, <2>2
<1> QED BY <1>1, <1>3, <1>4, <1>5

LEMMA UpsertKeepsPair ==
  ASSUME PairInv, "agreement" \notin lost', NEW a \in Agreements, AgreementUpsert(a)
  PROVE  /\ PairInv' /\ pos' = pos
         /\ agreementEntry' = [state |-> ItemOf(Message(a).state), version |-> 1,
                               id |-> a, descriptor |-> Message(a).descriptor]
         /\ Version(a) = 1 /\ hand'[a].at = "catalog"
         /\ agreementEntry.id = a => agreementEntry'.state = agreementEntry.state
                                     /\ agreementEntry'.descriptor = agreementEntry.descriptor
<1> DEFINE g == agreementEntry
<1>1. /\ Shapes /\ LatestInv' /\ log' = log /\ a \in Streams /\ pos[a] < Len(log[a])
      /\ \A b \in Agreements \ {a} : hand'[b] = hand[b] /\ pos'[b] = pos[b]
  BY HandlerFacts DEF AgreementWriter
<1>2. /\ hand'[a].at = "catalog" /\ pos' = pos /\ hand[a].at = "decide" /\ ~AgreementSkips(a)
      /\ Message(a).type = "Activated"
      /\ g' = [state |-> ItemOf(Message(a).state), version |-> Version(a),
               id |-> a, descriptor |-> Message(a).descriptor]
  BY <1>1, GoStep DEF AgreementUpsert
<1>3. /\ a >= g.id /\ (g.id = a => Version(a) >= g.version)
      /\ g.id \in Nat /\ a \in Nat /\ g.version \in Nat \ {0}
  BY <1>2, Unsuperseded, DecidedFacts, EntryFacts, StreamsAreDistinct DEF PairInv
<1>4. /\ Version(a) = 1 /\ pos[a] = 0 /\ 1 \in DOMAIN log[a] /\ Message(a) = log[a][1]
      /\ pos[a] \in Nat
  BY <1>1, <1>2, CourseFacts DEF PairInv
<1>5. PairShown'
  <2>1. \A b \in Agreements : pos[b] >= 1 => g.id >= b
    BY DEF PairInv, PairShown
  <2>2. \A b \in Agreements : pos[b] >= 1 => a >= b
    <3> HIDE DEF g
    <3> QED BY <1>3, <2>1, StreamsAreDistinct
  <2> QED BY <1>1, <1>2, <1>4, <2>2 DEF PairShown
<1>6. WorkOf(a)'
  <2>1. Message(a)' = Message(a) /\ Version(a)' = Version(a)
    BY <1>1, <1>2 DEF Message, Version
  <2> QED BY <1>1, <1>2, <1>3, <2>1 DEF WorkOf, Upserting
<1>7. PairInv'
  BY <1>1, <1>2, <1>3, <1>5, <1>6, HandlerKeepsPair
<1>8. ASSUME g.id = a
      PROVE  g'.state = g.state /\ g'.descriptor = g.descriptor
  <2>1. g.version = 1
    BY <1>3, <1>4, <1>8
  <2> QED BY <1>2, <1>4, <1>8, <2>1 DEF PairInv, PairShown
<1> QED BY <1>2, <1>4, <1>7, <1>8

LEMMA UpdateKeepsPair ==
  ASSUME PairInv, "agreement" \notin lost', NEW a \in Agreements, AgreementUpdate(a)
  PROVE  /\ PairInv' /\ pos' = pos /\ agreementEntry.id = a
         /\ agreementEntry'.id = a /\ agreementEntry'.version = Version(a) /\ Version(a) > pos[a]
         /\ agreementEntry'.descriptor = agreementEntry.descriptor
         /\ hand'[a].at = "states" /\ hand[a].at = "decide" /\ pos[a] >= 1
<1> DEFINE g == agreementEntry
           ev == Message(a)
<1>1. /\ Shapes /\ LatestInv' /\ log' = log /\ a \in Streams /\ pos[a] < Len(log[a])
      /\ \A b \in Agreements \ {a} : hand'[b] = hand[b] /\ pos'[b] = pos[b]
  BY HandlerFacts DEF AgreementWriter
<1>2. /\ hand'[a].at = "states" /\ pos' = pos /\ hand[a].at = "decide" /\ ~AgreementSkips(a)
      /\ ev.type = "Changed"
      /\ g' = [g EXCEPT !.state = ItemOf(ev.state), !.version = Version(a)]
  BY <1>1, GoStep DEF AgreementUpdate
<1>3. /\ g.id = a /\ DOMAIN g = EntryFields /\ a \in Nat
  BY <1>2, Unsuperseded, DecidedFacts, StreamsAreDistinct DEF PairInv, LatestInv, PairEntry
<1>4. /\ g'.id = a /\ g'.version = Version(a) /\ g'.state = ItemOf(ev.state)
      /\ g'.descriptor = g.descriptor
  BY <1>2, <1>3 DEF EntryFields
<1>5. /\ Version(a) = pos[a] + 1 /\ Version(a) \in DOMAIN log[a] /\ ev = log[a][Version(a)]
      /\ pos[a] \in Nat /\ Version(a) # 1
  BY <1>1, <1>2, CourseFacts DEF PairInv
<1>6. PairShown'
  BY <1>1, <1>2, <1>3, <1>4, <1>5 DEF PairInv, PairShown
<1>7. WorkOf(a)'
  <2>1. Message(a)' = ev /\ Version(a)' = Version(a)
    BY <1>1, <1>2 DEF Message, Version
  <2> QED BY <1>1, <1>2, <1>3, <1>4, <2>1 DEF WorkOf, Upserting
<1>8. PairInv'
  BY <1>1, <1>2, <1>3, <1>4, <1>6, <1>7, HandlerKeepsPair
<1> QED BY <1>2, <1>3, <1>4, <1>5, <1>8

\* The end of a message whose entry is written.
LEMMA HandledKeepsPair ==
  ASSUME PairInv, LatestInv', log' = log, NEW a \in Agreements, a \in Streams, Shapes,
         hand[a].at \in {"states", "check", "refill"}, Handled(a), agreementEntry' = agreementEntry,
         \A b \in Agreements \ {a} : hand'[b] = hand[b] /\ pos'[b] = pos[b]
  PROVE  PairInv'
<1> DEFINE g == agreementEntry
<1>1. hand'[a] = Idle /\ pos'[a] = Version(a)
  BY HandledStep DEF Handled, Shapes, Version
<1>2. g.id >= a /\ (g.id = a => g.version = Version(a)) /\ pos[a] < Len(log[a])
  BY DEF PairInv, WorkOf, Upserting
<1>3. a \in Nat /\ Version(a) \in Nat
  BY <1>2, CourseFacts, StreamsAreDistinct DEF PairInv
<1>4. PairShown'
  <2>1. \A b \in Agreements : pos'[b] >= 1 => g.id >= b
    BY <1>2 DEF PairInv, PairShown
  <2>2. g.version >= pos'[g.id]
    <3>1. CASE g.id = a
      BY <1>1, <1>2, <1>3, <3>1
    <3>2. CASE g.id # a
      BY <3>2, EntryFacts DEF PairInv
    <3> QED BY <3>1, <3>2
  <2> QED BY <2>1, <2>2 DEF PairInv, PairShown
<1>5. WorkOf(a)'
  BY <1>1 DEF WorkOf, Idle, Upserting
<1> QED BY <1>1, <1>2, <1>4, <1>5, HandlerKeepsPair

LEMMA StatesKeepsPair ==
  ASSUME PairInv, "agreement" \notin lost', NEW a \in Agreements, AgreementStates(a)
  PROVE  /\ PairInv' /\ agreementEntry' = agreementEntry /\ agreementEntry.id = a
         /\ \/ /\ hand[a].at = "states" /\ Message(a).type = "Changed"
               /\ ItemOf(Message(a).state) = agreementEntry.state
               /\ pos'[a] = Version(a) /\ hand'[a] = Idle
            \/ /\ hand[a].at = "decide" /\ Message(a).type = "Archived"
               /\ pos' = pos /\ hand'[a].at = "close"
<1> DEFINE g == agreementEntry
<1>1. /\ Shapes /\ LatestInv' /\ log' = log /\ a \in Streams /\ pos[a] < Len(log[a])
      /\ \A b \in Agreements \ {a} : hand'[b] = hand[b] /\ pos'[b] = pos[b]
  BY HandlerFacts DEF AgreementWriter
<1>2. g' = g /\ g.id = a /\ a \in Nat
  BY Unsuperseded, StreamsAreDistinct DEF AgreementStates, platform
<1>3. CASE hand[a].at = "states" /\ Handled(a)
  <2>1. PairInv'
    BY <1>1, <1>2, <1>3, HandledKeepsPair
  <2>2. hand'[a] = Idle /\ pos'[a] = Version(a)
    BY <1>1, <1>3, HandledStep DEF Handled, Shapes, Version
  <2>3. g.id = a /\ g.version = Version(a) /\ Message(a).type = "Changed"
    BY <1>2, <1>3 DEF PairInv, WorkOf
  <2>4. ItemOf(Message(a).state) = g.state
    BY <2>3 DEF PairInv, PairShown, Message
  <2> QED BY <1>2, <1>3, <2>1, <2>2, <2>3, <2>4
<1>4. CASE /\ hand[a].at = "decide" /\ ~AgreementSkips(a) /\ Message(a).type = "Archived"
           /\ hand' = [hand EXCEPT ![a].at = "close"] /\ UNCHANGED pos
  <2>1. hand'[a].at = "close" /\ hand'[a].now = hand[a].now /\ pos' = pos
    BY <1>1, <1>4 DEF Shapes, HandFields
  <2>2. g.id = a /\ hand[a].now.g = g
    BY <1>2, <1>4 DEF PairInv, WorkOf
  <2>3. PairShown'
    BY <1>1, <1>2, <2>1 DEF PairInv, PairShown
  <2>4. WorkOf(a)'
    <3>1. Message(a)' = Message(a) /\ Version(a)' = Version(a)
      BY <1>1, <2>1 DEF Message, Version
    <3> QED BY <1>1, <1>2, <1>4, <2>1, <2>2, <3>1 DEF WorkOf, Upserting
  <2>5. PairInv'
    BY <1>1, <1>2, <2>1, <2>3, <2>4, HandlerKeepsPair
  <2> QED BY <1>2, <1>4, <2>1, <2>2, <2>5
<1> QED BY <1>3, <1>4 DEF AgreementStates

LEMMA CloseKeepsPair ==
  ASSUME PairInv, "agreement" \notin lost', NEW a \in Agreements, AgreementClose(a)
  PROVE  /\ PairInv' /\ agreementEntry.id = a /\ agreementEntry'.id = a
         /\ agreementEntry'.descriptor = agreementEntry.descriptor
         /\ agreementEntry'.state = "inactive" /\ agreementEntry'.version = Version(a)
         /\ pos'[a] = Version(a) /\ hand'[a] = Idle /\ pos[a] >= 1
<1> DEFINE g == agreementEntry
           ev == Message(a)
<1>1. /\ Shapes /\ LatestInv' /\ log' = log /\ a \in Streams /\ pos[a] < Len(log[a])
      /\ \A b \in Agreements \ {a} : hand'[b] = hand[b] /\ pos'[b] = pos[b]
  BY HandlerFacts DEF AgreementWriter
<1>2. /\ g' = [g EXCEPT !.state = "inactive", !.version = Version(a)]
      /\ hand[a].at = "close" /\ hand'[a] = Idle /\ pos'[a] = Version(a)
  BY <1>1, HandledStep DEF AgreementClose, Handled, Shapes, Version
<1>3. g.id = a /\ ev.type = "Archived" /\ DOMAIN g = EntryFields /\ a \in Nat
  BY <1>2, Unsuperseded, StreamsAreDistinct DEF PairInv, WorkOf, LatestInv, PairEntry
<1>4. /\ g'.id = a /\ g'.descriptor = g.descriptor
      /\ g'.state = "inactive" /\ g'.version = Version(a)
  BY <1>2, <1>3 DEF EntryFields
<1>5. /\ Version(a) \in DOMAIN log[a] /\ ev = log[a][Version(a)] /\ ev.state = "archived"
      /\ Version(a) = pos[a] + 1 /\ pos[a] \in Nat /\ Version(a) # 1 /\ Version(a) \in Nat
  BY <1>1, <1>3, CourseFacts DEF PairInv
<1>6. PairShown'
  <2>1. ItemOf(log[a][Version(a)].state) = "inactive"
    BY <1>5 DEF ItemOf
  <2>2. \A b \in Agreements : pos'[b] >= 1 => a >= b
    BY <1>1, <1>3, StreamsAreDistinct DEF PairInv, PairShown
  <2> QED BY <1>1, <1>2, <1>3, <1>4, <1>5, <2>1, <2>2 DEF PairInv, PairShown
<1>7. WorkOf(a)'
  BY <1>2 DEF WorkOf, Idle, Upserting
<1>8. PairInv'
  BY <1>1, <1>2, <1>3, <1>4, <1>6, <1>7, HandlerKeepsPair
<1> QED BY <1>2, <1>3, <1>4, <1>5, <1>8

\* The copies of an activation.
LEMMA FillingKeepsPair ==
  ASSUME PairInv, "agreement" \notin lost', NEW a \in Agreements,
         AgreementReadCatalog(a) \/ AgreementFill(a) \/ AgreementCheck(a) \/ AgreementRefill(a)
  PROVE  /\ PairInv' /\ agreementEntry' = agreementEntry
         /\ AgreementFill(a) \/ AgreementRefill(a) => agreementEntry.id = a
         /\ agreementEntry.id = a =>
              /\ agreementEntry.version = 1 /\ Version(a) = 1
              /\ ItemOf(Message(a).state) = agreementEntry.state
              /\ Message(a).descriptor = agreementEntry.descriptor
<1> DEFINE g == agreementEntry
<1>1. /\ Shapes /\ LatestInv' /\ log' = log /\ a \in Streams /\ pos[a] < Len(log[a])
      /\ \A b \in Agreements \ {a} : hand'[b] = hand[b] /\ pos'[b] = pos[b]
  BY HandlerFacts DEF AgreementWriter
<1>2. g' = g /\ hand[a].at \in Upserting
  BY DEF AgreementReadCatalog, AgreementFill, AgreementCheck, AgreementRefill, platform, Upserting
<1>3. /\ g.id >= a /\ (g.id = a => g.version = Version(a)) /\ Message(a).type = "Activated"
      /\ AgreementFill(a) \/ AgreementRefill(a) => g.id = a
  BY <1>2, Unsuperseded DEF PairInv, WorkOf, Upserting
<1>4. /\ Version(a) = 1 /\ Message(a) = log[a][Version(a)]
      /\ Message(a).descriptor = log[a][1].descriptor
  BY <1>1, <1>3, CourseFacts DEF PairInv
<1>5. g.id = a => ItemOf(Message(a).state) = g.state /\ Message(a).descriptor = g.descriptor
  BY <1>3, <1>4 DEF PairInv, PairShown
<1>6. PairInv'
  <2>1. CASE hand[a].at \in {"check", "refill"} /\ Handled(a)
    BY <1>1, <1>2, <2>1, HandledKeepsPair
  <2>2. CASE pos' = pos /\ hand'[a].at \in {"fill", "check", "refill"}
    <3>1. PairShown'
      BY <1>1, <1>2, <2>2 DEF PairInv, PairShown
    <3>2. WorkOf(a)'
      <4>1. Message(a)' = Message(a) /\ Version(a)' = Version(a)
        BY <1>1, <2>2 DEF Message, Version
      <4> QED BY <1>1, <1>2, <1>3, <2>2, <4>1 DEF WorkOf, Upserting
    <3> QED BY <1>1, <1>2, <2>2, <3>1, <3>2, HandlerKeepsPair
  <2> QED BY <1>1, <2>1, <2>2
          DEF AgreementReadCatalog, AgreementFill, AgreementCheck, AgreementRefill, Shapes,
              HandFields
<1> QED BY <1>2, <1>3, <1>4, <1>5, <1>6

LEMMA AgreementKeepsPair ==
  ASSUME PairInv, "agreement" \notin lost', NEW a \in Agreements, AgreementWriter(a)
  PROVE  PairInv'
  BY ReadKeepsPair, SkipKeepsPair, UpsertKeepsPair, UpdateKeepsPair, StatesKeepsPair,
     CloseKeepsPair, FillingKeepsPair DEF AgreementWriter

\* The latest agreement is the last one that has begun.
LEMMA LatestIs ==
  ASSUME Courses, NEW n \in Agreements, Begun(n)
  PROVE  /\ LatestAgreement = n /\ Len(log[n]) \in DOMAIN log[n]
         /\ AgreementTruth.state = log[n][Len(log[n])].state
         /\ AgreementTruth.descriptor = log[n][1].descriptor
         /\ InForce <=> log[n][Len(log[n])].type # "Archived"
<1>1. n \in Nat \ {0} /\ n <= MaxAgreement
  BY DEF Agreements
<1>2. {a \in Agreements : log[a] # <<>>} = 1..n
  BY <1>1 DEF Begun, Agreements
<1>3. LatestAgreement = n
  <2>1. Cardinality(1..n) = n
    BY <1>1, FS_Interval
  <2> QED BY <1>2, <2>1 DEF LatestAgreement
<1>4. log[n] # <<>> /\ Len(log[n]) \in Nat /\ Len(log[n]) \in DOMAIN log[n]
  <2>1. log[n] # <<>>
    BY <1>1 DEF Begun
  <2> QED BY <2>1, CourseFacts
<1>5. AgreementTruth = [state |-> Last(log[n]).state, descriptor |-> Last(log[n]).descriptor]
  BY <1>1, <1>3 DEF AgreementTruth
<1>6. AgreementTruth.state = log[n][Len(log[n])].state
      /\ AgreementTruth.descriptor = log[n][Len(log[n])].descriptor
  BY <1>5 DEF Last
<1>7. log[n][Len(log[n])].descriptor = log[n][1].descriptor
      /\ (log[n][Len(log[n])].type = "Archived" <=> log[n][Len(log[n])].state = "archived")
      /\ log[n][Len(log[n])] \in AgreementEvent
  BY <1>4, CourseFacts DEF Courses, Course
<1>8. InForce <=> log[n][Len(log[n])].type # "Archived"
  BY <1>6, <1>7 DEF InForce, AgreementEvent, ItemState
<1> QED BY <1>3, <1>4, <1>6, <1>7, <1>8

\* An agreement's stream grows.
LEMMA CourseGrows ==
  ASSUME PairInv, LatestInv', NEW a \in Agreements, NEW ev,
         log' = [log EXCEPT ![a] = Append(@, ev)], Course(log'[a]),
         \E n \in Agreements : Begun(n)', UNCHANGED <<pos, agreementEntry, hand>>
  PROVE  PairInv'
<1> DEFINE g == agreementEntry
<1>1. a \in Streams /\ DOMAIN log = Streams /\ Agreements \subseteq Streams
  BY StreamsAreDistinct DEF PairInv, Courses
<1>2. /\ log'[a] = Append(log[a], ev) /\ DOMAIN log' = Streams
      /\ \A b \in Agreements \ {a} : log'[b] = log[b]
  BY <1>1
<1>3. /\ Len(log'[a]) = Len(log[a]) + 1 /\ Len(log[a]) \in Nat /\ DOMAIN log[a] = 1..Len(log[a])
      /\ DOMAIN log'[a] = 1..(Len(log[a]) + 1) /\ pos[a] \in Nat /\ pos[a] <= Len(log[a])
      /\ \A j \in DOMAIN log[a] : log'[a][j] = log[a][j]
  <2>1. log[a] \in Seq(AgreementEvent)
    BY CourseFacts DEF PairInv
  <2> QED BY <1>2, <2>1, CourseFacts DEF PairInv
<1>4. Courses'
  BY <1>2, <1>3 DEF PairInv, Courses
<1>5. PairShown'
  <2>1. CASE g.id = a
    <3>1. g.version \in DOMAIN log[a] /\ 1 \in DOMAIN log[a]
      BY <1>3, <2>1, EntryFacts DEF PairInv
    <3> QED BY <1>3, <2>1, <3>1 DEF PairInv, PairShown
  <2>2. CASE g.id # a
    BY <1>2, <2>2 DEF PairInv, PairShown
  <2> QED BY <2>1, <2>2
<1>6. ASSUME NEW b \in Agreements
      PROVE  WorkOf(b)'
  <2>1. CASE hand[b].at = "idle"
    BY <2>1 DEF WorkOf, Upserting
  <2>2. CASE hand[b].at # "idle"
    <3>1. pos[b] < Len(log[b])
      BY <2>2 DEF PairInv, WorkOf
    <3>2. Version(b)' = Version(b) /\ Version(b) \in DOMAIN log[b]
      BY <3>1, CourseFacts DEF Version, PairInv
    <3>3. Message(b)' = Message(b) /\ pos'[b] < Len(log'[b])
      BY <1>2, <1>3, <3>1, <3>2 DEF Message
    <3> QED BY <3>2, <3>3 DEF PairInv, WorkOf
  <2> QED BY <2>1, <2>2
<1> QED BY <1>4, <1>5, <1>6 DEF PairInv

LEMMA AgreementEventKeepsPair ==
  ASSUME PairInv, LatestInv', NEW type, NEW state, StoreAgreement(type, state)
  PROVE  PairInv'
<1>0. PICK n \in Agreements : Begun(n)
  BY DEF PairInv, Courses
<1>1. n \in Nat \ {0} /\ n <= MaxAgreement /\ LatestAgreement = n
  BY <1>0, LatestIs DEF PairInv, Agreements
<1>2. ASSUME NEW ev, Store(n + 1, ev), type = "Activated", state \in ItemState, n < MaxAgreement,
             ev = [type |-> type, state |-> state, descriptor |-> Newest]
      PROVE  PairInv'
  <2>1. n + 1 \in Agreements /\ log[n + 1] = <<>>
    BY <1>0, <1>1, <1>2 DEF Agreements, Begun
  <2>2. log' = [log EXCEPT ![n + 1] = Append(@, ev)] /\ UNCHANGED <<pos, agreementEntry, hand>>
    BY <1>2 DEF Store, platform
  <2>3. DOMAIN log = Streams /\ n + 1 \in Streams /\ Agreements \subseteq Streams
    BY <2>1, StreamsAreDistinct DEF PairInv, Courses
  <2>4. log'[n + 1] = <<ev>> /\ \A b \in Agreements \ {n + 1} : log'[b] = log[b]
    BY <2>1, <2>2, <2>3
  <2>5. Newest \in Nat
    <3>1. IsFiniteSet(Descriptors)
      BY FS_Interval DEF Descriptors
    <3>2. IsFiniteSet(Published)
      BY <3>1, FS_Subset DEF Published
    <3> QED BY <3>2, FS_CardinalityType DEF Newest
  <2>6. Course(<<ev>>)
    <3>1. ev \in AgreementEvent /\ ev.type = "Activated" /\ ev.state # "archived"
      BY <1>2, <2>5 DEF AgreementEvent, ItemState
    <3> HIDE DEF AgreementEvent
    <3>2. <<ev>> \in Seq(AgreementEvent) /\ DOMAIN <<ev>> = {1} /\ <<ev>>[1] = ev
      BY <3>1
    <3> QED BY <3>1, <3>2 DEF Course
  <2>7. Begun(n + 1)'
    <3>1. <<ev>> # <<>> /\ \A b \in Agreements : b \in Nat
      BY StreamsAreDistinct
    <3>2. ASSUME NEW b \in Agreements
          PROVE  log'[b] # <<>> <=> b <= n + 1
      <4>1. CASE b = n + 1
        BY <1>1, <2>4, <3>1, <4>1
      <4>2. CASE b # n + 1
        <5>1. log'[b] = log[b]
          BY <2>4, <4>2
        <5>2. log[b] # <<>> <=> b <= n
          BY <1>0 DEF Begun
        <5> QED BY <1>1, <3>1, <4>2, <5>1, <5>2
      <4> QED BY <4>1, <4>2
    <3> QED BY <3>2 DEF Begun
  <2> QED BY <2>1, <2>2, <2>4, <2>6, <2>7, CourseGrows
<1>3. ASSUME NEW ev, Store(n, ev), InForce,
             \/ type = "Changed" /\ state \in ItemState
             \/ type = "Archived" /\ state = "archived",
             ev = [type |-> type, state |-> state, descriptor |-> AgreementTruth.descriptor]
      PROVE  PairInv'
  <2>1. log' = [log EXCEPT ![n] = Append(@, ev)] /\ UNCHANGED <<pos, agreementEntry, hand>>
    BY <1>3 DEF Store, platform
  <2>2. DOMAIN log = Streams /\ n \in Streams /\ Agreements \subseteq Streams
    BY StreamsAreDistinct DEF PairInv, Courses
  <2> DEFINE l == log[n]
             m == log'[n]
  <2>3. m = Append(l, ev) /\ \A b \in Agreements \ {n} : log'[b] = log[b]
    BY <2>1, <2>2
  <2>4. /\ Len(l) \in DOMAIN l /\ l \in Seq(AgreementEvent) /\ Len(l) \in Nat
        /\ DOMAIN l = 1..Len(l) /\ l[Len(l)].type # "Archived"
        /\ AgreementTruth.descriptor = l[1].descriptor
    BY <1>0, <1>3, LatestIs, CourseFacts DEF PairInv
  <2>5. /\ ev \in AgreementEvent /\ ev.type # "Activated"
        /\ ev.type = "Archived" <=> ev.state = "archived"
        /\ ev.descriptor = l[1].descriptor
    <3>1. l[1] \in AgreementEvent
      BY <2>4
    <3> HIDE DEF l
    <3> QED BY <1>3, <2>4, <3>1 DEF AgreementEvent, ItemState
  <2>6. /\ m \in Seq(AgreementEvent) /\ Len(m) = Len(l) + 1 /\ DOMAIN m = 1..(Len(l) + 1)
        /\ m[Len(m)] = ev /\ \A j \in DOMAIN l : m[j] = l[j]
    <3> HIDE DEF l, m
    <3> QED BY <2>3, <2>4, <2>5
  <2>7. Course(l)
    BY DEF PairInv, Courses
  <2> HIDE DEF l, m
  <2>8. Course(m)
    <3>1. ASSUME NEW j \in DOMAIN m
          PROVE  /\ m[j].type = "Activated" <=> j = 1
                 /\ m[j].type = "Archived" <=> m[j].state = "archived"
                 /\ m[j].type = "Archived" => j = Len(m)
                 /\ m[j].descriptor = m[1].descriptor
      <4>1. m[1] = l[1] /\ Len(l) >= 1
        BY <2>4, <2>6
      <4>2. CASE j = Len(m)
        BY <2>4, <2>5, <2>6, <4>1, <4>2
      <4>3. CASE j # Len(m)
        <5>1. j \in DOMAIN l /\ m[j] = l[j]
          BY <2>4, <2>6, <4>3
        <5>2. m[j].type # "Archived"
          BY <2>4, <2>7, <5>1 DEF Course
        <5> QED BY <2>7, <4>1, <5>1, <5>2 DEF Course
      <4> QED BY <4>2, <4>3
    <3> QED BY <2>6, <3>1 DEF Course
  <2>9. Begun(n)'
    <3>1. l # <<>> /\ m # <<>>
      BY <2>4, <2>6
    <3> QED BY <1>0, <2>3, <3>1 DEF Begun, l, m
  <2> QED BY <2>1, <2>8, <2>9, CourseGrows DEF m
<1> QED BY <1>1, <1>2, <1>3 DEF StoreAgreement

LEMMA PairStep ==
  ASSUME PairInv, "agreement" \notin lost', [Next]_vars
  PROVE  PairInv'
<1>0. LatestInv' /\ Shapes /\ DOMAIN log = Streams
  BY LatestStep DEF PairInv, LatestInv, Courses
<1>1. CASE Domain
  <2>1. UNCHANGED <<pos, agreementEntry, hand>>
    BY <1>1, DomainKeeps DEF platform
  <2>2. ASSUME NEW s \in Streams \ Agreements, NEW ev, Store(s, ev)
        PROVE  PairInv'
    <3>1. DOMAIN log' = Streams /\ \A a \in Agreements : log'[a] = log[a]
      BY <1>0, <2>2, StreamsAreDistinct DEF Store
    <3> QED BY <1>0, <2>1, <3>1, OthersKeepPair
  <2>3. ASSUME NEW type, NEW state, StorePurpose(type, state)
        PROVE  PairInv'
    BY <2>2, <2>3, StreamsAreDistinct DEF StorePurpose
  <2>4. ASSUME NEW type, NEW state, StoreAgreement(type, state)
        PROVE  PairInv'
    BY <1>0, <2>4, AgreementEventKeepsPair
  <2>5. ASSUME NEW type, NEW d, StoreDescriptor(type, d)
        PROVE  PairInv'
    BY <2>2, <2>5, StreamsAreDistinct DEF StoreDescriptor
  <2>6. ASSUME NEW type, NEW k, StoreClient(type, k)
        PROVE  PairInv'
    BY <2>2, <2>6, StreamsAreDistinct DEF StoreClient
  <2> QED BY <1>1, <2>3, <2>4, <2>5, <2>6 DEF Domain
<1>2. ASSUME NEW s \in Streams \ Agreements, Frame(s), agreementEntry' = agreementEntry
      PROVE  PairInv'
  <2>1. \A a \in Agreements : hand'[a] = hand[a] /\ pos'[a] = pos[a]
    BY <1>2, StreamsAreDistinct DEF Frame
  <2> QED BY <1>0, <1>2, <2>1, OthersKeepPair DEF Frame
<1>3. CASE Consumers
  BY <1>0, <1>2, <1>3, PurposeFrame, CatalogFrame, ClientFrame, StreamsAreDistinct,
     AgreementKeepsPair DEF Consumers
<1>4. ASSUME NEW s \in Streams, Crash(s) \/ Redeliver(s)
      PROVE  PairInv'
  <2>1. log' = log /\ agreementEntry' = agreementEntry
    BY <1>4 DEF Crash, Redeliver, platform
  <2>2. \A t \in Streams \ {s} : hand'[t] = hand[t] /\ pos'[t] = pos[t]
    <3>1. CASE Crash(s)
      BY <1>0, <3>1, FailsStep DEF Crash
    <3>2. CASE Redeliver(s)
      BY <1>0, <3>2 DEF Redeliver, Shapes
    <3> QED BY <1>4, <3>1, <3>2
  <2>3. CASE s \notin Agreements
    BY <1>0, <2>1, <2>2, <2>3, StreamsAreDistinct, OthersKeepPair
  <2>4. CASE s \in Agreements
    <3>1. hand'[s].at = "idle" /\ pos'[s] \in 0..pos[s]
      <4>1. pos[s] \in Nat
        BY <2>4, CourseFacts DEF PairInv
      <4>2. CASE Crash(s)
        BY <1>0, <4>1, <4>2, FailsStep, IdleShape DEF Crash
      <4>3. CASE Redeliver(s)
        BY <1>0, <4>1, <4>3 DEF Redeliver, Shapes
      <4> QED BY <1>4, <4>2, <4>3
    <3>2. \A a \in Agreements : pos'[a] \in 0..pos[a] /\ pos[a] \in Nat /\ pos[a] \in 0..Len(log[a])
                                /\ Len(log[a]) \in Nat
      BY <2>2, <3>1, StreamsAreDistinct, CourseFacts DEF PairInv, Courses
    <3>3. Courses'
      BY <2>1, <3>2 DEF PairInv, Courses, Begun
    <3>4. PairShown'
      BY <2>1, <3>2, EntryFacts DEF PairInv, PairShown
    <3>5. ASSUME NEW a \in Agreements
          PROVE  WorkOf(a)'
      <4>1. CASE a = s
        BY <3>1, <4>1 DEF WorkOf, Upserting
      <4>2. CASE a # s
        <5>1. hand'[a] = hand[a] /\ pos'[a] = pos[a]
          BY <2>2, <4>2, StreamsAreDistinct
        <5> QED BY <2>1, <5>1 DEF PairInv, WorkOf, Message, Version
      <4> QED BY <4>1, <4>2
    <3> QED BY <1>0, <3>3, <3>4, <3>5 DEF PairInv
  <2> QED BY <2>3, <2>4
<1>5. CASE UNCHANGED vars
  BY <1>0, <1>5, OthersKeepPair DEF vars, platform
<1> QED BY <1>1, <1>3, <1>4, <1>5 DEF Next

LEMMA PairInit == Init => PairInv
<1> SUFFICES ASSUME Init PROVE PairInv
  OBVIOUS
<1> DEFINE ev == [type |-> "Activated", state |-> "active", descriptor |-> 1]
<1>1. /\ DOMAIN log = Streams /\ log[1] = <<ev>>
      /\ \A a \in Agreements \ {1} : log[a] = <<>> /\ pos[a] = 0
      /\ pos[1] = 1 /\ \A a \in Agreements : hand[a] = Idle
      /\ agreementEntry = [state |-> "active", version |-> 1, id |-> 1, descriptor |-> 1]
  BY StreamsAreDistinct DEF Init
<1>2. ev \in AgreementEvent /\ ev.type = "Activated" /\ ev.state = "active" /\ ev.descriptor = 1
  BY DEF AgreementEvent, ItemState
<1> HIDE DEF ev
<1>3. /\ <<ev>> \in Seq(AgreementEvent) /\ DOMAIN <<ev>> = {1} /\ <<ev>>[1] = ev /\ Len(<<ev>>) = 1
      /\ <<>> \in Seq(AgreementEvent) /\ <<ev>> # <<>> /\ DOMAIN <<>> = {} /\ Len(<<>>) = 0
  BY <1>2
<1>4. Course(<<ev>>) /\ Course(<<>>)
  BY <1>2, <1>3 DEF Course
<1>5. Courses
  <2>1. \A a \in Agreements : Course(log[a]) /\ pos[a] \in 0..Len(log[a])
    <3>1. ASSUME NEW a \in Agreements
          PROVE  Course(log[a]) /\ pos[a] \in 0..Len(log[a])
      <4>1. CASE a = 1
        BY <1>1, <1>3, <1>4, <4>1
      <4>2. CASE a # 1
        BY <1>1, <1>3, <1>4, <4>2
      <4> QED BY <4>1, <4>2
    <3> QED BY <3>1
  <2>2. Begun(1) /\ 1 \in Agreements
    <3>1. 1 \in Agreements /\ \A a \in Agreements : a \in Nat \ {0}
      BY DEF Agreements
    <3>2. \A a \in Agreements : a <= 1 <=> a = 1
      BY <3>1
    <3>3. \A a \in Agreements : log[a] # <<>> <=> a = 1
      BY <1>1, <1>3
    <3> QED BY <3>1, <3>2, <3>3 DEF Begun
  <2> QED BY <1>1, <2>1, <2>2 DEF Courses
<1>6. PairShown
  <2> DEFINE g == agreementEntry
  <2>1. g.id = 1 /\ g.version = 1 /\ g.state = "active" /\ g.descriptor = 1 /\ 1 \in Agreements
    BY <1>1, StreamsAreDistinct
  <2>2. 1 \in DOMAIN log[1] /\ log[1][1] = ev
    BY <1>1, <1>3
  <2>3. \A a \in Agreements : pos[a] >= 1 => g.id >= a
    <3>1. \A a \in Agreements : pos[a] >= 1 => a = 1
      BY <1>1
    <3> QED BY <2>1, <3>1
  <2> HIDE DEF g
  <2>4. g.version >= pos[g.id] /\ g.state = ItemOf(log[g.id][g.version].state)
        /\ g.descriptor = log[g.id][1].descriptor
    BY <1>1, <1>2, <2>1, <2>2 DEF ItemOf
  <2> QED BY <2>1, <2>2, <2>3, <2>4 DEF PairShown, g
<1>7. \A a \in Agreements : WorkOf(a)
  BY <1>1 DEF WorkOf, Idle, Upserting
<1> QED BY <1>5, <1>6, <1>7, LatestInit DEF PairInv

-----------------------------------------------------------------------------
(* What an entry and a reader hold of the pair's entry.                      *)

AgreementParts == {"state", "id", "descriptor"}
Held(e, part) == IF part = "state" THEN e.agreementState
                 ELSE IF part = "id" THEN e.agreementId ELSE e.descriptor
Blank(e) == \A part \in AgreementParts : Held(e, part) = NoAgreement[part]

\* What was found is not what the pair's entry says.
Unlike(f, g) == <<f.agreementId, f.agreementState, f.descriptor>> # <<g.id, g.state, g.descriptor>>

\* What the writers make of an entry, part by part.
LEMMA RefilledParts ==
  ASSUME NEW e, DOMAIN e = Fields, NEW a, NEW c
  PROVE  /\ FilledByAgreement(e, a, c).linked = e.linked
         /\ Held(FilledByAgreement(e, a, c), "state") = ItemOf(Message(a).state)
         /\ Held(FilledByAgreement(e, a, c), "id") = a
         /\ Held(FilledByAgreement(e, a, c), "descriptor") = Message(a).descriptor
  BY DEF FilledByAgreement, Fields, Held

LEMMA MadeParts ==
  ASSUME NEW r, NEW part \in AgreementParts
  PROVE  /\ Made(r).here = TRUE /\ Made(r).linked = Here(r.p)
         /\ Held(Made(r), part) = r.g[part]
  BY DEF Made, Held, AgreementParts

\* A step that leaves the links and the agreement's parts of an entry as they were.
SameLink(k) == /\ tokenEntry'[k].here = tokenEntry[k].here
               /\ tokenEntry'[k].linked = tokenEntry[k].linked
               /\ \A part \in AgreementParts :
                    Held(tokenEntry'[k], part) = Held(tokenEntry[k], part)

LEMMA CatalogKeepsLinks ==
  ASSUME TokenShapes, CatalogWriter, NEW k \in Keys
  PROVE  SameLink(k)
<1>1. CASE tokenEntry' = tokenEntry
  BY <1>1 DEF SameLink
<1>2. CASE DescriptorStates
  <2> DEFINE ev == Message(EService)
             of == ev.descriptors[ev.of]
             upd(e) == [e EXCEPT
               !.descriptorState = IF ev.type = "QuotasUpdated" THEN @ ELSE ItemOf(of.state),
               !.lifespan = IF ev.type \in {"Published", "QuotasUpdated"} THEN of.lifespan ELSE @]
  <2>1. tokenEntry'[k] = IF tokenEntry[k].here /\ tokenEntry[k].descriptor = ev.of
                         THEN upd(tokenEntry[k]) ELSE tokenEntry[k]
    BY <1>2 DEF DescriptorStates, UpdateTokens
  <2>2. ASSUME NEW e, DOMAIN e = Fields
        PROVE  /\ upd(e).here = e.here /\ upd(e).linked = e.linked
               /\ \A part \in AgreementParts : Held(upd(e), part) = Held(e, part)
    BY <2>2 DEF Fields, Held
  <2> HIDE DEF upd
  <2> QED BY <2>1, <2>2 DEF SameLink, TokenShapes
<1>3. CASE PreviousStates
  <2>1. tokenEntry'[k] = IF tokenEntry[k].here /\ tokenEntry[k].descriptor = Previous
                         THEN [tokenEntry[k] EXCEPT !.descriptorState = "inactive"]
                         ELSE tokenEntry[k]
    BY <1>3 DEF PreviousStates, UpdateTokens
  <2> QED BY <2>1 DEF SameLink, TokenShapes, Fields, Held
<1> QED BY <1>1, <1>2, <1>3
        DEF CatalogWriter, DescriptorSkip, DescriptorStore, PreviousDelete

LEMMA PurposeKeepsLinks ==
  ASSUME TokenShapes, PurposeWriter, ~PurposeFill, NEW k \in Keys
  PROVE  SameLink(k)
<1>1. CASE tokenEntry' = tokenEntry
  BY <1>1 DEF SameLink
<1>2. CASE PurposeStates
  <2> DEFINE x == IF Message(Purpose).state = "active" THEN "active" ELSE "inactive"
  <2>1. tokenEntry'[k] = IF tokenEntry[k].here /\ TRUE
                         THEN [tokenEntry[k] EXCEPT !.purposeState = x] ELSE tokenEntry[k]
    BY <1>2 DEF PurposeStates, UpdateTokens
  <2> HIDE DEF x
  <2> QED BY <2>1 DEF SameLink, TokenShapes, Fields, Held
<1> QED BY <1>1, <1>2
        DEF PurposeWriter, PurposeSkip, PurposeStore, PurposeQuery, PurposeReadAgreement,
            PurposeReadCatalog

\* The links that the purpose's fill makes.
LEMMA FillLinks ==
  ASSUME TokenShapes, PurposeFill, NEW k \in Keys
  PROVE  LET h == hand[Purpose] IN
         \/ Fails(Purpose) /\ tokenEntry' = tokenEntry
         \/ /\ Handled(Purpose)
            /\ ~h.found[k].here => tokenEntry'[k] = tokenEntry[k]
            /\ h.found[k].here =>
                 /\ tokenEntry'[k].here = tokenEntry[k].here /\ tokenEntry'[k].linked = TRUE
                 /\ \A part \in AgreementParts :
                      Held(tokenEntry'[k], part) =
                        IF Here(h.now.g) /\ Unlike(h.found[k], h.now.g) THEN h.now.g[part]
                        ELSE Held(tokenEntry[k], part)
                 /\ Overtaken(h.now.g, h.now.c) \subseteq lost'
<1> DEFINE h == hand[Purpose]
           queried == {x \in Keys : h.found[x].here}
           filled(x) == FilledByPurpose(tokenEntry[x], h.found[x], h.now.g, h.now.c)
<1>1. \/ Fails(Purpose) /\ tokenEntry' = tokenEntry
      \/ /\ Handled(Purpose)
         /\ tokenEntry' = [x \in Keys |-> IF x \in queried THEN filled(x) ELSE tokenEntry[x]]
         /\ queried # {} => Overtaken(h.now.g, h.now.c) \subseteq lost'
  BY DEF PurposeFill
<1>2. DOMAIN tokenEntry[k] = Fields
  BY DEF TokenShapes
<1>3. /\ filled(k).here = tokenEntry[k].here /\ filled(k).linked = TRUE
      /\ \A part \in AgreementParts :
           Held(filled(k), part) = IF Here(h.now.g) /\ Unlike(h.found[k], h.now.g)
                                   THEN h.now.g[part] ELSE Held(tokenEntry[k], part)
  <2>1. filled(k).here = tokenEntry[k].here
    BY <1>2, FillsKeep
  <2> DEFINE e == tokenEntry[k]
             f == h.found[k]
             g == h.now.g
             c == h.now.c
             x == FilledByPurpose(e, f, g, c)
  <2> HIDE DEF e, f, g, c
  <2>2. DOMAIN e = Fields
    BY <1>2 DEF e
  <2>3. ASSUME NEW part \in AgreementParts
        PROVE  /\ x.linked = TRUE
               /\ (Here(g) /\ Unlike(f, g)) => Held(x, part) = g[part]
               /\ ~(Here(g) /\ Unlike(f, g)) => Held(x, part) = Held(e, part)
    <3>1. CASE part = "state"
      BY <2>2, <3>1 DEF FilledByPurpose, Fields, Held, Unlike
    <3>2. CASE part = "id"
      BY <2>2, <3>2 DEF FilledByPurpose, Fields, Held, Unlike
    <3>3. CASE part = "descriptor"
      BY <2>2, <3>3 DEF FilledByPurpose, Fields, Held, Unlike
    <3> QED BY <2>3, <3>1, <3>2, <3>3 DEF AgreementParts
  <2>4. "id" \in AgreementParts
    BY DEF AgreementParts
  <2> HIDE DEF x
  <2>5. /\ x.linked = TRUE
        /\ \A part \in AgreementParts :
             Held(x, part) = IF Here(g) /\ Unlike(f, g) THEN g[part] ELSE Held(e, part)
    <3>1. CASE Here(g) /\ Unlike(f, g)
      BY <2>3, <2>4, <3>1
    <3>2. CASE ~(Here(g) /\ Unlike(f, g))
      BY <2>3, <2>4, <3>2
    <3> QED BY <3>1, <3>2
  <2> QED BY <2>1, <2>5 DEF e, f, g, c, x
<1> HIDE DEF filled
<1>4. CASE Fails(Purpose) /\ tokenEntry' = tokenEntry
  BY <1>4
<1>5. CASE /\ Handled(Purpose)
           /\ tokenEntry' = [x \in Keys |-> IF x \in queried THEN filled(x) ELSE tokenEntry[x]]
           /\ queried # {} => Overtaken(h.now.g, h.now.c) \subseteq lost'
  <2>1. tokenEntry'[k] = IF h.found[k].here THEN filled(k) ELSE tokenEntry[k]
    BY <1>5
  <2>2. h.found[k].here => Overtaken(h.now.g, h.now.c) \subseteq lost'
    BY <1>5
  <2> HIDE DEF h
  <2>3. CASE h.found[k].here
    <3>1. tokenEntry'[k] = filled(k)
      BY <2>1, <2>3
    <3> QED BY <1>3, <1>5, <2>2, <2>3, <3>1 DEF h
  <2>4. CASE ~h.found[k].here
    BY <1>5, <2>1, <2>4 DEF h
  <2> QED BY <2>3, <2>4
<1> QED BY <1>1, <1>4, <1>5

\* What the agreements' writer writes: linked entries only.
LEMMA AgreementLinks ==
  ASSUME TokenShapes, NEW a \in Agreements, AgreementWriter(a), NEW k \in Keys
  PROVE  /\ tokenEntry'[k].here = tokenEntry[k].here
         /\ tokenEntry'[k].linked = tokenEntry[k].linked
         /\ ~tokenEntry[k].linked => tokenEntry'[k] = tokenEntry[k]
         /\ AgreementStates(a) /\ tokenEntry[k].here /\ tokenEntry[k].linked =>
              /\ Held(tokenEntry'[k], "state") = ItemOf(Message(a).state)
              /\ \A part \in AgreementParts \ {"state"} :
                   Held(tokenEntry'[k], part) = Held(tokenEntry[k], part)
         /\ (AgreementFill(a) \/ AgreementRefill(a)) /\ tokenEntry[k].here /\ tokenEntry[k].linked =>
              /\ Held(tokenEntry'[k], "state") = ItemOf(Message(a).state)
              /\ Held(tokenEntry'[k], "id") = a
              /\ Held(tokenEntry'[k], "descriptor") = Message(a).descriptor
         /\ ~AgreementStates(a) /\ ~AgreementFill(a) /\ ~AgreementRefill(a) =>
              tokenEntry' = tokenEntry
<1> DEFINE e == tokenEntry[k]
<1>0. DOMAIN e = Fields
  BY DEF TokenShapes
<1>1. ASSUME AgreementStates(a)
      PROVE  tokenEntry'[k] = IF e.here /\ e.linked
                              THEN [e EXCEPT !.agreementState = ItemOf(Message(a).state)] ELSE e
  BY <1>1 DEF AgreementStates, UpdateTokens, Linked
<1>2. ASSUME AgreementFill(a) \/ AgreementRefill(a)
      PROVE  \E c : tokenEntry'[k] = IF e.here /\ e.linked
                                     THEN FilledByAgreement(e, a, c) ELSE e
  <2>1. CASE AgreementFill(a)
    <3> DEFINE c == hand[a].now.c
    <3>1. tokenEntry'[k] = IF e.here /\ e.linked THEN FilledByAgreement(e, a, c) ELSE e
      BY <2>1 DEF AgreementFill, UpdateTokens, Linked
    <3> QED BY <3>1
  <2>2. CASE AgreementRefill(a)
    <3> DEFINE c == hand[a].now.c
    <3>1. tokenEntry'[k] = IF e.here /\ e.linked THEN FilledByAgreement(e, a, c) ELSE e
      BY <2>2 DEF AgreementRefill, UpdateTokens, Linked
    <3> QED BY <3>1
  <2> QED BY <1>2, <2>1, <2>2
<1>3. ~AgreementStates(a) /\ ~AgreementFill(a) /\ ~AgreementRefill(a) => tokenEntry' = tokenEntry
  BY DEF AgreementWriter, AgreementRead, AgreementSkip, AgreementUpsert, AgreementUpdate,
         AgreementClose, AgreementReadCatalog, AgreementCheck
<1>4. CASE AgreementStates(a)
  <2>1. ~AgreementFill(a) /\ ~AgreementRefill(a)
    BY <1>4 DEF AgreementStates, AgreementFill, AgreementRefill
  <2> QED BY <1>0, <1>1, <1>4, <2>1 DEF Fields, Held, AgreementParts
<1>5. CASE AgreementFill(a) \/ AgreementRefill(a)
  <2>1. ~AgreementStates(a)
    BY <1>5 DEF AgreementStates, AgreementFill, AgreementRefill
  <2>2. PICK c : tokenEntry'[k] = IF e.here /\ e.linked THEN FilledByAgreement(e, a, c) ELSE e
    BY <1>2, <1>5
  <2> HIDE DEF e
  <2>3. /\ FilledByAgreement(e, a, c).linked = e.linked /\ FilledByAgreement(e, a, c).here = e.here
        /\ Held(FilledByAgreement(e, a, c), "state") = ItemOf(Message(a).state)
        /\ Held(FilledByAgreement(e, a, c), "id") = a
        /\ Held(FilledByAgreement(e, a, c), "descriptor") = Message(a).descriptor
    BY <1>0, RefilledParts, FillsKeep
  <2> QED BY <1>5, <2>1, <2>2, <2>3 DEF e
<1>6. CASE ~AgreementStates(a) /\ ~AgreementFill(a) /\ ~AgreementRefill(a)
  BY <1>3, <1>6
<1> QED BY <1>4, <1>5, <1>6

-----------------------------------------------------------------------------
(* The links of entries with the pair, and what the writers have read.       *)

PairRead(g) == g.state \in ItemState
Retrieval(r) == IF Here(r.p) THEN PairRead(r.g) ELSE r.g = NoAgreement

\* An entry that no purpose is linked to shows no agreement.
UnlinkedBlank == \A k \in Keys : ~tokenEntry[k].linked => Blank(tokenEntry[k])

PurposeReads ==
  LET h == hand[Purpose] IN
  /\ h.at \in {"catalog", "fill"} => PairRead(h.now.g)
  /\ h.at \in {"agreement", "catalog", "fill"} =>
       \A k \in Keys : ~h.found[k].linked => Blank(h.found[k])

ClientReads ==
  LET h == hand[Client] IN
  /\ h.at = "purpose" => h.now = NothingRead
  /\ h.at = "agreement" => Here(h.now.p) /\ h.now.g = NoAgreement
  /\ h.at \in {"catalog", "put", "update"} => Retrieval(h.now)
  /\ h.at = "catalog" => Here(h.now.p)
  /\ h.round # 1 => /\ Retrieval(h.before)
                    /\ \A k \in MadeBy(Message(Client)) :
                         ~tokenEntry[k].linked => ~Here(h.before.p)

LinkInv == PairInv /\ PurposeInv /\ UnlinkedBlank /\ PurposeReads /\ ClientReads

\* The authorization writer at work.
LEMMA ClientAtWork ==
  ASSUME EntriesInv, hand[Client].at # "idle" \/ hand[Client].round # 1
  PROVE  /\ hand[Client].at # "idle"
         /\ pos[Client] < Len(log[Client]) /\ Version(Client) = pos[Client] + 1
         /\ Version(Client) \in DOMAIN log[Client] /\ Message(Client) = log[Client][Version(Client)]
         /\ clientEntry = IF Message(Client).type = "Deleted" THEN 0 ELSE Version(Client)
         /\ MadeBy(Message(Client)) \subseteq Keys /\ DeletedBy(Message(Client)) \subseteq Keys
         /\ MadeBy(Message(Client)) = {} \/ DeletedBy(Message(Client)) = {}
<1>1. hand[Client].at # "idle" /\ pos[Client] < Len(log[Client])
      /\ clientEntry = IF Message(Client).type = "Deleted" THEN 0 ELSE Version(Client)
  BY DEF EntriesInv, AtWork
<1> QED BY <1>1, StreamFacts, MakesOrDeletes

\* A step that unlinks no entry leaves what the client's writer has read true.
LEMMA ClientReadsStay ==
  ASSUME EntriesInv, ClientReads, hand'[Client] = hand[Client],
         hand[Client].at # "idle" => Message(Client)' = Message(Client),
         \A k \in Keys : ~tokenEntry'[k].linked => ~tokenEntry[k].linked
  PROVE  ClientReads'
<1>1. hand[Client].round # 1 => MadeBy(Message(Client)) \subseteq Keys /\ hand[Client].at # "idle"
  BY ClientAtWork
<1> QED BY <1>1 DEF ClientReads

\* The steps of the writers of the agreements and of the descriptors, and those of no writer.
LEMMA OthersKeepLinks ==
  ASSUME LinkInv, PairInv', PurposeInv',
         hand'[Client] = hand[Client], hand'[Purpose] = hand[Purpose],
         hand[Client].at # "idle" => Message(Client)' = Message(Client),
         \A k \in Keys : ~tokenEntry'[k].linked => ~tokenEntry[k].linked /\ Blank(tokenEntry'[k])
  PROVE  LinkInv'
<1>1. ClientReads'
  BY ClientReadsStay DEF LinkInv, PurposeInv
<1>2. UnlinkedBlank' /\ PurposeReads'
  BY DEF LinkInv, UnlinkedBlank, PurposeReads
<1> QED BY <1>1, <1>2 DEF LinkInv

LEMMA CatalogKeepsLinkInv ==
  ASSUME LinkInv, PairInv', PurposeInv', CatalogWriter
  PROVE  LinkInv'
<1>1. Shapes /\ TokenShapes
  BY DEF LinkInv, PurposeInv, EntriesInv
<1>2. Frame(EService)
  BY <1>1, CatalogFrame
<1>3. /\ hand'[Client] = hand[Client] /\ hand'[Purpose] = hand[Purpose]
      /\ pos'[Client] = pos[Client] /\ log' = log
  BY <1>2, StreamsAreDistinct DEF Frame
<1>4. ASSUME NEW k \in Keys, ~tokenEntry'[k].linked
      PROVE  ~tokenEntry[k].linked /\ Blank(tokenEntry'[k])
  BY <1>1, <1>4, CatalogKeepsLinks DEF LinkInv, UnlinkedBlank, SameLink, Blank
<1> QED BY <1>3, <1>4, OthersKeepLinks DEF Message, Version

LEMMA AgreementKeepsLinkInv ==
  ASSUME LinkInv, PairInv', PurposeInv', NEW a \in Agreements, AgreementWriter(a)
  PROVE  LinkInv'
<1>1. Shapes /\ TokenShapes
  BY DEF LinkInv, PurposeInv, EntriesInv
<1>2. Frame(a)
  BY <1>1, AgreementFrame
<1>3. /\ hand'[Client] = hand[Client] /\ hand'[Purpose] = hand[Purpose]
      /\ pos'[Client] = pos[Client] /\ log' = log
  BY <1>2, StreamsAreDistinct DEF Frame
<1>4. ASSUME NEW k \in Keys, ~tokenEntry'[k].linked
      PROVE  ~tokenEntry[k].linked /\ Blank(tokenEntry'[k])
  BY <1>1, <1>4, AgreementLinks DEF LinkInv, UnlinkedBlank
<1> QED BY <1>3, <1>4, OthersKeepLinks DEF Message, Version

LEMMA PurposeKeepsLinkInv ==
  ASSUME LinkInv, PairInv', PurposeInv', PurposeWriter
  PROVE  LinkInv'
<1> DEFINE h == hand[Purpose]
<1>1. Shapes /\ TokenShapes /\ EntriesInv
  BY DEF LinkInv, PurposeInv, EntriesInv
<1>2. Frame(Purpose)
  BY <1>1, PurposeFrame
<1>3. hand'[Client] = hand[Client] /\ pos'[Client] = pos[Client] /\ log' = log
  BY <1>2, StreamsAreDistinct DEF Frame
<1>4. ASSUME NEW k \in Keys, ~tokenEntry'[k].linked
      PROVE  ~tokenEntry[k].linked /\ Blank(tokenEntry'[k])
  <2>1. CASE PurposeFill
    BY <1>1, <1>4, <2>1, FillLinks DEF LinkInv, UnlinkedBlank
  <2>2. CASE ~PurposeFill
    BY <1>1, <1>4, <2>2, PurposeKeepsLinks DEF LinkInv, UnlinkedBlank, SameLink, Blank
  <2> QED BY <2>1, <2>2
<1>5. ClientReads'
  <2>1. Message(Client)' = Message(Client)
    BY <1>3 DEF Message, Version
  <2> QED BY <1>1, <1>3, <1>4, <2>1, ClientReadsStay DEF LinkInv
<1>6. UnlinkedBlank'
  BY <1>4 DEF UnlinkedBlank
<1>7. PurposeReads'
  <2>1. CASE hand'[Purpose].at \in {"idle", "states", "query"}
    BY <2>1 DEF PurposeReads
  <2>2. CASE PurposeQuery
    <3>1. hand'[Purpose].at = "agreement" /\ hand'[Purpose].found = tokenEntry
      BY <1>1, <2>2, StreamsAreDistinct DEF PurposeQuery, Shapes, HandFields
    <3> QED BY <3>1 DEF PurposeReads, LinkInv, UnlinkedBlank
  <2>3. CASE PurposeReadAgreement
    <3>1. /\ hand'[Purpose].found = h.found /\ h.at = "agreement"
          /\ hand'[Purpose].now.g = agreementEntry /\ hand'[Purpose].at \in {"catalog", "fill"}
      BY <1>1, <2>3, StreamsAreDistinct DEF PurposeReadAgreement, Shapes, HandFields, ReadFields
    <3> QED BY <3>1, EntryFacts DEF PurposeReads, LinkInv, PairInv, PairRead
  <2>4. CASE PurposeReadCatalog
    <3>1. /\ hand'[Purpose].found = h.found /\ h.at = "catalog"
          /\ hand'[Purpose].now.g = h.now.g /\ hand'[Purpose].at = "fill"
      BY <1>1, <2>4, StreamsAreDistinct DEF PurposeReadCatalog, Shapes, HandFields, ReadFields
    <3> QED BY <3>1 DEF PurposeReads, LinkInv
  <2>5. ASSUME Handled(Purpose) \/ Fails(Purpose)
        PROVE  hand'[Purpose].at = "idle"
    BY <1>1, <2>5, HandledStep, FailsStep, StreamsAreDistinct, IdleShape
  <2>6. ASSUME PurposeStore
        PROVE  hand'[Purpose].at \in {"states", "query"}
    BY <1>1, <2>6, GoStep, StreamsAreDistinct DEF PurposeStore
  <2> QED BY <2>1, <2>2, <2>3, <2>4, <2>5, <2>6
          DEF PurposeWriter, PurposeSkip, PurposeStates, PurposeFill
<1> QED BY <1>5, <1>6, <1>7 DEF LinkInv

\* What the second retrieval leaves in an entry.
LEMMA UpdateLinks ==
  ASSUME TokenShapes, ClientUpdate, NEW k \in Keys
  PROVE  LET h == hand[Client] IN
         /\ tokenEntry'[k].here = tokenEntry[k].here
         /\ k \notin MadeBy(Message(Client)) => tokenEntry'[k] = tokenEntry[k]
         /\ k \in MadeBy(Message(Client)) =>
              /\ tokenEntry'[k].linked = IF Here(h.now.p) THEN TRUE ELSE tokenEntry[k].linked
              /\ \A part \in AgreementParts :
                   /\ (Here(h.now.g) /\ part # "id" /\ h.now.g[part] # h.before.g[part]) =>
                        Held(tokenEntry'[k], part) = h.now.g[part]
                   /\ ~(Here(h.now.g) /\ part # "id" /\ h.now.g[part] # h.before.g[part]) =>
                        Held(tokenEntry'[k], part) = Held(tokenEntry[k], part)
<1> DEFINE h == hand[Client]
           keys == MadeBy(Message(Client))
           again(x) == SecondRetrieval(tokenEntry[x], Made(h.before), h.now)
<1>1. tokenEntry' = [x \in Keys |-> IF x \in keys THEN again(x) ELSE tokenEntry[x]]
  BY DEF ClientUpdate
<1>2. again(k).here = tokenEntry[k].here
  BY RetrievalKeeps DEF TokenShapes
<1> DEFINE e == tokenEntry[k]
           b == h.before
           r == h.now
           put == Made(b)
           x == SecondRetrieval(e, put, r)
<1>3. DOMAIN e = Fields
  BY DEF TokenShapes
<1>4. put.descriptor = b.g.descriptor /\ put.agreementState = b.g.state
  BY DEF Made
<1> HIDE DEF e, b, r, put
<1>5. /\ x.linked = IF Here(r.p) THEN TRUE ELSE e.linked
      /\ \A part \in AgreementParts :
           /\ (Here(r.g) /\ part # "id" /\ r.g[part] # b.g[part]) => Held(x, part) = r.g[part]
           /\ ~(Here(r.g) /\ part # "id" /\ r.g[part] # b.g[part]) => Held(x, part) = Held(e, part)
  <2>1. x.linked = IF Here(r.p) THEN TRUE ELSE e.linked
    BY <1>3 DEF SecondRetrieval, Fields
  <2>2. ASSUME NEW part \in AgreementParts
        PROVE  /\ (Here(r.g) /\ part # "id" /\ r.g[part] # b.g[part]) => Held(x, part) = r.g[part]
               /\ ~(Here(r.g) /\ part # "id" /\ r.g[part] # b.g[part]) =>
                    Held(x, part) = Held(e, part)
    <3>1. CASE part = "state"
      BY <1>3, <1>4, <3>1 DEF SecondRetrieval, Fields, Held
    <3>2. CASE part = "id"
      BY <1>3, <3>2 DEF SecondRetrieval, Fields, Held
    <3>3. CASE part = "descriptor"
      BY <1>3, <1>4, <3>3 DEF SecondRetrieval, Fields, Held
    <3> QED BY <2>2, <3>1, <3>2, <3>3 DEF AgreementParts
  <2> QED BY <2>1, <2>2
<1>6. again(k) = x
  BY DEF e, b, r, put
<1> HIDE DEF again, x
<1>7. tokenEntry'[k] = IF k \in keys THEN x ELSE e
  BY <1>1, <1>6 DEF e
<1>8. x.here = e.here
  BY <1>2, <1>6 DEF e
<1> HIDE DEF keys
<1>9. CASE k \in keys
  <2>1. tokenEntry'[k] = x
    BY <1>7, <1>9
  <2> QED BY <1>5, <1>8, <1>9, <2>1 DEF keys, e, b, r
<1>10. CASE k \notin keys
  <2>1. tokenEntry'[k] = e
    BY <1>7, <1>10
  <2> QED BY <1>10, <2>1 DEF keys, e
<1> QED BY <1>9, <1>10

\* What the entries of a message become when it ends, or goes on without its calls.
LEMMA ClientMoves ==
  ASSUME EntriesInv, ClientSkip \/ ClientStore \/ ClientDelete
  PROVE  /\ hand'[Client].now = NothingRead /\ hand'[Client].round = 1
         /\ hand'[Client].before = NothingRead
         /\ hand'[Client].at \in {"idle", "delete", "purpose"}
<1>1. Shapes
  BY DEF EntriesInv
<1>2. ASSUME Handled(Client)
      PROVE  /\ hand'[Client].now = NothingRead /\ hand'[Client].round = 1
             /\ hand'[Client].before = NothingRead /\ hand'[Client].at = "idle"
  <2>1. hand'[Client] = Idle
    BY <1>1, <1>2, HandledStep, StreamsAreDistinct
  <2> QED BY <2>1 DEF Idle
<1>3. ASSUME NEW step, Go(Client, step)
      PROVE  /\ hand'[Client].now = NothingRead /\ hand'[Client].round = 1
             /\ hand'[Client].before = NothingRead /\ hand'[Client].at = step
  <2>1. hand'[Client] = [Idle EXCEPT !.at = step]
    BY <1>1, <1>3, GoStep, StreamsAreDistinct
  <2> QED BY <2>1 DEF Idle
<1> QED BY <1>2, <1>3 DEF ClientSkip, ClientStore, ClientDelete

LEMMA ClientKeepsLinkInv ==
  ASSUME LinkInv, PairInv', PurposeInv', ClientWriter
  PROVE  LinkInv'
<1> DEFINE h == hand[Client]
           ev == Message(Client)
<1>1. Shapes /\ TokenShapes /\ EntriesInv /\ UnlinkedBlank /\ ClientReads
  BY DEF LinkInv, PurposeInv, EntriesInv
<1>2. Frame(Client)
  BY <1>1, ClientFrame
<1>3. hand'[Purpose] = hand[Purpose]
  BY <1>2, StreamsAreDistinct DEF Frame
<1>4. PurposeReads'
  BY <1>3 DEF LinkInv, PurposeReads
<1>5. CASE ClientSkip \/ ClientStore \/ ClientDelete
  <2>1. ClientReads'
    BY <1>1, <1>5, ClientMoves DEF ClientReads
  <2>2. \A k \in Keys : tokenEntry'[k] = tokenEntry[k] \/ tokenEntry'[k] = NoToken
    BY <1>5 DEF ClientSkip, ClientStore, ClientDelete
  <2>3. Blank(NoToken)
    BY DEF Blank, NoToken, Held, AgreementParts, NoAgreement
  <2>4. UnlinkedBlank'
    BY <1>1, <2>2, <2>3 DEF UnlinkedBlank
  <2> QED BY <1>4, <2>1, <2>4 DEF LinkInv
<1>6. CASE ClientReadPurpose \/ ClientReadAgreement \/ ClientReadCatalog
  <2>1. /\ hand'[Client].round = h.round /\ hand'[Client].before = h.before
        /\ UNCHANGED <<log, pos, tokenEntry>>
    BY <1>1, <1>6, StreamsAreDistinct
       DEF ClientReadPurpose, ClientReadAgreement, ClientReadCatalog, Shapes, HandFields, ReadFields
  <2>2. Message(Client)' = ev
    BY <2>1 DEF Message, Version
  <2>3. /\ hand'[Client].at # "purpose"
        /\ hand'[Client].at = "agreement" =>
             Here(hand'[Client].now.p) /\ hand'[Client].now.g = NoAgreement
        /\ hand'[Client].at \in {"catalog", "put", "update"} => Retrieval(hand'[Client].now)
        /\ hand'[Client].at = "catalog" => Here(hand'[Client].now.p)
    <3>1. CASE ClientReadPurpose
      <4>1. /\ h.now = NothingRead /\ hand'[Client].now.p = purposeEntry
            /\ hand'[Client].now.g = h.now.g
            /\ hand'[Client].at = IF Here(purposeEntry) THEN "agreement" ELSE Retrieved
        BY <1>1, <3>1, StreamsAreDistinct
           DEF ClientReadPurpose, Shapes, HandFields, ReadFields, ClientReads
      <4>2. hand'[Client].now.g = NoAgreement
        BY <4>1 DEF NothingRead
      <4>3. Retrieved \in {"put", "update"}
        BY DEF Retrieved
      <4> HIDE DEF h
      <4> QED BY <4>1, <4>2, <4>3 DEF Retrieval
    <3>2. CASE ClientReadAgreement
      <4>1. /\ hand'[Client].now.p = h.now.p /\ hand'[Client].now.g = agreementEntry
            /\ Here(h.now.p) /\ Here(agreementEntry) /\ hand'[Client].at = "catalog"
            /\ PairRead(agreementEntry)
        BY <1>1, <3>2, EntryFacts, StreamsAreDistinct
           DEF ClientReadAgreement, Shapes, HandFields, ReadFields, ClientReads, LinkInv, PairInv,
               PairRead
      <4> QED BY <4>1 DEF Retrieval
    <3>3. CASE ClientReadCatalog
      <4>1. /\ hand'[Client].now.p = h.now.p /\ hand'[Client].now.g = h.now.g
            /\ h.at = "catalog" /\ hand'[Client].at = Retrieved
        BY <1>1, <3>3, StreamsAreDistinct DEF ClientReadCatalog, Shapes, HandFields, ReadFields
      <4> QED BY <1>1, <4>1 DEF Retrieval, ClientReads, Retrieved
    <3> QED BY <1>6, <3>1, <3>2, <3>3
  <2>4. ClientReads'
    BY <1>1, <2>1, <2>2, <2>3 DEF ClientReads
  <2>5. UnlinkedBlank'
    BY <1>1, <2>1 DEF UnlinkedBlank
  <2> QED BY <1>4, <2>4, <2>5 DEF LinkInv
<1>7. CASE ClientPut
  <2>1. /\ hand'[Client].at = "purpose" /\ hand'[Client].round = 2 /\ h.at = "put"
        /\ hand'[Client].before = h.now /\ hand'[Client].now = NothingRead
        /\ UNCHANGED <<log, pos>>
        /\ tokenEntry' = [k \in Keys |-> IF k \in MadeBy(ev) THEN Made(h.now) ELSE tokenEntry[k]]
    BY <1>1, <1>7, StreamsAreDistinct DEF ClientPut, Shapes, HandFields
  <2>2. Message(Client)' = ev /\ MadeBy(ev) \subseteq Keys
    BY <1>1, <2>1, ClientAtWork DEF Message, Version
  <2>3. Retrieval(h.now) /\ Made(h.now).linked = Here(h.now.p)
        /\ (~Here(h.now.p) => Blank(Made(h.now)))
    <3>1. Retrieval(h.now)
      BY <1>1, <2>1 DEF ClientReads
    <3>2. ASSUME ~Here(h.now.p)
          PROVE  Blank(Made(h.now))
      <4>1. h.now.g = NoAgreement
        BY <3>1, <3>2 DEF Retrieval
      <4> HIDE DEF h
      <4> QED BY <4>1 DEF Blank, Made, Held, AgreementParts, NoAgreement
    <3> QED BY <3>1, <3>2 DEF Made
  <2> HIDE DEF h, ev
  <2>4. ClientReads'
    BY <2>1, <2>2, <2>3 DEF ClientReads
  <2>5. UnlinkedBlank'
    BY <1>1, <2>1, <2>3 DEF UnlinkedBlank
  <2> QED BY <1>4, <2>4, <2>5 DEF LinkInv
<1>8. CASE ClientUpdate
  <2>1. hand'[Client] = Idle /\ h.at = "update"
    BY <1>1, <1>8, HandledStep, StreamsAreDistinct DEF ClientUpdate
  <2>2. ClientReads'
    BY <2>1 DEF ClientReads, Idle
  <2>3. ASSUME NEW k \in Keys, ~tokenEntry'[k].linked
        PROVE  Blank(tokenEntry'[k])
    <3>1. CASE k \notin MadeBy(ev)
      BY <1>1, <1>8, <2>3, <3>1, UpdateLinks DEF UnlinkedBlank
    <3>2. CASE k \in MadeBy(ev)
      <4>1. ~Here(h.now.p) /\ ~tokenEntry[k].linked
        BY <1>1, <1>8, <2>3, <3>2, UpdateLinks
      <4>2. h.now.g = NoAgreement
        BY <1>1, <2>1, <4>1 DEF ClientReads, Retrieval
      <4>3. ~Here(h.now.g)
        BY <4>2 DEF NoAgreement, Here
      <4>4. \A part \in AgreementParts : Held(tokenEntry'[k], part) = Held(tokenEntry[k], part)
        BY <1>1, <1>8, <3>2, <4>3, UpdateLinks
      <4> QED BY <1>1, <4>1, <4>4 DEF UnlinkedBlank, Blank
    <3> QED BY <3>1, <3>2
  <2> QED BY <1>4, <2>2, <2>3 DEF LinkInv, UnlinkedBlank
<1> QED BY <1>5, <1>6, <1>7, <1>8 DEF ClientWriter

\* What the domain stores: one event, at the end of a stream.
LEMMA DomainStores ==
  ASSUME PairInv, Domain
  PROVE  \E s \in Streams : \E ev : Store(s, ev)
<1>0. PICK n \in Agreements : Begun(n)
  BY DEF PairInv, Courses
<1>1. LatestAgreement = n /\ n \in Streams /\ n \in Nat
  BY <1>0, LatestIs, StreamsAreDistinct DEF PairInv
<1>2. n < MaxAgreement => n + 1 \in Streams
  <2>1. n < MaxAgreement => n + 1 \in Agreements
    BY <1>1 DEF Agreements
  <2> QED BY <2>1, StreamsAreDistinct
<1>3. ASSUME NEW type, NEW state, StoreAgreement(type, state)
      PROVE  \E s \in Streams : \E ev : Store(s, ev)
  BY <1>1, <1>2, <1>3 DEF StoreAgreement
<1> QED BY <1>3, StreamsAreDistinct DEF Domain, StorePurpose, StoreDescriptor, StoreClient

LEMMA DomainKeepsLinkInv ==
  ASSUME LinkInv, PairInv', PurposeInv', Domain
  PROVE  LinkInv'
<1>1. UNCHANGED <<pos, tokenEntry, hand>> /\ EntriesInv /\ DOMAIN log = Streams
  BY DomainKeeps DEF LinkInv, PurposeInv, EntriesInv
<1>2. PICK s \in Streams : \E ev : Store(s, ev)
  BY DomainStores DEF LinkInv
<1>3. ASSUME hand[Client].at # "idle"
      PROVE  Message(Client)' = Message(Client)
  <2>1. /\ Version(Client) \in DOMAIN log[Client] /\ log[Client] \in Seq(ClientEvent)
        /\ Version(Client)' = Version(Client) /\ DOMAIN log[Client] = 1..Len(log[Client])
    BY <1>1, <1>3, ClientAtWork, StreamFacts DEF Version
  <2>0. PICK ev : Store(s, ev)
    BY <1>2
  <2>2. log'[Client] = log[Client] \/ log'[Client] = Append(log[Client], ev)
    BY <1>1, <2>0, StreamsAreDistinct DEF Store
  <2> DEFINE l == log[Client]
             v == Version(Client)
  <2>3. log'[Client][v] = l[v]
    <3> HIDE DEF l, v
    <3>1. l \in Seq(ClientEvent) /\ v \in DOMAIN l /\ DOMAIN l = 1..Len(l)
          /\ (log'[Client] = l \/ log'[Client] = Append(l, ev))
      BY <2>1, <2>2 DEF l, v
    <3> QED BY <3>1
  <2> QED BY <2>1, <2>3 DEF Message
<1>4. \A k \in Keys : ~tokenEntry'[k].linked => ~tokenEntry[k].linked /\ Blank(tokenEntry'[k])
  BY <1>1 DEF LinkInv, UnlinkedBlank
<1> QED BY <1>1, <1>3, <1>4, OthersKeepLinks

LEMMA FaultsKeepLinkInv ==
  ASSUME LinkInv, PairInv', PurposeInv', NEW s \in Streams, Crash(s) \/ Redeliver(s)
  PROVE  LinkInv'
<1>1. Shapes /\ EntriesInv /\ UNCHANGED <<log, tokenEntry>>
  BY DEF LinkInv, PurposeInv, EntriesInv, Crash, Redeliver, platform
<1>2. \A t \in Streams \ {s} : hand'[t] = hand[t] /\ pos'[t] = pos[t]
  <2>1. CASE Crash(s)
    BY <1>1, <2>1, FailsStep DEF Crash
  <2>2. CASE Redeliver(s)
    BY <1>1, <2>2 DEF Redeliver, Shapes
  <2> QED BY <2>1, <2>2
<1>3. hand'[s] = Idle \/ (hand'[s] = hand[s] /\ hand[s].at = "idle")
  <2>1. CASE Crash(s)
    BY <1>1, <2>1, FailsStep DEF Crash
  <2>2. CASE Redeliver(s)
    BY <2>2 DEF Redeliver
  <2> QED BY <1>1, <2>1, <2>2
<1>4. UnlinkedBlank'
  BY <1>1 DEF LinkInv, UnlinkedBlank
<1>5. PurposeReads'
  <2>1. CASE s = Purpose
    BY <1>3, <2>1 DEF Idle, PurposeReads
  <2>2. CASE s # Purpose
    <3>1. hand'[Purpose] = hand[Purpose]
      BY <1>2, <2>2, StreamsAreDistinct
    <3> QED BY <3>1 DEF LinkInv, PurposeReads
  <2> QED BY <2>1, <2>2
<1>6. ClientReads'
  <2>1. CASE s = Client
    <3>1. hand'[Client].at = "idle" /\ hand'[Client].round = 1
      BY <1>1, <1>3, <2>1 DEF Idle, EntriesInv, AtWork
    <3> QED BY <3>1 DEF ClientReads
  <2>2. CASE s # Client
    <3>1. hand'[Client] = hand[Client] /\ pos'[Client] = pos[Client]
      BY <1>2, <2>2, StreamsAreDistinct
    <3>2. Message(Client)' = Message(Client)
      BY <1>1, <3>1 DEF Message, Version
    <3> QED BY <1>1, <3>1, <3>2, ClientReadsStay DEF LinkInv
  <2> QED BY <2>1, <2>2
<1> QED BY <1>4, <1>5, <1>6 DEF LinkInv

LEMMA LinkStep ==
  ASSUME LinkInv, "agreement" \notin lost', [Next]_vars
  PROVE  LinkInv'
<1>0. PairInv' /\ PurposeInv'
  BY PairStep, PurposeStep DEF LinkInv
<1>1. CASE Domain
  BY <1>0, <1>1, DomainKeepsLinkInv
<1>2. CASE Consumers
  BY <1>0, <1>2, PurposeKeepsLinkInv, CatalogKeepsLinkInv, ClientKeepsLinkInv,
     AgreementKeepsLinkInv DEF Consumers
<1>3. ASSUME NEW s \in Streams, Crash(s) \/ Redeliver(s)
      PROVE  LinkInv'
  BY <1>0, <1>3, FaultsKeepLinkInv
<1>4. CASE UNCHANGED vars
  <2>1. \A k \in Keys : ~tokenEntry'[k].linked => ~tokenEntry[k].linked /\ Blank(tokenEntry'[k])
    BY <1>4 DEF vars, LinkInv, UnlinkedBlank
  <2> QED BY <1>0, <1>4, <2>1, OthersKeepLinks DEF vars, Message, Version
<1> QED BY <1>1, <1>2, <1>3, <1>4 DEF Next

LEMMA LinkInit == Init => LinkInv
<1> SUFFICES ASSUME Init PROVE LinkInv
  OBVIOUS
<1>1. tokenEntry = [k \in Keys |-> NoToken] /\ hand[Purpose] = Idle /\ hand[Client] = Idle
  BY StreamsAreDistinct DEF Init
<1>2. Blank(NoToken)
  BY DEF Blank, NoToken, Held, AgreementParts, NoAgreement
<1>3. UnlinkedBlank /\ PurposeReads /\ ClientReads
  BY <1>1, <1>2 DEF UnlinkedBlank, PurposeReads, ClientReads, Idle
<1> QED BY <1>3, PairInit, PurposeInit DEF LinkInv

-----------------------------------------------------------------------------
(* The pair's agreement in the entries.                                      *)

\* The purpose has not been archived.
Alive == PurposeTruth # "archived"

\* Before the purpose's entry is written first, nothing is linked to it.
Unborn == ~Here(purposeEntry) =>
            /\ \A k \in Keys : ~tokenEntry[k].linked
            /\ ~Here(hand[Client].now.p) /\ ~Here(hand[Client].before.p)

\* What the pair's entry says in a part has been written to the linked entries: the handler of
\* its event has done so, or is about to write them once more.  The state of an agreement is
\* written to them before it is archived in its entry.
Copied(part) ==
  LET g == agreementEntry
      l == log[g.id]
  IN
  \/ hand[g.id].at \in {"check", "refill"}
  \/ IF part = "state" THEN /\ pos[g.id] >= g.version
                            /\ pos[g.id] = Len(l) \/ l[Len(l)].type # "Archived"
     ELSE pos[g.id] >= 1 \/ g.version >= 2
Shown(k, part) ==
  LET has == Held(tokenEntry[k], part) IN
  /\ part = "state" => has \in ItemState
  /\ Copied(part) => has = agreementEntry[part]

\* The entry is one of those made by the event in hand and is read for once more.
Again(k) == hand[Client].round # 1 /\ k \in MadeBy(Message(Client))
\* The second retrieval will find what is now in the pair's entry, or has found a change.
Rereads == \/ hand[Client].at \in {"purpose", "agreement"}
           \/ hand[Client].now.g # hand[Client].before.g
PartOwed(k, part) ==
  \/ Shown(k, part)
  \/ Pending(k)
  \/ Again(k) /\ Rereads /\ Held(tokenEntry[k], part) = hand[Client].before.g[part]

\* An activation of the purpose will link the entry.
Linking(j) ==
  /\ j \in DOMAIN log[Purpose] /\ j > pos[Purpose] /\ j >= purposeEntry.version
  /\ log[Purpose][j].type = "Activated"
  /\ hand[Purpose].at = "states" => j > Version(Purpose)
WillLink(k) ==
  LET h == hand[Purpose] IN
  /\ \E j \in DOMAIN log[Purpose] : Linking(j)
  /\ h.at \in {"agreement", "catalog", "fill"} => h.found[k].here /\ ~h.found[k].linked
LinkOwed(k) ==
  \/ ~Here(purposeEntry)
  \/ Pending(k)
  \/ Again(k) /\ (hand[Client].at = "purpose" \/ Here(hand[Client].now.p))
  \/ WillLink(k)

AgreementOwed(k) ==
  tokenEntry[k].here =>
    IF tokenEntry[k].linked
    THEN \A part \in AgreementParts : (part = "id" /\ "agreementId" \in lost) \/ PartOwed(k, part)
    ELSE LinkOwed(k)

AgreementInv == /\ LinkInv /\ (Alive => Unborn)
                /\ Alive /\ "agreement" \notin lost => \A k \in Keys : AgreementOwed(k)

\* A step that leaves a writer's hand and entry as they were; its stream may have grown.
Grows(s) == log'[s] = log[s] \/ \E ev : log'[s] = Append(log[s], ev)
ClientSame == /\ hand'[Client] = hand[Client] /\ pos'[Client] = pos[Client]
              /\ clientEntry' = clientEntry /\ Grows(Client)
PurposeSame == /\ hand'[Purpose] = hand[Purpose] /\ pos'[Purpose] = pos[Purpose]
               /\ purposeEntry' = purposeEntry /\ Grows(Purpose)

\* What a sequence holds stays when it grows.
LEMMA GrownSequence ==
  ASSUME NEW S, NEW l \in Seq(S), NEW m, m = l \/ \E ev : m = Append(l, ev)
  PROVE  \A j \in DOMAIN l : j \in DOMAIN m /\ m[j] = l[j]
<1> Len(l) \in Nat /\ DOMAIN l = 1..Len(l)
  OBVIOUS
<1> QED OBVIOUS

LEMMA ClientStays ==
  ASSUME EntriesInv, ClientSame, NEW k \in Keys
  PROVE  /\ Pending(k) => Pending(k)'
         /\ Again(k) => Again(k)'
         /\ hand[Client].at # "idle" => Message(Client)' = Message(Client)
<1>1. \A j \in DOMAIN log[Client] : j \in DOMAIN log'[Client] /\ log'[Client][j] = log[Client][j]
  BY StreamFacts, GrownSequence DEF ClientSame, Grows
<1>2. Version(Client)' = Version(Client)
  BY DEF ClientSame, Version
<1>3. ASSUME Pending(k)
      PROVE  Pending(k)'
  <2>1. PICK j \in DOMAIN log[Client] : Ahead(k, j) /\ (j # Version(Client) \/ hand[Client].round = 1)
    BY <1>3 DEF Pending
  <2>2. j \in DOMAIN log'[Client] /\ Ahead(k, j)'
    BY <1>1, <2>1 DEF Ahead, ClientSame
  <2> QED BY <1>2, <2>1, <2>2 DEF Pending, ClientSame
<1>4. ASSUME hand[Client].at # "idle"
      PROVE  Message(Client)' = Message(Client)
  <2>1. Version(Client) \in DOMAIN log[Client]
    BY <1>4, ClientAtWork
  <2> QED BY <1>1, <1>2, <2>1 DEF Message
<1>5. Again(k) => Again(k)'
  <2>1. Again(k) => hand[Client].at # "idle"
    BY ClientAtWork DEF Again
  <2> QED BY <1>4, <2>1 DEF Again, ClientSame
<1> QED BY <1>3, <1>4, <1>5

LEMMA PurposeStays ==
  ASSUME PurposeInv, PurposeSame, NEW k \in Keys
  PROVE  WillLink(k) => WillLink(k)'
<1>1. \A j \in DOMAIN log[Purpose] : j \in DOMAIN log'[Purpose] /\ log'[Purpose][j] = log[Purpose][j]
  BY PurposeFacts, GrownSequence DEF PurposeSame, Grows
<1>2. Version(Purpose)' = Version(Purpose)
  BY DEF PurposeSame, Version
<1>3. ASSUME NEW j \in DOMAIN log[Purpose], Linking(j)
      PROVE  j \in DOMAIN log'[Purpose] /\ Linking(j)'
  BY <1>1, <1>2, <1>3 DEF Linking, PurposeSame
<1> QED BY <1>3 DEF WillLink, PurposeSame

\* The steps of the other writers: what they write is shown, or they leave it as it was.
LEMMA OthersLeaveOwed ==
  ASSUME PurposeInv, ClientSame, PurposeSame, lost \subseteq lost', NEW k \in Keys,
         tokenEntry'[k].here = tokenEntry[k].here, tokenEntry'[k].linked = tokenEntry[k].linked,
         tokenEntry[k].here /\ tokenEntry[k].linked =>
           \A part \in AgreementParts :
             \/ Shown(k, part)'
             \/ /\ Held(tokenEntry'[k], part) = Held(tokenEntry[k], part)
                /\ Shown(k, part) => Shown(k, part)',
         AgreementOwed(k)
  PROVE  AgreementOwed(k)'
<1>1. EntriesInv
  BY DEF PurposeInv
<1>2. /\ Pending(k) => Pending(k)'
      /\ Again(k) => Again(k)' /\ hand'[Client] = hand[Client]
  BY <1>1, ClientStays DEF ClientSame
<1>3. LinkOwed(k) => LinkOwed(k)'
  BY <1>2, PurposeStays DEF LinkOwed, PurposeSame
<1>4. ASSUME NEW part \in AgreementParts, tokenEntry[k].here, tokenEntry[k].linked, PartOwed(k, part)
      PROVE  PartOwed(k, part)'
  BY <1>2, <1>4 DEF PartOwed, Rereads
<1> QED BY <1>3, <1>4 DEF AgreementOwed

\* Nothing has been copied that was not before.
LEMMA CopiedBefore ==
  ASSUME log' = log, agreementEntry' = agreementEntry,
         pos'[agreementEntry.id] = pos[agreementEntry.id],
         hand'[agreementEntry.id].at \in {"check", "refill"} =>
           hand[agreementEntry.id].at \in {"check", "refill"},
         NEW part
  PROVE  Copied(part)' => Copied(part)
  BY DEF Copied

LEMMA AgreementLeavesOwed ==
  ASSUME LinkInv, NEW a \in Agreements, AgreementWriter(a),
         "agreement" \notin lost', NEW k \in Keys, AgreementOwed(k)
  PROVE  AgreementOwed(k)'
<1> DEFINE g == agreementEntry
           e == tokenEntry[k]
<1>1. Shapes /\ TokenShapes /\ PairInv /\ PurposeInv
  BY DEF LinkInv, PurposeInv, EntriesInv
<1>2. ClientSame /\ PurposeSame /\ lost \subseteq lost' /\ log' = log
  BY <1>1, AgreementFrame, StreamsAreDistinct DEF Frame, ClientSame, PurposeSame, Grows
<1>3. /\ a \in Streams /\ pos[a] < Len(log[a])
      /\ \A b \in Agreements \ {a} : hand'[b] = hand[b] /\ pos'[b] = pos[b]
  BY <1>1, HandlerFacts
<1>4. /\ g.id \in Agreements /\ g.version \in Nat \ {0} /\ g.state \in ItemState
      /\ pos[a] \in Nat /\ Version(a) = pos[a] + 1 /\ Version(a) \in Nat
  BY <1>1, EntryFacts, CourseFacts DEF PairInv
<1>5. tokenEntry'[k].here = e.here /\ tokenEntry'[k].linked = e.linked
  BY <1>1, AgreementLinks
<1>6. AgreementParts = {"state"} \cup {"id", "descriptor"}
  BY DEF AgreementParts
<1> SUFFICES ASSUME e.here, e.linked, NEW part \in AgreementParts
             PROVE  \/ Shown(k, part)'
                    \/ /\ Held(tokenEntry'[k], part) = Held(e, part)
                       /\ Shown(k, part) => Shown(k, part)'
  BY <1>1, <1>2, <1>5, OthersLeaveOwed
<1>7. ASSUME AgreementRead(a) \/ AgreementReadCatalog(a)
      PROVE  Shown(k, part) => Shown(k, part)'
  <2>1. /\ hand'[a].at \in {"decide", "fill"} /\ pos' = pos /\ g' = g /\ tokenEntry' = tokenEntry
    BY <1>1, <1>3, <1>7 DEF AgreementRead, AgreementReadCatalog, platform, Shapes, HandFields
  <2>2. Copied(part)' => Copied(part)
    BY <1>2, <1>3, <1>4, <2>1, CopiedBefore
  <2> QED BY <2>1, <2>2 DEF Shown
<1>8. CASE AgreementSkip(a)
  <2>1. /\ hand'[a] = Idle /\ pos'[a] = Version(a) /\ g' = g /\ tokenEntry' = tokenEntry
        /\ hand[a].at = "decide" /\ AgreementSkips(a)
    BY <1>1, <1>3, <1>8, HandledStep DEF AgreementSkip, platform, Handled, Shapes, Version
  <2>2. (g.id = a => hand[a].now.g = g) /\ Here(g) /\ a \in Nat /\ g.id \in Nat
    BY <1>1, <1>4, <2>1, EntryFacts, StreamsAreDistinct DEF PairInv, WorkOf
  <2>3. CASE g.id # a
    <3>1. Copied(part)' => Copied(part)
      BY <1>2, <1>3, <1>4, <2>1, <2>3, CopiedBefore
    <3> QED BY <2>1, <3>1 DEF Shown
  <2>4. CASE g.id = a
    <3>1. g.version > Version(a)
      BY <2>1, <2>2, <2>4 DEF AgreementSkips, IsLatest, NewerOfSame, Newer
    <3>2. hand'[a].at = "idle"
      BY <2>1, IdleShape
    <3>3. ~Copied("state")' /\ \A q \in {"id", "descriptor"} : Copied(q)
      BY <1>4, <2>1, <2>4, <3>1, <3>2 DEF Copied
    <3> QED BY <1>6, <2>1, <3>3 DEF Shown
  <2> QED BY <2>1, <2>3, <2>4
<1>9. CASE AgreementUpsert(a)
  <2>1. /\ g'.id = a /\ g'.version = 1 /\ pos'[a] = 0 /\ hand'[a].at = "catalog"
        /\ tokenEntry' = tokenEntry
    <3>1. tokenEntry' = tokenEntry
      BY <1>9 DEF AgreementUpsert
    <3>2. /\ Version(a) = 1 /\ hand'[a].at = "catalog" /\ pos' = pos
          /\ g' = [state |-> ItemOf(Message(a).state), version |-> 1,
                  id |-> a, descriptor |-> Message(a).descriptor]
      BY <1>1, <1>9, UpsertKeepsPair
    <3> QED BY <1>4, <3>1, <3>2
  <2>2. ~Copied(part)'
    BY <2>1 DEF Copied
  <2> QED BY <2>1, <2>2 DEF Shown
<1>10. CASE AgreementUpdate(a)
  <2>1. /\ g.id = a /\ g'.id = a /\ g'.version = Version(a) /\ g'.descriptor = g.descriptor
        /\ pos' = pos /\ hand'[a].at = "states" /\ pos[a] >= 1 /\ tokenEntry' = tokenEntry
    BY <1>1, <1>10, UpdateKeepsPair DEF AgreementUpdate
  <2>2. ~Copied("state")' /\ \A q \in {"id", "descriptor"} : Copied(q)
    BY <1>4, <2>1 DEF Copied
  <2> QED BY <1>6, <2>1, <2>2 DEF Shown
<1>11. CASE AgreementStates(a)
  <2>1. /\ Held(tokenEntry'[k], "state") = ItemOf(Message(a).state)
        /\ \A q \in AgreementParts \ {"state"} : Held(tokenEntry'[k], q) = Held(e, q)
    BY <1>1, <1>11, AgreementLinks
  <2>2. /\ g' = g /\ g.id = a
        /\ \/ /\ hand[a].at = "states" /\ Message(a).type = "Changed"
              /\ ItemOf(Message(a).state) = g.state
           \/ /\ Message(a).type = "Archived"
              /\ pos' = pos /\ hand'[a].at = "close"
    BY <1>1, <1>11, StatesKeepsPair
  <2>3. CASE hand[a].at = "states" /\ Message(a).type = "Changed"
             /\ ItemOf(Message(a).state) = g.state
    <3>1. Version(a) # 1
      BY <1>1, <1>3, <2>3, CourseFacts DEF PairInv
    <3>2. \A q \in {"id", "descriptor"} : Copied(q)
      BY <1>4, <2>2, <3>1 DEF Copied
    <3>3. Shown(k, "state")'
      BY <1>4, <2>1, <2>2, <2>3 DEF Shown
    <3> QED BY <1>6, <2>1, <2>2, <3>2, <3>3 DEF Shown
  <2>4. CASE Message(a).type = "Archived" /\ pos' = pos /\ hand'[a].at = "close"
    <3>1. /\ Version(a) = Len(log[a]) /\ Message(a) = log[a][Version(a)]
          /\ Message(a).state = "archived"
      BY <1>1, <1>3, <2>4, CourseFacts DEF PairInv
    <3>2. ItemOf(Message(a).state) \in ItemState
      BY DEF ItemOf, ItemState
    <3>3. ~Copied("state")'
      BY <1>2, <1>4, <2>2, <2>4, <3>1 DEF Copied
    <3>4. Shown(k, "state")'
      BY <2>1, <3>2, <3>3 DEF Shown
    <3>5. Copied(part)' => Copied(part)
      BY <1>2, <2>2, <2>4, CopiedBefore
    <3> QED BY <1>6, <2>1, <2>2, <3>4, <3>5 DEF Shown
  <2> QED BY <2>2, <2>3, <2>4
<1>12. CASE AgreementClose(a)
  <2>1. /\ g.id = a /\ g'.id = a /\ g'.descriptor = g.descriptor
        /\ g'.state = "inactive" /\ pos[a] >= 1
    BY <1>1, <1>12, CloseKeepsPair
  <2>2. tokenEntry' = tokenEntry /\ e.agreementState # "active"
    BY <1>12 DEF AgreementClose
  <2>3. \A q \in {"id", "descriptor"} : Copied(q)
    BY <2>1 DEF Copied
  <2>4. Shown(k, "state") => Shown(k, "state")'
    BY <2>1, <2>2 DEF Shown, Held, ItemState
  <2> QED BY <1>6, <2>1, <2>2, <2>3, <2>4 DEF Shown
<1>13. CASE AgreementFill(a) \/ AgreementRefill(a)
  <2>1. /\ g' = g /\ g.id = a /\ ItemOf(Message(a).state) = g.state
        /\ Message(a).descriptor = g.descriptor
    BY <1>1, <1>13, FillingKeepsPair
  <2>2. /\ Held(tokenEntry'[k], "state") = ItemOf(Message(a).state)
        /\ Held(tokenEntry'[k], "id") = a
        /\ Held(tokenEntry'[k], "descriptor") = Message(a).descriptor
    BY <1>1, <1>13, AgreementLinks
  <2> QED BY <1>4, <1>6, <2>1, <2>2 DEF Shown
<1>14. CASE AgreementCheck(a)
  <2>1. g' = g /\ tokenEntry' = tokenEntry /\ hand[a].at = "check"
    BY <1>14 DEF AgreementCheck, platform
  <2>2. CASE g.id = a
    <3>1. Copied(part)
      BY <2>1, <2>2 DEF Copied
    <3> QED BY <2>1, <3>1 DEF Shown
  <2>3. CASE g.id # a
    <3>1. Copied(part)' => Copied(part)
      BY <1>2, <1>3, <1>4, <2>1, <2>3, CopiedBefore
    <3> QED BY <2>1, <3>1 DEF Shown
  <2> QED BY <2>2, <2>3
<1>15. ~AgreementStates(a) /\ ~AgreementFill(a) /\ ~AgreementRefill(a) =>
         tokenEntry' = tokenEntry
  BY <1>1, AgreementLinks
<1> QED BY <1>7, <1>8, <1>9, <1>10, <1>11, <1>12, <1>13, <1>14, <1>15 DEF AgreementWriter

LEMMA CatalogLeavesOwed ==
  ASSUME LinkInv, CatalogWriter, NEW k \in Keys, AgreementOwed(k)
  PROVE  AgreementOwed(k)'
<1>1. Shapes /\ TokenShapes /\ PairInv /\ PurposeInv
  BY DEF LinkInv, PurposeInv, EntriesInv
<1>2. Frame(EService) /\ UNCHANGED <<purposeEntry, agreementEntry, clientEntry>>
  BY <1>1, CatalogFrame
<1>3. ClientSame /\ PurposeSame /\ lost \subseteq lost' /\ log' = log
  BY <1>2, StreamsAreDistinct DEF Frame, ClientSame, PurposeSame, Grows
<1>4. SameLink(k)
  BY <1>1, CatalogKeepsLinks
<1>5. ASSUME NEW part
      PROVE  Copied(part)' => Copied(part)
  <2>1. agreementEntry.id \in Streams \ {EService}
    BY <1>1, EntryFacts, StreamsAreDistinct DEF PairInv
  <2> QED BY <1>2, <2>1, CopiedBefore DEF Frame
<1>6. \A part \in AgreementParts : Shown(k, part) => Shown(k, part)'
  BY <1>2, <1>4, <1>5 DEF Shown, SameLink
<1> QED BY <1>1, <1>3, <1>4, <1>6, OthersLeaveOwed DEF SameLink

LEMMA StopLeavesOwed ==
  ASSUME LinkInv, UNCHANGED vars, NEW k \in Keys, AgreementOwed(k)
  PROVE  AgreementOwed(k)'
<1>1. ClientSame /\ PurposeSame
  BY DEF ClientSame, PurposeSame, Grows, vars, platform
<1>2. UNCHANGED <<log, pos, hand, agreementEntry, tokenEntry, lost>>
  BY DEF vars, platform
<1>3. \A part \in AgreementParts : Shown(k, part) => Shown(k, part)'
  BY <1>2, CopiedBefore DEF Shown
<1> QED BY <1>1, <1>2, <1>3, OthersLeaveOwed DEF LinkInv

\* An event that is stored is still to be copied.
LEMMA DomainLeavesOwed ==
  ASSUME LinkInv, PairInv', Domain, NEW k \in Keys, AgreementOwed(k)
  PROVE  AgreementOwed(k)'
<1> DEFINE g == agreementEntry
           l == log[g.id]
           m == log'[g.id]
<1>1. PairInv /\ PurposeInv /\ DOMAIN log = Streams
  BY DEF LinkInv, PurposeInv, EntriesInv
<1>2. UNCHANGED <<pos, platform, tokenEntry, hand, lost>>
  BY DomainKeeps
<1>3. ASSUME NEW s \in Streams
      PROVE  Grows(s)
  <2>1. PICK t \in Streams : \E ev : Store(t, ev)
    BY <1>1, DomainStores
  <2>2. PICK ev : Store(t, ev)
    BY <2>1
  <2>3. log' = [log EXCEPT ![t] = Append(@, ev)]
    BY <2>2 DEF Store
  <2>4. log'[s] = log[s] \/ log'[s] = Append(log[s], ev)
    BY <1>1, <2>3
  <2> QED BY <2>4 DEF Grows
<1>4. ClientSame /\ PurposeSame
  BY <1>2, <1>3, StreamsAreDistinct DEF ClientSame, PurposeSame, platform
<1>5. /\ g.id \in Agreements /\ l \in Seq(AgreementEvent) /\ Len(l) \in Nat
      /\ DOMAIN l = 1..Len(l) /\ Len(l) \in DOMAIN l
  <2>1. g.id \in Agreements /\ g.version \in Nat \ {0} /\ g.version <= Len(l)
    BY <1>1, EntryFacts DEF PairInv
  <2>2. l \in Seq(AgreementEvent) /\ Len(l) \in Nat /\ DOMAIN l = 1..Len(l)
    BY <1>1, <2>1, CourseFacts DEF PairInv
  <2> HIDE DEF l
  <2> QED BY <2>1, <2>2
<1>6. ASSUME m # l
      PROVE  l[Len(l)].type # "Archived"
  <2>1. PICK ev : m = Append(l, ev)
    BY <1>3, <1>5, <1>6, StreamsAreDistinct DEF Grows
  <2>2. Len(l) \in DOMAIN m /\ m[Len(l)] = l[Len(l)] /\ Len(l) # Len(m)
    <3> HIDE DEF l, m, g
    <3>1. Len(m) = Len(l) + 1
      BY <1>5, <2>1
    <3>2. \A j \in DOMAIN l : j \in DOMAIN m /\ m[j] = l[j]
      <4>1. l \in Seq(AgreementEvent) /\ (m = l \/ \E x : m = Append(l, x))
        <5>1. \E x : m = Append(l, x)
          BY <2>1
        <5> QED BY <1>5, <5>1
      <4> HIDE DEF AgreementEvent
      <4> QED BY <4>1, GrownSequence
    <3>3. Len(l) # Len(m)
      <4>1. Len(l) \in Nat
        BY <1>5
      <4> QED BY <3>1, <4>1
    <3> QED BY <1>5, <3>2, <3>3
  <2>3. Course(m)
    <3>1. g.id \in Agreements /\ Courses'
      BY <1>5 DEF PairInv
    <3> HIDE DEF g
    <3> QED BY <3>1 DEF Courses
  <2> QED BY <2>2, <2>3 DEF Course
<1>7. ASSUME NEW part
      PROVE  Copied(part)' => Copied(part)
  <2>1. CASE m = l
    BY <1>2, <2>1 DEF Copied, platform
  <2>2. CASE m # l
    BY <1>2, <1>6, <2>2 DEF Copied, platform
  <2> QED BY <2>1, <2>2
<1>8. \A part \in AgreementParts : Shown(k, part) => Shown(k, part)'
  BY <1>2, <1>7 DEF Shown, platform
<1> QED BY <1>1, <1>2, <1>4, <1>8, OthersLeaveOwed

\* The client's message given again makes its entries again.
LEMMA FaultsStayPending ==
  ASSUME EntriesInv, Crash(Client) \/ Redeliver(Client), NEW k \in Keys, Pending(k) \/ Again(k)
  PROVE  Pending(k)'
<1>1. /\ Shapes /\ UNCHANGED <<log, clientEntry>>
  BY DEF EntriesInv, Crash, Redeliver, platform
<1>2. \/ hand'[Client] = Idle /\ pos'[Client] = pos[Client]
      \/ hand'[Client] = hand[Client] /\ hand[Client].at = "idle" /\ pos'[Client] \in 0..(pos[Client] - 1)
  <2>1. CASE Crash(Client)
    BY <1>1, <2>1, FailsStep, StreamsAreDistinct DEF Crash
  <2>2. CASE Redeliver(Client)
    BY <1>1, <2>2, StreamsAreDistinct DEF Redeliver, Shapes
  <2> QED BY <2>1, <2>2
<1>3. /\ pos[Client] \in Nat /\ DOMAIN log[Client] = 1..Len(log[Client])
      /\ Len(log[Client]) \in Nat /\ clientEntry \in Nat
  BY StreamFacts
<1>4. hand'[Client].round = 1
  BY <1>2 DEF Idle, EntriesInv, AtWork
<1>5. ASSUME NEW j \in DOMAIN log[Client], j > pos[Client], j >= clientEntry,
             Touches(log[Client][j], k)
      PROVE  Pending(k)'
  <2>1. j > pos'[Client]
    BY <1>2, <1>3, <1>5
  <2> QED BY <1>1, <1>4, <1>5, <2>1 DEF Pending, Ahead
<1>6. CASE Pending(k)
  BY <1>5, <1>6 DEF Pending, Ahead
<1>7. CASE Again(k)
  <2>1. /\ Version(Client) \in DOMAIN log[Client] /\ Version(Client) = pos[Client] + 1
        /\ Message(Client) = log[Client][Version(Client)]
        /\ clientEntry = 0 \/ clientEntry = Version(Client)
    BY <1>7, ClientAtWork DEF Again
  <2>2. Touches(log[Client][Version(Client)], k)
    BY <1>7, <2>1 DEF Again, Touches
  <2> QED BY <1>3, <1>5, <2>1, <2>2
<1> QED BY <1>6, <1>7

\* A message given again is copied again, linked again, made again.
LEMMA FaultsLeaveOwed ==
  ASSUME LinkInv, NEW s \in Streams, Crash(s) \/ Redeliver(s), NEW k \in Keys, AgreementOwed(k)
  PROVE  AgreementOwed(k)'
<1> DEFINE g == agreementEntry
<1>1. Shapes /\ PairInv /\ PurposeInv /\ EntriesInv
  BY DEF LinkInv, PurposeInv, EntriesInv
<1>2. UNCHANGED <<log, platform, tokenEntry, lost>>
  BY DEF Crash, Redeliver
<1>3. /\ \A t \in Streams \ {s} : hand'[t] = hand[t] /\ pos'[t] = pos[t]
      /\ \/ hand'[s] = Idle /\ pos'[s] = pos[s]
         \/ hand'[s] = hand[s] /\ hand[s].at = "idle" /\ pos'[s] \in 0..(pos[s] - 1)
  <2>1. CASE Crash(s)
    BY <1>1, <2>1, FailsStep DEF Crash
  <2>2. CASE Redeliver(s)
    BY <1>1, <2>2 DEF Redeliver, Shapes
  <2> QED BY <2>1, <2>2
<1>4. hand'[s].at = "idle"
  BY <1>3, IdleShape
<1>5. ASSUME NEW part
      PROVE  Copied(part)' => Copied(part)
  <2>1. CASE s = g.id
    <3>1. s \in Agreements /\ g.version \in Nat
      BY <1>1, <2>1, EntryFacts DEF PairInv
    <3>2. pos[s] \in Nat /\ pos[s] <= Len(log[s]) /\ Len(log[s]) \in Nat
      BY <1>1, <3>1, CourseFacts DEF PairInv
    <3>3. pos'[s] = pos[s] \/ (pos'[s] \in Nat /\ pos'[s] < pos[s])
      BY <1>3, <3>2
    <3>4. CASE pos'[s] = pos[s]
      BY <1>2, <1>4, <2>1, <3>4 DEF Copied, platform
    <3>5. CASE pos'[s] \in Nat /\ pos'[s] < pos[s]
      BY <1>2, <1>4, <2>1, <3>1, <3>2, <3>5 DEF Copied, platform
    <3> QED BY <3>3, <3>4, <3>5
  <2>2. CASE s # g.id
    <3>1. g.id \in Streams \ {s}
      BY <1>1, <2>2, EntryFacts, StreamsAreDistinct DEF PairInv
    <3> QED BY <1>2, <1>3, <3>1, CopiedBefore DEF platform
  <2> QED BY <2>1, <2>2
<1>6. \A part \in AgreementParts : Shown(k, part) => Shown(k, part)'
  BY <1>2, <1>5 DEF Shown, platform
<1>7. CASE s \notin {Client, Purpose}
  <2>1. ClientSame /\ PurposeSame
    BY <1>2, <1>3, <1>7, StreamsAreDistinct DEF ClientSame, PurposeSame, Grows, platform
  <2> QED BY <1>1, <1>2, <1>6, <2>1, OthersLeaveOwed
<1>8. CASE s = Purpose
  <2>1. ClientSame
    BY <1>2, <1>3, <1>8, StreamsAreDistinct DEF ClientSame, Grows, platform
  <2>2. /\ Pending(k) => Pending(k)'
        /\ Again(k) => Again(k)' /\ hand'[Client] = hand[Client]
    BY <1>1, <2>1, ClientStays DEF ClientSame
  <2>3. ASSUME NEW j \in DOMAIN log[Purpose], Linking(j)
        PROVE  Linking(j)'
    <3>1. pos[Purpose] \in Nat /\ DOMAIN log[Purpose] = 1..Len(log[Purpose])
          /\ Len(log[Purpose]) \in Nat
      BY <1>1, PurposeFacts
    <3>2. j > pos'[Purpose]
      BY <1>3, <1>8, <2>3, <3>1 DEF Linking
    <3> QED BY <1>2, <1>4, <1>8, <2>3, <3>2 DEF Linking, platform
  <2>4. WillLink(k) => WillLink(k)'
    BY <1>2, <1>4, <1>8, <2>3 DEF WillLink
  <2>5. LinkOwed(k) => LinkOwed(k)'
    BY <1>2, <2>2, <2>4 DEF LinkOwed, platform
  <2>6. \A part \in AgreementParts : PartOwed(k, part) => PartOwed(k, part)'
    BY <1>2, <1>6, <2>2 DEF PartOwed, Rereads
  <2> QED BY <1>2, <2>5, <2>6 DEF AgreementOwed
<1>9. CASE s = Client
  <2>1. PurposeSame
    BY <1>2, <1>3, <1>9, StreamsAreDistinct DEF PurposeSame, Grows, platform
  <2>2. Pending(k) \/ Again(k) => Pending(k)'
    BY <1>1, <1>9, FaultsStayPending
  <2>7. LinkOwed(k) => LinkOwed(k)'
    BY <1>1, <1>2, <2>1, <2>2, PurposeStays DEF LinkOwed, platform
  <2>8. \A part \in AgreementParts : PartOwed(k, part) => PartOwed(k, part)'
    BY <1>6, <2>2 DEF PartOwed
  <2> QED BY <1>2, <2>7, <2>8 DEF AgreementOwed
<1> QED BY <1>7, <1>8, <1>9

\* The purpose's writer before its fill: the activation that links the entry is still ahead.
LEMMA PurposeWillLink ==
  ASSUME LinkInv, PurposeWriter, ~PurposeFill, Alive, NEW k \in Keys,
         tokenEntry[k].here, ~tokenEntry[k].linked,
         ~Here(purposeEntry) \/ WillLink(k)
  PROVE  ~Here(purposeEntry') \/ WillLink(k)'
<1> DEFINE h == hand[Purpose]
           ev == Message(Purpose)
           l == log[Purpose]
           v == Version(Purpose)
<1>1. Shapes /\ PurposeInv /\ Purpose \in Streams
  BY StreamsAreDistinct DEF LinkInv, PurposeInv, EntriesInv
<1>2. log' = log
  BY <1>1, PurposeFrame DEF Frame
<1>3. /\ pos[Purpose] \in Nat /\ v = pos[Purpose] + 1 /\ DOMAIN l \subseteq Nat
      /\ pos[Purpose] < Len(l) => v \in DOMAIN l /\ ev = l[v]
  BY <1>1, PurposeFacts
<1>4. ASSUME pos' = pos, purposeEntry' = purposeEntry, hand'[Purpose].at # "states",
             hand'[Purpose].at \in {"agreement", "catalog", "fill"} =>
               hand'[Purpose].found[k].here /\ ~hand'[Purpose].found[k].linked
      PROVE  WillLink(k) => WillLink(k)'
  <2>1. ASSUME NEW j \in DOMAIN l, Linking(j)
        PROVE  Linking(j)'
    BY <1>2, <1>4, <2>1 DEF Linking
  <2> QED BY <1>2, <1>4, <2>1 DEF WillLink
<1>5. ASSUME pos'[Purpose] = v, purposeEntry' = purposeEntry, hand'[Purpose].at = "idle",
             \A j \in DOMAIN l : Linking(j) => j > v
      PROVE  WillLink(k) => WillLink(k)'
  <2>1. ASSUME NEW j \in DOMAIN l, Linking(j)
        PROVE  Linking(j)'
    BY <1>2, <1>5, <2>1 DEF Linking
  <2> QED BY <1>2, <1>5, <2>1 DEF WillLink
<1>6. ASSUME Handled(Purpose)
      PROVE  pos'[Purpose] = v /\ hand'[Purpose].at = "idle"
  <2>1. hand'[Purpose] = Idle /\ pos'[Purpose] = v
    BY <1>1, <1>6, HandledStep DEF Handled, Shapes, Version
  <2> QED BY <2>1, IdleShape
<1>7. CASE PurposeSkip
  <2>1. /\ purposeEntry' = purposeEntry /\ Handled(Purpose)
        /\ \/ ev.type # "Archived" /\ Newer(purposeEntry, Purpose)
           \/ ev.type = "Changed" /\ ~Here(purposeEntry)
        /\ pos[Purpose] < Len(l)
    BY <1>7 DEF PurposeSkip, platform, Takes
  <2>2. CASE ~Here(purposeEntry)
    BY <2>1, <2>2
  <2>3. CASE Newer(purposeEntry, Purpose)
    <3>1. purposeEntry.version \in Nat
      BY <1>1, <1>3, <2>3 DEF PurposeInv, PurposeShown, Newer
    <3>2. \A j \in DOMAIN l : Linking(j) => j > v
      BY <1>3, <2>3, <3>1 DEF Linking, Newer
    <3> QED BY <1>5, <1>6, <2>1, <2>3, <3>2 DEF Newer
  <2> QED BY <2>1, <2>2, <2>3
<1>8. CASE PurposeStore
  <2>1. /\ hand'[Purpose].at = IF ev.type = "Activated" THEN "query" ELSE "states"
        /\ pos' = pos
    BY <1>1, <1>8, GoStep DEF PurposeStore
  <2>2. /\ pos[Purpose] < Len(l) /\ h.at = "idle" /\ (ev.type = "Changed" => Here(purposeEntry))
        /\ purposeEntry' = IF ev.type = "Archived" THEN NoPurpose
                           ELSE [state |-> ev.state, version |-> v]
    BY <1>8 DEF PurposeStore, Takes
  <2>3. v \in DOMAIN l /\ ev = l[v] /\ ev \in PurposeEvent
    BY <1>1, <1>3, <2>2, PurposeFacts
  <2>4. ev.type # "Archived"
    BY <1>1, <2>3, PurposeFacts DEF PurposeInv, Lifetime, Alive
  <2>5. purposeEntry'.version = v
    BY <2>2, <2>4
  <2>6. Version(Purpose)' = v
    BY <2>1 DEF Version
  <2>7. \E j \in DOMAIN l : Linking(j)'
    <3>1. CASE ev.type = "Activated"
      <4>1. PICK j \in DOMAIN l : j = v
        BY <2>3
      <4>2. j > pos'[Purpose] /\ j >= purposeEntry'.version /\ hand'[Purpose].at = "query"
        BY <1>3, <2>1, <2>5, <3>1, <4>1
      <4>3. Linking(j)'
        BY <1>2, <2>3, <3>1, <4>1, <4>2 DEF Linking
      <4> QED BY <4>3
    <3>2. CASE ev.type # "Activated"
      <4>1. PICK j \in DOMAIN l : Linking(j)
        BY <2>2, <2>3, <2>4, <3>2 DEF PurposeEvent, WillLink
      <4>2. j > pos[Purpose] /\ l[j].type = "Activated" /\ j \in Nat /\ j # v
        BY <1>3, <2>3, <3>2, <4>1 DEF Linking
      <4>3. j > v
        BY <1>3, <4>2
      <4>4. j > pos'[Purpose] /\ j >= purposeEntry'.version
        BY <1>3, <2>1, <2>5, <4>2, <4>3
      <4>5. Linking(j)'
        BY <1>2, <2>6, <4>2, <4>3, <4>4 DEF Linking
      <4> QED BY <4>5
    <3> QED BY <3>1, <3>2
  <2>8. hand'[Purpose].at \notin {"agreement", "catalog", "fill"}
    BY <2>1
  <2> QED BY <1>2, <2>7, <2>8 DEF WillLink
<1>9. CASE PurposeStates
  <2>1. purposeEntry' = purposeEntry /\ Handled(Purpose) /\ h.at = "states"
    BY <1>9 DEF PurposeStates, platform
  <2>2. \A j \in DOMAIN l : Linking(j) => j > v
    BY <2>1 DEF Linking
  <2> QED BY <1>5, <1>6, <2>1, <2>2
<1>10. CASE PurposeQuery
  <2>1. hand'[Purpose].at = "agreement" /\ hand'[Purpose].found = tokenEntry
    BY <1>1, <1>10 DEF PurposeQuery, Shapes, HandFields
  <2>2. pos' = pos /\ purposeEntry' = purposeEntry
    BY <1>10 DEF PurposeQuery, platform
  <2> QED BY <1>4, <2>1, <2>2
<1>11. CASE PurposeReadAgreement \/ PurposeReadCatalog
  <2>1. /\ hand'[Purpose].at \in {"catalog", "fill"} /\ hand'[Purpose].found = h.found
        /\ h.at \in {"agreement", "catalog"}
    BY <1>1, <1>11 DEF PurposeReadAgreement, PurposeReadCatalog, Shapes, HandFields, ReadFields
  <2>2. pos' = pos /\ purposeEntry' = purposeEntry
    BY <1>11 DEF PurposeReadAgreement, PurposeReadCatalog, platform
  <2>3. CASE ~Here(purposeEntry)
    BY <2>2, <2>3
  <2>4. CASE WillLink(k)
    <3>1. h.found[k].here /\ ~h.found[k].linked
      BY <2>1, <2>4 DEF WillLink
    <3> QED BY <1>4, <2>1, <2>2, <2>4, <3>1
  <2> QED BY <2>3, <2>4
<1> QED BY <1>7, <1>8, <1>9, <1>10, <1>11 DEF PurposeWriter

\* What the purpose's writer leaves alone.
LEMMA PurposeLeaves ==
  ASSUME LinkInv, PurposeWriter, NEW k \in Keys
  PROVE  /\ Pending(k) => Pending(k)'
         /\ Again(k) => Again(k)'
         /\ hand'[Client] = hand[Client]
         /\ agreementEntry' = agreementEntry /\ lost \subseteq lost'
         /\ \A part \in AgreementParts : Copied(part)' => Copied(part)
<1>1. Shapes /\ EntriesInv /\ PairInv
  BY DEF LinkInv, PurposeInv, EntriesInv
<1>2. Frame(Purpose) /\ UNCHANGED <<agreementEntry, clientEntry>>
  BY <1>1, PurposeFrame
<1>3. ClientSame
  BY <1>2, StreamsAreDistinct DEF Frame, ClientSame, Grows
<1>4. agreementEntry.id \in Streams \ {Purpose}
  BY <1>1, EntryFacts, StreamsAreDistinct DEF PairInv
<1>5. ASSUME NEW part
      PROVE  Copied(part)' => Copied(part)
  BY <1>2, <1>4, CopiedBefore DEF Frame
<1> QED BY <1>1, <1>2, <1>3, <1>5, ClientStays DEF Frame, ClientSame

LEMMA PurposeLeavesOwed ==
  ASSUME LinkInv, PurposeWriter, Alive, "agreement" \notin lost', NEW k \in Keys, AgreementOwed(k)
  PROVE  AgreementOwed(k)'
<1> DEFINE h == hand[Purpose]
           g == agreementEntry
           e == tokenEntry[k]
<1>1. Shapes /\ TokenShapes /\ PairInv /\ PurposeInv /\ EntriesInv
      /\ UnlinkedBlank /\ PurposeReads /\ ClientReads
  BY DEF LinkInv, PurposeInv, EntriesInv
<1>2. /\ Pending(k) => Pending(k)'
      /\ Again(k) => Again(k)'
      /\ hand'[Client] = hand[Client]
      /\ agreementEntry' = agreementEntry /\ lost \subseteq lost'
      /\ \A part \in AgreementParts : Copied(part)' => Copied(part)
  BY PurposeLeaves
<1>3. ASSUME NEW part \in AgreementParts, PartOwed(k, part),
             Held(tokenEntry'[k], part) = Held(e, part)
      PROVE  PartOwed(k, part)'
  BY <1>2, <1>3 DEF PartOwed, Shown, Rereads
<1>4. CASE ~PurposeFill
  <2>1. SameLink(k)
    BY <1>1, <1>4, PurposeKeepsLinks
  <2>2. ASSUME e.here, ~e.linked, LinkOwed(k)
        PROVE  LinkOwed(k)'
    <3>1. CASE ~Here(purposeEntry) \/ WillLink(k)
      <4>1. ~Here(purposeEntry') \/ WillLink(k)'
        BY <1>4, <2>2, <3>1, PurposeWillLink
      <4> QED BY <4>1 DEF LinkOwed
    <3>2. CASE Pending(k) \/ (Again(k) /\ (hand[Client].at = "purpose" \/ Here(hand[Client].now.p)))
      BY <1>2, <3>2 DEF LinkOwed
    <3> QED BY <2>2, <3>1, <3>2 DEF LinkOwed
  <2> QED BY <1>2, <1>3, <2>1, <2>2 DEF AgreementOwed, SameLink
<1>5. CASE PurposeFill
  <2>1. h.at = "fill" /\ purposeEntry' = purposeEntry
    BY <1>5 DEF PurposeFill, platform
  <2>2. \/ Fails(Purpose) /\ tokenEntry' = tokenEntry
        \/ /\ Handled(Purpose)
           /\ ~h.found[k].here => tokenEntry'[k] = e
           /\ h.found[k].here =>
                /\ tokenEntry'[k].here = e.here /\ tokenEntry'[k].linked = TRUE
                /\ \A part \in AgreementParts :
                     Held(tokenEntry'[k], part) =
                       IF Here(h.now.g) /\ Unlike(h.found[k], h.now.g) THEN h.now.g[part]
                       ELSE Held(e, part)
                /\ Overtaken(h.now.g, h.now.c) \subseteq lost'
    BY <1>1, <1>5, FillLinks
  <2>3. ASSUME tokenEntry'[k] = e, LinkOwed(k) => LinkOwed(k)'
        PROVE  AgreementOwed(k)'
    BY <1>2, <1>3, <2>3 DEF AgreementOwed
  <2>4. CASE Fails(Purpose) /\ tokenEntry' = tokenEntry
    <3>1. hand'[Purpose].at = "idle" /\ pos' = pos /\ log' = log
      <4>1. hand'[Purpose] = Idle /\ pos' = pos
        BY <1>1, <2>4, FailsStep, StreamsAreDistinct
      <4> QED BY <1>5, <4>1, IdleShape DEF PurposeFill
    <3>2. ASSUME NEW j \in DOMAIN log[Purpose], Linking(j)
          PROVE  Linking(j)'
      BY <2>1, <3>1, <3>2 DEF Linking
    <3>3. WillLink(k) => WillLink(k)'
      BY <3>1, <3>2 DEF WillLink
    <3>4. LinkOwed(k) => LinkOwed(k)'
      BY <1>2, <2>1, <3>3 DEF LinkOwed
    <3> QED BY <2>3, <2>4, <3>4
  <2>5. CASE ~h.found[k].here /\ tokenEntry'[k] = e
    <3>1. ~WillLink(k)
      BY <2>1, <2>5 DEF WillLink
    <3>2. LinkOwed(k) => LinkOwed(k)'
      BY <1>2, <2>1, <3>1 DEF LinkOwed
    <3> QED BY <2>3, <2>5, <3>2
  <2>6. CASE /\ h.found[k].here
             /\ tokenEntry'[k].here = e.here /\ tokenEntry'[k].linked = TRUE
             /\ \A part \in AgreementParts :
                  Held(tokenEntry'[k], part) =
                    IF Here(h.now.g) /\ Unlike(h.found[k], h.now.g) THEN h.now.g[part]
                    ELSE Held(e, part)
             /\ Overtaken(h.now.g, h.now.c) \subseteq lost'
    <3> SUFFICES ASSUME e.here, NEW part \in AgreementParts,
                        ~(part = "id" /\ "agreementId" \in lost')
                 PROVE  PartOwed(k, part)'
      BY <2>6 DEF AgreementOwed
    <3>1. AgreementData(h.now.g) = AgreementData(g)
      BY <2>6 DEF Overtaken
    <3>2. \A q \in AgreementParts : h.now.g[q] = g[q]
      BY <3>1 DEF AgreementData, AgreementParts
    <3>3. g.state \in ItemState /\ Here(h.now.g) /\ h.now.g.state \in ItemState
      BY <1>1, <2>1, EntryFacts DEF PairInv, PurposeReads, PairRead, Here, ItemState
    <3>4. CASE Unlike(h.found[k], h.now.g)
      <4>1. Held(tokenEntry'[k], part) = g[part]
        BY <2>6, <3>2, <3>3, <3>4
      <4>2. part = "state" => g[part] \in ItemState
        BY <3>3
      <4> QED BY <1>2, <4>1, <4>2 DEF PartOwed, Shown
    <3>5. CASE ~Unlike(h.found[k], h.now.g)
      <4>1. Held(tokenEntry'[k], part) = Held(e, part)
        BY <2>6, <3>5
      <4>2. h.found[k].agreementState \in ItemState
        BY <3>3, <3>5 DEF Unlike
      <4>3. h.found[k].linked
        <5>1. ~Blank(h.found[k])
          BY <4>2 DEF Blank, Held, AgreementParts, NoAgreement, ItemState
        <5> QED BY <1>1, <2>1, <5>1 DEF PurposeReads
      <4>4. CASE e.linked
        <5>1. PartOwed(k, part)
          BY <1>2, <4>4 DEF AgreementOwed
        <5> QED BY <1>3, <4>1, <5>1
      <4>5. CASE ~e.linked
        <5>1. Here(purposeEntry)
          <6>1. Message(Purpose).type = "Activated"
                /\ purposeEntry = [state |-> Message(Purpose).state, version |-> Version(Purpose)]
            BY <1>1, <2>1 DEF PurposeInv, PurposeAtWork
          <6>2. Message(Purpose).state = "active"
            BY <1>1, <2>1, <6>1, PurposeFacts DEF PurposeInv, PurposeAtWork, Lifetime
          <6> QED BY <6>1, <6>2 DEF Here
        <5>2. ~WillLink(k)
          BY <2>1, <4>3 DEF WillLink
        <5>3. CASE Pending(k)
          BY <1>2, <5>3 DEF PartOwed
        <5>4. CASE Again(k) /\ (hand[Client].at = "purpose" \/ Here(hand[Client].now.p))
          <6> DEFINE c == hand[Client]
          <6>1. c.before.g = NoAgreement
            BY <1>1, <4>5, <5>4 DEF Again, ClientReads, Retrieval
          <6>2. Held(e, part) = NoAgreement[part]
            BY <1>1, <4>5 DEF UnlinkedBlank, Blank
          <6>3. c.at \in {"purpose", "agreement", "catalog", "put", "update"}
            <7>1. c.at # "idle" /\ (MadeBy(Message(Client)) = {} \/ DeletedBy(Message(Client)) = {})
              BY <1>1, <5>4, ClientAtWork DEF Again
            <7> QED BY <1>1, <5>4, <7>1 DEF Again, EntriesInv, AtWork
          <6>4. Rereads
            <7>1. CASE c.at \in {"purpose", "agreement"}
              BY <7>1 DEF Rereads
            <7>2. CASE c.at \in {"catalog", "put", "update"}
              <8>1. PairRead(c.now.g)
                BY <1>1, <5>4, <7>2 DEF ClientReads, Retrieval
              <8>2. c.now.g # NoAgreement
                BY <8>1 DEF PairRead, NoAgreement, ItemState
              <8> QED BY <6>1, <8>2 DEF Rereads
            <7> QED BY <6>3, <7>1, <7>2
          <6>5. Again(k)' /\ Rereads' /\ Held(tokenEntry'[k], part) = hand'[Client].before.g[part]
            BY <1>2, <4>1, <5>4, <6>1, <6>2, <6>4 DEF Rereads
          <6> QED BY <6>5 DEF PartOwed
        <5> QED BY <4>5, <5>1, <5>2, <5>3, <5>4 DEF AgreementOwed, LinkOwed
      <4> QED BY <4>4, <4>5
    <3> QED BY <3>4, <3>5
  <2> QED BY <2>2, <2>4, <2>5, <2>6
<1> QED BY <1>4, <1>5

\* An event that is still ahead of an entry stays ahead, but for the one whose first contents
\* are put.
LEMMA ClientStaysPending ==
  ASSUME EntriesInv, ClientWriter, NEW k \in Keys, tokenEntry'[k].here, tokenEntry[k].here,
         ~(ClientPut /\ k \in MadeBy(Message(Client))), Pending(k)
  PROVE  Pending(k)'
<1> DEFINE ev == Message(Client)
           l == log[Client]
           v == Version(Client)
<1>1. Shapes /\ Client \in Streams
  BY StreamsAreDistinct DEF EntriesInv
<1>2. /\ pos[Client] \in Nat /\ DOMAIN l = 1..Len(l) /\ Len(l) \in Nat
      /\ v = pos[Client] + 1 /\ clientEntry \in Nat
      /\ pos[Client] < Len(l) => v \in DOMAIN l /\ ev = l[v]
  BY StreamFacts DEF EntriesInv
<1>3. log' = log
  BY <1>1, ClientFrame DEF Frame
<1>4. PICK j \in DOMAIN l : Ahead(k, j) /\ (j # v \/ hand[Client].round = 1)
  BY DEF Pending
<1>5. j > pos[Client] /\ j >= clientEntry /\ Touches(l[j], k) /\ j \in Nat
  BY <1>2, <1>4 DEF Ahead
<1>6. ASSUME hand'[Client].round = 1, j > pos'[Client], j >= clientEntry'
      PROVE  Pending(k)'
  <2>1. Ahead(k, j)'
    BY <1>3, <1>5, <1>6 DEF Ahead
  <2> QED BY <1>3, <1>6, <2>1 DEF Pending
<1>7. ASSUME Handled(Client)
      PROVE  hand'[Client].round = 1 /\ pos'[Client] = v
  <2>1. hand'[Client] = Idle /\ pos'[Client] = v
    BY <1>1, <1>7, HandledStep DEF Handled, Shapes, Version
  <2> QED BY <2>1 DEF Idle
<1>8. CASE ClientSkip
  <2>1. PICK i \in DOMAIN l : Ahead(k, i)'
    BY <1>4, <1>8, SkipLeavesAhead
  <2>2. hand'[Client].round = 1
    BY <1>8, ClientMoves
  <2> QED BY <1>3, <2>1, <2>2 DEF Pending
<1>9. CASE ClientStore
  <2>1. /\ hand'[Client].round = 1 /\ pos[Client] < Len(l)
        /\ clientEntry' = IF ev.type = "Deleted" THEN 0 ELSE v
    BY <1>9, ClientMoves DEF ClientStore, Takes
  <2>2. ASSUME NEW step, Go(Client, step)
        PROVE  j > pos'[Client]
    BY <1>5, <2>2 DEF Go
  <2>3. ASSUME Handled(Client), MadeBy(ev) = {}, DeletedBy(ev) = {}
        PROVE  j > pos'[Client]
    <3>1. j # v
      BY <1>2, <1>5, <2>1, <2>3 DEF Touches
    <3> QED BY <1>2, <1>5, <1>7, <2>3, <3>1
  <2>4. j > pos'[Client] /\ j >= clientEntry'
    <3>1. j > pos'[Client]
      BY <1>9, <2>2, <2>3 DEF ClientStore
    <3>2. j >= v
      BY <1>2, <1>5
    <3> QED BY <1>5, <2>1, <3>1, <3>2
  <2> QED BY <1>6, <2>1, <2>4
<1>10. CASE ClientDelete \/ ClientUpdate
  <2>1. Handled(Client) /\ clientEntry' = clientEntry
    BY <1>10 DEF ClientDelete, ClientUpdate, platform
  <2>2. hand[Client].at \in {"delete", "update"}
    BY <1>10 DEF ClientDelete, ClientUpdate
  <2>3. pos[Client] < Len(l) /\ (MadeBy(ev) = {} \/ DeletedBy(ev) = {})
    BY <2>2, ClientAtWork
  <2>4. j # v
    <3>1. CASE ClientDelete
      <4>1. tokenEntry'[k] = IF k \in DeletedBy(ev) THEN NoToken ELSE tokenEntry[k]
        BY <3>1 DEF ClientDelete
      <4>2. k \notin DeletedBy(ev)
        BY <4>1 DEF NoToken
      <4>3. DeletedBy(ev) # {}
        BY <3>1 DEF ClientDelete, EntriesInv, AtWork
      <4> QED BY <1>2, <1>5, <2>3, <4>2, <4>3 DEF Touches
    <3>2. CASE ClientUpdate
      BY <1>4, <3>2 DEF ClientUpdate, EntriesInv, AtWork
    <3> QED BY <1>10, <3>1, <3>2
  <2>5. j > pos'[Client]
    BY <1>2, <1>5, <1>7, <2>1, <2>4
  <2> QED BY <1>5, <1>6, <1>7, <2>1, <2>5
<1>11. CASE ClientReadPurpose \/ ClientReadAgreement \/ ClientReadCatalog
  <2>1. hand'[Client].round = hand[Client].round
    BY <1>1, <1>11 DEF ClientReadPurpose, ClientReadAgreement, ClientReadCatalog, Shapes, HandFields
  <2>2. pos' = pos /\ clientEntry' = clientEntry
    BY <1>11 DEF ClientReadPurpose, ClientReadAgreement, ClientReadCatalog, platform
  <2>3. Ahead(k, j)'
    BY <1>3, <1>5, <2>2 DEF Ahead
  <2>4. Version(Client)' = v
    BY <2>2 DEF Version
  <2> QED BY <1>3, <1>4, <2>1, <2>3, <2>4 DEF Pending
<1>12. CASE ClientPut
  <2>1. pos' = pos /\ clientEntry' = clientEntry /\ hand[Client].at = "put"
    BY <1>12 DEF ClientPut, platform
  <2>2. /\ pos[Client] < Len(l) /\ (MadeBy(ev) = {} \/ DeletedBy(ev) = {})
        /\ MadeBy(ev) # {} /\ k \notin MadeBy(ev)
    BY <1>12, <2>1, ClientAtWork DEF EntriesInv, AtWork
  <2>3. j # v
    BY <1>2, <1>5, <2>2 DEF Touches
  <2>4. Ahead(k, j)' /\ Version(Client)' = v
    BY <1>3, <1>5, <2>1 DEF Ahead, Version
  <2> QED BY <1>3, <2>3, <2>4 DEF Pending
<1> QED BY <1>8, <1>9, <1>10, <1>11, <1>12 DEF ClientWriter

\* What the authorization writer leaves alone.
LEMMA ClientLeaves ==
  ASSUME LinkInv, ClientWriter, NEW k \in Keys
  PROVE  /\ agreementEntry' = agreementEntry /\ purposeEntry' = purposeEntry
         /\ log' = log /\ lost \subseteq lost'
         /\ \A part \in AgreementParts : Copied(part)' => Copied(part)
         /\ WillLink(k) => WillLink(k)'
<1>1. Shapes /\ EntriesInv /\ PairInv /\ PurposeInv
  BY DEF LinkInv, PurposeInv, EntriesInv
<1>2. Frame(Client) /\ UNCHANGED <<agreementEntry, purposeEntry>>
  BY <1>1, ClientFrame
<1>3. PurposeSame
  BY <1>2, StreamsAreDistinct DEF Frame, PurposeSame, Grows
<1>4. agreementEntry.id \in Streams \ {Client}
  BY <1>1, EntryFacts, StreamsAreDistinct DEF PairInv
<1>5. ASSUME NEW part
      PROVE  Copied(part)' => Copied(part)
  BY <1>2, <1>4, CopiedBefore DEF Frame
<1> QED BY <1>1, <1>2, <1>3, <1>5, PurposeStays DEF Frame

\* The steps that neither make an entry nor retrieve anything for it.
LEMMA ClientRestLeaves ==
  ASSUME LinkInv, ClientWriter, NEW k \in Keys, AgreementOwed(k),
         tokenEntry'[k] = tokenEntry[k] \/ tokenEntry'[k] = NoToken,
         ~Again(k), ~(ClientPut /\ k \in MadeBy(Message(Client)))
  PROVE  AgreementOwed(k)'
<1>0. EntriesInv
  BY DEF LinkInv, PurposeInv
<1>1. CASE tokenEntry'[k] = NoToken
  BY <1>1 DEF AgreementOwed, NoToken
<1>2. CASE tokenEntry'[k] = tokenEntry[k]
  <2> SUFFICES ASSUME tokenEntry[k].here PROVE AgreementOwed(k)'
    BY <1>2 DEF AgreementOwed
  <2>1. Pending(k) => Pending(k)'
    BY <1>0, <1>2, ClientStaysPending
  <2>2. /\ agreementEntry' = agreementEntry /\ purposeEntry' = purposeEntry
        /\ lost \subseteq lost'
        /\ \A part \in AgreementParts : Copied(part)' => Copied(part)
        /\ WillLink(k) => WillLink(k)'
    BY ClientLeaves
  <2>3. LinkOwed(k) => LinkOwed(k)'
    BY <2>1, <2>2 DEF LinkOwed
  <2>4. \A part \in AgreementParts : PartOwed(k, part) => PartOwed(k, part)'
    BY <1>2, <2>1, <2>2 DEF PartOwed, Shown
  <2> QED BY <1>2, <2>2, <2>3, <2>4 DEF AgreementOwed
<1> QED BY <1>1, <1>2

LEMMA ReadsLeaveOwed ==
  ASSUME LinkInv, ClientReadPurpose \/ ClientReadAgreement \/ ClientReadCatalog, Unborn,
         NEW k \in Keys, AgreementOwed(k)
  PROVE  AgreementOwed(k)'
<1> DEFINE h == hand[Client]
           g == agreementEntry
<1>0. Shapes /\ EntriesInv /\ PairInv /\ ClientReads /\ ClientWriter
  BY DEF LinkInv, PurposeInv, EntriesInv, ClientWriter
<1>1. /\ hand'[Client].round = h.round /\ hand'[Client].before = h.before
      /\ UNCHANGED <<log, pos, tokenEntry>>
  BY <1>0, StreamsAreDistinct
     DEF ClientReadPurpose, ClientReadAgreement, ClientReadCatalog, Shapes, HandFields, ReadFields
<1>2. /\ ClientReadPurpose =>
           /\ hand'[Client].at = IF Here(purposeEntry) THEN "agreement" ELSE Retrieved
           /\ hand'[Client].now.p = purposeEntry
      /\ ClientReadAgreement =>
           /\ h.at = "agreement" /\ hand'[Client].now.g = g /\ hand'[Client].now.p = h.now.p
      /\ ClientReadCatalog =>
           /\ h.at = "catalog" /\ hand'[Client].now.g = h.now.g /\ hand'[Client].now.p = h.now.p
  <2>1. ASSUME ClientReadPurpose
        PROVE  /\ hand'[Client].at = IF Here(purposeEntry) THEN "agreement" ELSE Retrieved
               /\ hand'[Client].now.p = purposeEntry
    BY <1>0, <2>1, StreamsAreDistinct DEF ClientReadPurpose, Shapes, HandFields, ReadFields
  <2>2. ASSUME ClientReadAgreement
        PROVE  /\ h.at = "agreement" /\ hand'[Client].now.g = g /\ hand'[Client].now.p = h.now.p
    BY <1>0, <2>2, StreamsAreDistinct DEF ClientReadAgreement, Shapes, HandFields, ReadFields
  <2>3. ASSUME ClientReadCatalog
        PROVE  /\ h.at = "catalog" /\ hand'[Client].now.g = h.now.g /\ hand'[Client].now.p = h.now.p
    BY <1>0, <2>3, StreamsAreDistinct DEF ClientReadCatalog, Shapes, HandFields, ReadFields
  <2> QED BY <2>1, <2>2, <2>3
<1>3. /\ g' = g /\ purposeEntry' = purposeEntry /\ lost \subseteq lost'
      /\ \A part \in AgreementParts : Copied(part)' => Copied(part)
      /\ WillLink(k) => WillLink(k)'
  BY <1>0, ClientLeaves
<1> SUFFICES ASSUME tokenEntry[k].here PROVE AgreementOwed(k)'
  BY <1>1 DEF AgreementOwed
<1>4. /\ Pending(k) => Pending(k)'
      /\ Again(k) => Again(k)'
  <2>1. ~ClientPut
    BY DEF ClientReadPurpose, ClientReadAgreement, ClientReadCatalog, ClientPut
  <2>2. Message(Client)' = Message(Client)
    BY <1>1 DEF Message, Version
  <2> QED BY <1>0, <1>1, <2>1, <2>2, ClientStaysPending DEF Again
<1>5. ASSUME tokenEntry[k].linked, NEW part \in AgreementParts, PartOwed(k, part)
      PROVE  PartOwed(k, part)'
  <2>1. CASE Shown(k, part)
    BY <1>1, <1>3, <2>1 DEF PartOwed, Shown
  <2>2. CASE Pending(k)
    BY <1>4, <2>2 DEF PartOwed
  <2>3. CASE Again(k) /\ Rereads /\ Held(tokenEntry[k], part) = h.before.g[part]
    <3>1. CASE ClientReadPurpose
      <4>1. Here(purposeEntry)
        BY <1>5 DEF Unborn
      <4>2. Rereads'
        BY <1>2, <3>1, <4>1 DEF Rereads
      <4> QED BY <1>1, <1>4, <2>3, <4>2 DEF PartOwed
    <3>2. CASE ClientReadAgreement
      <4>1. CASE g # h.before.g
        <5>1. Rereads'
          BY <1>1, <1>2, <3>2, <4>1 DEF Rereads
        <5> QED BY <1>1, <1>4, <2>3, <5>1 DEF PartOwed
      <4>2. CASE g = h.before.g
        <5>1. Held(tokenEntry'[k], part) = g'[part]
          BY <1>1, <1>3, <2>3, <4>2
        <5>2. part = "state" => g'[part] \in ItemState
          BY <1>0, <1>3, EntryFacts DEF PairInv
        <5> QED BY <5>1, <5>2 DEF PartOwed, Shown
      <4> QED BY <4>1, <4>2
    <3>3. CASE ClientReadCatalog
      <4>1. Rereads'
        BY <1>1, <1>2, <2>3, <3>3 DEF Rereads
      <4> QED BY <1>1, <1>4, <2>3, <4>1 DEF PartOwed
    <3> QED BY <3>1, <3>2, <3>3
  <2> QED BY <1>5, <2>1, <2>2, <2>3 DEF PartOwed
<1>6. ASSUME LinkOwed(k)
      PROVE  LinkOwed(k)'
  <2>1. CASE Again(k) /\ (h.at = "purpose" \/ Here(h.now.p)) /\ Here(purposeEntry)
    <3>1. Here(hand'[Client].now.p)
      <4>1. CASE ClientReadPurpose
        BY <1>2, <2>1, <4>1
      <4>2. CASE ClientReadAgreement \/ ClientReadCatalog
        BY <1>2, <2>1, <4>2
      <4> QED BY <4>1, <4>2
    <3> QED BY <1>4, <2>1, <3>1 DEF LinkOwed
  <2> QED BY <1>3, <1>4, <1>6, <2>1 DEF LinkOwed
<1> QED BY <1>1, <1>3, <1>5, <1>6 DEF AgreementOwed

LEMMA PutLeavesOwed ==
  ASSUME LinkInv, ClientPut, NEW k \in Keys, k \in MadeBy(Message(Client))
  PROVE  AgreementOwed(k)'
<1> DEFINE h == hand[Client]
           ev == Message(Client)
<1>1. Shapes
  BY DEF LinkInv, PurposeInv, EntriesInv
<1>2. /\ hand'[Client].at = "purpose" /\ hand'[Client].round = 2
      /\ hand'[Client].before = h.now /\ UNCHANGED <<log, pos>>
      /\ tokenEntry' = [x \in Keys |-> IF x \in MadeBy(ev) THEN Made(h.now) ELSE tokenEntry[x]]
  BY <1>1, StreamsAreDistinct DEF ClientPut, Shapes, HandFields
<1>3. Message(Client)' = ev
  BY <1>2 DEF Message, Version
<1>4. tokenEntry'[k] = Made(h.now)
  BY <1>2
<1>5. Again(k)' /\ Rereads'
  BY <1>2, <1>3 DEF Again, Rereads
<1>6. ASSUME NEW part \in AgreementParts
      PROVE  PartOwed(k, part)'
  <2>1. Held(Made(h.now), part) = h.now.g[part]
    BY MadeParts
  <2> QED BY <1>2, <1>4, <1>5, <2>1 DEF PartOwed
<1>7. LinkOwed(k)'
  BY <1>2, <1>5 DEF LinkOwed
<1> QED BY <1>6, <1>7 DEF AgreementOwed

LEMMA UpdateLeavesOwed ==
  ASSUME LinkInv, ClientUpdate, "agreement" \notin lost', NEW k \in Keys,
         k \in MadeBy(Message(Client)), AgreementOwed(k)
  PROVE  AgreementOwed(k)'
<1> DEFINE h == hand[Client]
           g == agreementEntry
           e == tokenEntry[k]
<1>0. Shapes /\ TokenShapes /\ EntriesInv /\ PairInv /\ ClientReads /\ UnlinkedBlank /\ ClientWriter
  BY DEF LinkInv, PurposeInv, EntriesInv, ClientWriter
<1>1. /\ tokenEntry'[k].here = e.here
      /\ tokenEntry'[k].linked = IF Here(h.now.p) THEN TRUE ELSE e.linked
      /\ \A part \in AgreementParts :
           /\ (Here(h.now.g) /\ part # "id" /\ h.now.g[part] # h.before.g[part]) =>
                Held(tokenEntry'[k], part) = h.now.g[part]
           /\ ~(Here(h.now.g) /\ part # "id" /\ h.now.g[part] # h.before.g[part]) =>
                Held(tokenEntry'[k], part) = Held(e, part)
  BY <1>0, UpdateLinks
<1>2. /\ g' = g /\ purposeEntry' = purposeEntry /\ lost \subseteq lost'
      /\ \A part \in AgreementParts : Copied(part)' => Copied(part)
      /\ WillLink(k) => WillLink(k)'
  BY <1>0, ClientLeaves
<1> SUFFICES ASSUME e.here PROVE AgreementOwed(k)'
  BY <1>1 DEF AgreementOwed
<1>3. h.at = "update" /\ h.round # 1 /\ OvertakenRetrieval(h.before, h.now) \subseteq lost'
  BY <1>0 DEF ClientUpdate, EntriesInv, AtWork
<1>4. Pending(k) => Pending(k)'
  <2>1. ~ClientPut
    BY <1>3 DEF ClientPut
  <2> QED BY <1>0, <1>1, <2>1, ClientStaysPending
<1>5. g.state \in ItemState
  BY <1>0, EntryFacts DEF PairInv
<1>6. ASSUME h.now # h.before
      PROVE  /\ \A q \in AgreementParts : h.now.g[q] = g[q]
             /\ Here(h.now.g)
  <2>1. Overtaken(h.now.g, h.now.c) \subseteq lost'
    BY <1>3, <1>6 DEF OvertakenRetrieval
  <2>2. AgreementData(h.now.g) = AgreementData(g)
    BY <2>1 DEF Overtaken
  <2>3. \A q \in AgreementParts : h.now.g[q] = g[q]
    BY <2>2 DEF AgreementData, AgreementParts
  <2> QED BY <1>5, <2>3 DEF AgreementParts, Here, ItemState
<1>7. "agreementId" \notin lost' => h.now.g.id = h.before.g.id
  BY <1>3 DEF OvertakenRetrieval
<1>8. ASSUME NEW part \in AgreementParts, Held(tokenEntry'[k], part) = g[part]
      PROVE  PartOwed(k, part)'
  <2>1. part = "state" => g[part] \in ItemState
    BY <1>5
  <2> QED BY <1>2, <1>8, <2>1 DEF PartOwed, Shown
\* What was put, read again and changed, is what the entry says now.
<1>9. ASSUME NEW part \in AgreementParts, ~(part = "id" /\ "agreementId" \in lost'),
             Held(e, part) = h.before.g[part], h.now # h.before
      PROVE  PartOwed(k, part)'
  <2>1. h.now.g[part] = g[part] /\ Here(h.now.g)
    BY <1>6, <1>9
  <2>2. CASE part # "id" /\ h.now.g[part] # h.before.g[part]
    BY <1>1, <1>8, <2>1, <2>2
  <2>3. CASE ~(part # "id" /\ h.now.g[part] # h.before.g[part])
    <3>1. Held(tokenEntry'[k], part) = Held(e, part)
      BY <1>1, <2>3
    <3>2. h.now.g[part] = h.before.g[part]
      BY <1>7, <1>9, <2>3
    <3> QED BY <1>8, <1>9, <2>1, <3>1, <3>2
  <2> QED BY <2>2, <2>3
<1>10. CASE tokenEntry'[k].linked
  <2> SUFFICES ASSUME NEW part \in AgreementParts, ~(part = "id" /\ "agreementId" \in lost')
               PROVE  PartOwed(k, part)'
    BY <1>10 DEF AgreementOwed
  <2>1. CASE e.linked
    <3>0. PartOwed(k, part)
      BY <1>2, <2>1 DEF AgreementOwed
    <3>1. CASE Shown(k, part)
      <4>1. CASE Held(tokenEntry'[k], part) = Held(e, part)
        BY <1>2, <3>1, <4>1 DEF PartOwed, Shown
      <4>2. CASE Held(tokenEntry'[k], part) = h.now.g[part] /\ h.now.g[part] # h.before.g[part]
        <5>1. h.now.g[part] = g[part]
          BY <1>6, <4>2
        <5> QED BY <1>8, <4>2, <5>1
      <4> QED BY <1>1, <4>1, <4>2
    <3>2. CASE Pending(k)
      BY <1>4, <3>2 DEF PartOwed
    <3>3. CASE Again(k) /\ Rereads /\ Held(e, part) = h.before.g[part]
      <4>1. h.now # h.before
        BY <1>3, <3>3 DEF Rereads
      <4> QED BY <1>9, <3>3, <4>1
    <3> QED BY <3>0, <3>1, <3>2, <3>3 DEF PartOwed
  <2>2. CASE ~e.linked
    <3>1. Here(h.now.p) /\ ~Here(h.before.p)
      BY <1>0, <1>1, <1>3, <1>10, <2>2 DEF ClientReads
    <3>2. h.before.g = NoAgreement /\ h.now # h.before
      BY <1>0, <1>3, <3>1 DEF ClientReads, Retrieval
    <3>3. Held(e, part) = h.before.g[part]
      BY <1>0, <2>2, <3>2 DEF UnlinkedBlank, Blank
    <3> QED BY <1>9, <3>2, <3>3
  <2> QED BY <2>1, <2>2
<1>11. CASE ~tokenEntry'[k].linked
  <2>1. ~e.linked /\ ~Here(h.now.p)
    BY <1>1, <1>11
  <2>2. LinkOwed(k) => LinkOwed(k)'
    BY <1>2, <1>3, <1>4, <2>1 DEF LinkOwed
  <2> QED BY <1>11, <2>1, <2>2 DEF AgreementOwed
<1> QED BY <1>10, <1>11

LEMMA ClientLeavesOwed ==
  ASSUME LinkInv, ClientWriter, Unborn, "agreement" \notin lost', NEW k \in Keys, AgreementOwed(k)
  PROVE  AgreementOwed(k)'
<1>1. EntriesInv /\ TokenShapes
  BY DEF LinkInv, PurposeInv, EntriesInv
<1>2. CASE ClientSkip \/ ClientStore \/ ClientDelete
  <2>1. ~Again(k)
    <3>1. CASE hand[Client].at = "idle"
      BY <1>1, <3>1 DEF EntriesInv, AtWork, Again
    <3>2. CASE hand[Client].at = "delete"
      <4>1. DeletedBy(Message(Client)) # {}
            /\ (MadeBy(Message(Client)) = {} \/ DeletedBy(Message(Client)) = {})
        BY <1>1, <3>2, ClientAtWork DEF EntriesInv, AtWork
      <4> QED BY <4>1 DEF Again
    <3> QED BY <1>2, <3>1, <3>2 DEF ClientSkip, ClientStore, ClientDelete, Takes
  <2>2. tokenEntry'[k] = tokenEntry[k] \/ tokenEntry'[k] = NoToken
    BY <1>2 DEF ClientSkip, ClientStore, ClientDelete
  <2>3. ~ClientPut
    BY <1>2 DEF ClientSkip, ClientStore, ClientDelete, ClientPut, Takes
  <2> QED BY <2>1, <2>2, <2>3, ClientRestLeaves
<1>3. CASE ClientReadPurpose \/ ClientReadAgreement \/ ClientReadCatalog
  BY <1>3, ReadsLeaveOwed
<1>4. CASE (ClientPut \/ ClientUpdate) /\ k \notin MadeBy(Message(Client))
  <2>1. ~Again(k)
    BY <1>4 DEF Again
  <2>2. tokenEntry'[k] = tokenEntry[k]
    BY <1>4 DEF ClientPut, ClientUpdate
  <2> QED BY <1>4, <2>1, <2>2, ClientRestLeaves
<1>5. CASE ClientPut /\ k \in MadeBy(Message(Client))
  BY <1>5, PutLeavesOwed
<1>6. CASE ClientUpdate /\ k \in MadeBy(Message(Client))
  BY <1>6, UpdateLeavesOwed
<1> QED BY <1>2, <1>3, <1>4, <1>5, <1>6 DEF ClientWriter

\* A purpose that is archived stays so.
LEMMA AliveBefore ==
  ASSUME LinkInv, [Next]_vars, Alive'
  PROVE  Alive
<1>1. Shapes
  BY DEF LinkInv, PurposeInv, EntriesInv
<1>2. CASE log'[Purpose] = log[Purpose]
  BY <1>2 DEF Alive, PurposeTruth
<1>3. CASE \E type, state : StorePurpose(type, state)
  BY <1>3 DEF StorePurpose, Alive
<1>4. ASSUME Domain
      PROVE  log'[Purpose] = log[Purpose] \/ \E type, state : StorePurpose(type, state)
  <2>1. ASSUME NEW type, NEW state, StoreAgreement(type, state)
        PROVE  log'[Purpose] = log[Purpose]
    <3>1. LatestAgreement \in Nat /\ (LatestAgreement \in Nat => LatestAgreement + 1 # Purpose)
          /\ LatestAgreement # Purpose
      <4>1. PICK n \in Agreements : Begun(n)
        BY DEF LinkInv, PairInv, Courses
      <4>2. LatestAgreement = n /\ n \in Nat \ {0}
        BY <4>1, LatestIs DEF LinkInv, PairInv, Agreements
      <4> QED BY <4>2 DEF Purpose
    <3>2. ASSUME NEW s, s # Purpose, NEW ev, Store(s, ev)
          PROVE  log'[Purpose] = log[Purpose]
      <4>1. DOMAIN log = Streams
        BY DEF LinkInv, PairInv, Courses
      <4> QED BY <3>2, <4>1, StreamsAreDistinct DEF Store
    <3>3. PICK s, ev : (s = LatestAgreement \/ s = LatestAgreement + 1) /\ Store(s, ev)
      BY <2>1 DEF StoreAgreement
    <3> QED BY <3>1, <3>2, <3>3
  <2>2. ASSUME NEW s \in {EService, Client}, NEW ev, Store(s, ev)
        PROVE  log'[Purpose] = log[Purpose]
    BY <2>2, StreamsAreDistinct DEF Store
  <2>3. ASSUME NEW type, NEW d, StoreDescriptor(type, d)
        PROVE  log'[Purpose] = log[Purpose]
    <3>1. PICK desc : Store(EService, desc)
      BY <2>3 DEF StoreDescriptor
    <3> QED BY <2>2, <3>1
  <2>4. ASSUME NEW type, NEW k, StoreClient(type, k)
        PROVE  log'[Purpose] = log[Purpose]
    BY <2>2, <2>4 DEF StoreClient
  <2> QED BY <1>4, <2>1, <2>3, <2>4 DEF Domain
<1>5. Consumers => log' = log
  BY <1>1, PurposeFrame, CatalogFrame, ClientFrame, AgreementFrame DEF Consumers, Frame
<1>6. (\E s \in Streams : Crash(s) \/ Redeliver(s)) => log' = log
  BY DEF Crash, Redeliver
<1>7. UNCHANGED vars => log' = log
  BY DEF vars
<1> QED BY <1>2, <1>3, <1>4, <1>5, <1>6, <1>7 DEF Next

\* Only the purpose's writer, and what is made after the purpose's entry, links an entry.
LEMMA UnbornOthers ==
  ASSUME Unborn, purposeEntry' = purposeEntry, hand'[Client] = hand[Client],
         \A k \in Keys : tokenEntry'[k].linked = tokenEntry[k].linked
  PROVE  Unborn'
  BY DEF Unborn

LEMMA UnbornPurpose ==
  ASSUME LinkInv, PurposeWriter, Alive, Unborn
  PROVE  Unborn'
<1> DEFINE ev == Message(Purpose)
<1>1. Shapes /\ TokenShapes /\ PurposeInv
  BY DEF LinkInv, PurposeInv, EntriesInv
<1>2. hand'[Client] = hand[Client]
  BY <1>1, PurposeFrame, StreamsAreDistinct DEF Frame
<1>3. CASE PurposeStore
  <2>1. /\ pos[Purpose] < Len(log[Purpose])
        /\ purposeEntry' = IF ev.type = "Archived" THEN NoPurpose
                           ELSE [state |-> ev.state, version |-> Version(Purpose)]
    BY <1>3 DEF PurposeStore, Takes
  <2>2. Version(Purpose) \in DOMAIN log[Purpose] /\ ev = log[Purpose][Version(Purpose)]
        /\ ev \in PurposeEvent
    BY <1>1, <2>1, PurposeFacts
  <2>3. ev.type # "Archived" /\ ev.state # "archived"
    BY <1>1, <2>2, PurposeFacts DEF PurposeInv, Lifetime, Alive
  <2>4. Here(purposeEntry')
    BY <2>1, <2>2, <2>3 DEF PurposeEvent, ItemState, Here
  <2> QED BY <2>4 DEF Unborn
<1>4. CASE PurposeSkip
  <2>1. purposeEntry' = purposeEntry /\ tokenEntry' = tokenEntry
    BY <1>4 DEF PurposeSkip, platform
  <2> QED BY <1>2, <2>1, UnbornOthers
<1>5. CASE hand[Purpose].at # "idle"
  <2>1. ev \in PurposeEvent /\ pos[Purpose] < Len(log[Purpose])
        /\ Version(Purpose) \in DOMAIN log[Purpose] /\ ev = log[Purpose][Version(Purpose)]
    BY <1>1, <1>5, PurposeFacts DEF PurposeInv, PurposeAtWork
  <2>2. ev.type # "Archived" /\ ev.state # "archived"
    BY <1>1, <2>1, PurposeFacts DEF PurposeInv, Lifetime, Alive
  <2>3. Here(purposeEntry)
    <3>1. purposeEntry = [state |-> ev.state, version |-> Version(Purpose)]
      BY <1>1, <1>5, <2>2 DEF PurposeInv, PurposeAtWork
    <3> QED BY <2>1, <2>2, <3>1 DEF PurposeEvent, ItemState, Here
  <2>4. purposeEntry' = purposeEntry
    BY <1>5 DEF PurposeWriter, PurposeSkip, PurposeStore, PurposeStates, PurposeQuery,
       PurposeReadAgreement, PurposeReadCatalog, PurposeFill, Takes, platform
  <2> QED BY <2>3, <2>4 DEF Unborn
<1>6. \/ PurposeStore \/ PurposeSkip \/ hand[Purpose].at # "idle"
  BY DEF PurposeWriter, PurposeStates, PurposeQuery, PurposeReadAgreement, PurposeReadCatalog,
         PurposeFill
<1> QED BY <1>3, <1>4, <1>5, <1>6

LEMMA UnbornClient ==
  ASSUME LinkInv, ClientWriter, Unborn
  PROVE  Unborn'
<1> DEFINE h == hand[Client]
<1>1. Shapes /\ TokenShapes /\ EntriesInv
  BY DEF LinkInv, PurposeInv, EntriesInv
<1>2. purposeEntry' = purposeEntry
  BY <1>1, ClientFrame
<1> SUFFICES ASSUME ~Here(purposeEntry)
             PROVE  /\ \A k \in Keys : ~tokenEntry'[k].linked
                    /\ ~Here(hand'[Client].now.p) /\ ~Here(hand'[Client].before.p)
  BY <1>2 DEF Unborn
<1>3. /\ \A k \in Keys : ~tokenEntry[k].linked
      /\ ~Here(h.now.p) /\ ~Here(h.before.p)
  BY DEF Unborn
<1>4. ~Here(NothingRead.p)
  BY DEF NothingRead, NoPurpose, Here
<1>5. CASE ClientSkip \/ ClientStore \/ ClientDelete
  <2>1. \A k \in Keys : tokenEntry'[k] = tokenEntry[k] \/ tokenEntry'[k] = NoToken
    BY <1>5 DEF ClientSkip, ClientStore, ClientDelete
  <2>2. hand'[Client].now = NothingRead /\ hand'[Client].before = NothingRead
    BY <1>1, <1>5, ClientMoves
  <2> QED BY <1>3, <1>4, <2>1, <2>2 DEF NoToken
<1>6. CASE ClientReadPurpose \/ ClientReadAgreement \/ ClientReadCatalog
  <2>1. /\ hand'[Client].before = h.before /\ tokenEntry' = tokenEntry
        /\ hand'[Client].now.p = h.now.p \/ hand'[Client].now.p = purposeEntry
    BY <1>1, <1>6, StreamsAreDistinct
       DEF ClientReadPurpose, ClientReadAgreement, ClientReadCatalog, Shapes, HandFields, ReadFields
  <2> QED BY <1>3, <2>1
<1>7. CASE ClientPut
  <2>1. /\ hand'[Client].before = h.now /\ hand'[Client].now = NothingRead
    BY <1>1, <1>7, StreamsAreDistinct DEF ClientPut, Shapes, HandFields
  <2>2. \A k \in Keys : tokenEntry'[k] = tokenEntry[k] \/ tokenEntry'[k] = Made(h.now)
    BY <1>7 DEF ClientPut
  <2>3. ~Made(h.now).linked
    BY <1>3 DEF Made
  <2> QED BY <1>3, <1>4, <2>1, <2>2, <2>3
<1>8. CASE ClientUpdate
  <2>1. hand'[Client] = Idle
    BY <1>1, <1>8, HandledStep, StreamsAreDistinct DEF ClientUpdate
  <2>2. ASSUME NEW k \in Keys
        PROVE  ~tokenEntry'[k].linked
    BY <1>1, <1>3, <1>8, UpdateLinks
  <2> QED BY <1>4, <2>1, <2>2 DEF Idle
<1> QED BY <1>5, <1>6, <1>7, <1>8 DEF ClientWriter

LEMMA UnbornStep ==
  ASSUME LinkInv, [Next]_vars, Alive, Unborn
  PROVE  Unborn'
<1>1. Shapes /\ TokenShapes
  BY DEF LinkInv, PurposeInv, EntriesInv
<1>2. CASE Domain
  <2>1. purposeEntry' = purposeEntry /\ hand' = hand /\ tokenEntry' = tokenEntry
    BY <1>2, DomainKeeps DEF platform
  <2> QED BY <2>1, UnbornOthers
<1>3. CASE CatalogWriter
  <2>1. purposeEntry' = purposeEntry /\ hand'[Client] = hand[Client]
    BY <1>1, <1>3, CatalogFrame, StreamsAreDistinct DEF Frame
  <2>2. \A k \in Keys : tokenEntry'[k].linked = tokenEntry[k].linked
    BY <1>1, <1>3, CatalogKeepsLinks DEF SameLink
  <2> QED BY <2>1, <2>2, UnbornOthers
<1>4. ASSUME NEW a \in Agreements, AgreementWriter(a)
      PROVE  Unborn'
  <2>1. purposeEntry' = purposeEntry /\ hand'[Client] = hand[Client]
    BY <1>1, <1>4, AgreementFrame, StreamsAreDistinct DEF Frame
  <2>2. \A k \in Keys : tokenEntry'[k].linked = tokenEntry[k].linked
    BY <1>1, <1>4, AgreementLinks
  <2> QED BY <2>1, <2>2, UnbornOthers
<1>5. ASSUME NEW s \in Streams, Crash(s) \/ Redeliver(s)
      PROVE  Unborn'
  <2>1. purposeEntry' = purposeEntry /\ tokenEntry' = tokenEntry
    BY <1>5 DEF Crash, Redeliver, platform
  <2>2. hand'[Client] = hand[Client] \/ hand'[Client] = Idle
    <3>1. CASE Crash(s)
      BY <1>1, <3>1, FailsStep, StreamsAreDistinct DEF Crash
    <3>2. CASE Redeliver(s)
      BY <3>2 DEF Redeliver
    <3> QED BY <1>5, <3>1, <3>2
  <2>3. CASE hand'[Client] = hand[Client]
    BY <2>1, <2>3, UnbornOthers
  <2>4. CASE hand'[Client] = Idle
    BY <2>1, <2>4 DEF Unborn, Idle, NothingRead, NoPurpose, Here
  <2> QED BY <2>2, <2>3, <2>4
<1>6. CASE UNCHANGED vars
  BY <1>6, UnbornOthers DEF vars, platform
<1> QED BY <1>2, <1>3, <1>4, <1>5, <1>6, UnbornPurpose, UnbornClient DEF Next, Consumers

\* What is marked as lost stays so.
LEMMA KeepsShapes ==
  ASSUME Shapes, [Next]_vars
  PROVE  Shapes' /\ lost \subseteq lost'
<1>1. CASE Domain
  BY <1>1, DomainKeeps DEF Shapes
<1>2. CASE Consumers
  BY <1>2, PurposeFrame, CatalogFrame, ClientFrame, AgreementFrame DEF Consumers, Frame
<1>3. ASSUME NEW s \in Streams, Crash(s) \/ Redeliver(s)
      PROVE  Shapes' /\ lost \subseteq lost'
  <2>1. CASE Crash(s)
    BY <2>1, FailsStep DEF Crash
  <2>2. CASE Redeliver(s)
    BY <2>2 DEF Redeliver, Shapes
  <2> QED BY <1>3, <2>1, <2>2
<1>4. CASE UNCHANGED vars
  BY <1>4 DEF vars, Shapes
<1> QED BY <1>1, <1>2, <1>3, <1>4 DEF Next

LEMMA AgreementStep ==
  ASSUME AgreementInv, "agreement" \notin lost', [Next]_vars
  PROVE  AgreementInv'
<1>1. LinkInv /\ LinkInv'
  BY LinkStep DEF AgreementInv
<1>2. Shapes /\ PairInv' /\ lost \subseteq lost'
  BY <1>1, KeepsShapes DEF LinkInv, PurposeInv, EntriesInv
<1> SUFFICES ASSUME Alive'
             PROVE  /\ Unborn'
                    /\ "agreement" \notin lost' => \A k \in Keys : AgreementOwed(k)'
  BY <1>1 DEF AgreementInv
<1>3. Alive
  BY <1>1, AliveBefore
<1>4. Unborn /\ Unborn'
  BY <1>1, <1>3, UnbornStep DEF AgreementInv
<1>5. ASSUME "agreement" \notin lost', NEW k \in Keys
      PROVE  AgreementOwed(k)'
  <2>1. AgreementOwed(k)
    BY <1>2, <1>3, <1>5 DEF AgreementInv
  <2>2. CASE Domain
    BY <1>1, <1>2, <2>1, <2>2, DomainLeavesOwed
  <2>3. CASE PurposeWriter
    BY <1>1, <1>3, <1>5, <2>1, <2>3, PurposeLeavesOwed
  <2>4. CASE CatalogWriter
    BY <1>1, <2>1, <2>4, CatalogLeavesOwed
  <2>5. CASE ClientWriter
    BY <1>1, <1>4, <1>5, <2>1, <2>5, ClientLeavesOwed
  <2>6. ASSUME NEW a \in Agreements, AgreementWriter(a)
        PROVE  AgreementOwed(k)'
    BY <1>1, <1>5, <2>1, <2>6, AgreementLeavesOwed
  <2>7. ASSUME NEW s \in Streams, Crash(s) \/ Redeliver(s)
        PROVE  AgreementOwed(k)'
    BY <1>1, <2>1, <2>7, FaultsLeaveOwed
  <2>8. CASE UNCHANGED vars
    BY <1>1, <2>1, <2>8, StopLeavesOwed
  <2> QED BY <2>2, <2>3, <2>4, <2>5, <2>6, <2>7, <2>8 DEF Next, Consumers
<1> QED BY <1>4, <1>5

LEMMA AgreementInit == Init => AgreementInv
<1> SUFFICES ASSUME Init PROVE AgreementInv
  OBVIOUS
<1>1. tokenEntry = [k \in Keys |-> NoToken] /\ hand[Client] = Idle
  BY StreamsAreDistinct DEF Init
<1>2. \A k \in Keys : ~tokenEntry[k].here /\ ~tokenEntry[k].linked
  BY <1>1 DEF NoToken
<1>3. Unborn
  BY <1>1, <1>2 DEF Unborn, Idle, NothingRead, NoPurpose, Here
<1> QED BY <1>2, <1>3, LinkInit DEF AgreementInv, AgreementOwed

\* When the writers of the pair's agreement, of the purpose and of the client are done, the
\* entries are linked and show what the pair's entry says, and that is the latest agreement's.
LEMMA QuietShown ==
  ASSUME AgreementInv, Quiet({Purpose, Client} \cup Agreements), Alive, "agreement" \notin lost,
         NEW k \in Keys, tokenEntry[k].here
  PROVE  /\ \A part \in AgreementParts : (part = "id" /\ "agreementId" \in lost)
              \/ Held(tokenEntry[k], part) = agreementEntry[part]
         /\ tokenEntry[k].linked
         /\ agreementEntry.state = ItemOf(AgreementTruth.state)
         /\ agreementEntry.descriptor = AgreementTruth.descriptor
         /\ agreementEntry.id = LatestAgreement
<1> DEFINE g == agreementEntry
           l == log[g.id]
<1>1. PairInv /\ PurposeInv /\ EntriesInv
  BY DEF AgreementInv, LinkInv, PurposeInv
<1>2. PICK n \in Agreements : Begun(n)
  BY <1>1 DEF PairInv, Courses
<1>3. /\ LatestAgreement = n /\ Len(log[n]) \in DOMAIN log[n]
      /\ AgreementTruth.state = log[n][Len(log[n])].state
      /\ AgreementTruth.descriptor = log[n][1].descriptor
  BY <1>1, <1>2, LatestIs DEF PairInv
<1>4. /\ g.id \in Agreements /\ g.id \in Nat /\ g.version \in Nat \ {0}
      /\ g.version <= Len(l) /\ g.version >= pos[g.id] /\ g.state \in ItemState
  BY <1>1, EntryFacts DEF PairInv
<1>5. /\ hand[g.id].at = "idle" /\ pos[g.id] = Len(l) /\ pos[n] = Len(log[n])
      /\ hand[Client].at = "idle" /\ pos[Client] = Len(log[Client])
      /\ hand[Purpose].at = "idle" /\ pos[Purpose] = Len(log[Purpose])
  BY <1>4 DEF Quiet
<1>6. g.id = n
  <2>1. n \in Nat /\ Len(log[n]) \in Nat /\ DOMAIN log[n] = 1..Len(log[n])
    BY <1>1, CourseFacts, StreamsAreDistinct DEF PairInv
  <2>2. pos[n] >= 1
    BY <1>3, <1>5, <2>1
  <2>3. g.id >= n
    BY <1>1, <2>2 DEF PairInv, PairShown
  <2>4. l # <<>>
    BY <1>1 DEF PairInv, PairShown
  <2>5. g.id <= n
    BY <1>2, <1>4, <2>4 DEF Begun
  <2> QED BY <1>4, <2>1, <2>3, <2>5
<1>7. pos[g.id] \in Nat /\ g.version = pos[g.id] /\ pos[g.id] >= 1 /\ g.version = Len(l)
  <2>1. pos[g.id] \in Nat
    BY <1>1, <1>4, CourseFacts DEF PairInv
  <2> HIDE DEF l, g
  <2> QED BY <1>4, <1>5, <2>1
<1>8. g.state = ItemOf(AgreementTruth.state) /\ g.descriptor = AgreementTruth.descriptor
  BY <1>1, <1>3, <1>6, <1>7 DEF PairInv, PairShown
<1>9. ~Pending(k) /\ ~Again(k)
  <2>1. DOMAIN log[Client] = 1..Len(log[Client]) /\ Len(log[Client]) \in Nat
    BY <1>1, StreamFacts
  <2>2. \A j \in DOMAIN log[Client] : ~(j > pos[Client])
    BY <1>5, <2>1
  <2>3. hand[Client].round = 1
    BY <1>1, <1>5 DEF EntriesInv, AtWork
  <2> QED BY <2>2, <2>3 DEF Pending, Ahead, Again
<1>10. ~LinkOwed(k)
  <2>1. DOMAIN log[Purpose] = 1..Len(log[Purpose]) /\ Len(log[Purpose]) \in Nat \ {0}
        /\ PurposeTruth = log[Purpose][Len(log[Purpose])].state
    BY <1>1, PurposeFacts
  <2>2. Here(purposeEntry)
    <3>1. ~Here(purposeEntry) => log[Purpose][Len(log[Purpose])].type = "Archived"
      BY <1>1, <1>5, <2>1 DEF PurposeInv, PurposeShown
    <3> QED BY <1>1, <2>1, <3>1 DEF PurposeInv, Lifetime, Alive
  <2>3. \A j \in DOMAIN log[Purpose] : ~(j > pos[Purpose])
    BY <1>5, <2>1
  <2> QED BY <1>9, <2>2, <2>3 DEF LinkOwed, WillLink, Linking
<1>11. AgreementOwed(k)
  BY DEF AgreementInv
<1>12. tokenEntry[k].linked
  BY <1>10, <1>11 DEF AgreementOwed
<1>13. \A part \in AgreementParts : Copied(part)
  BY <1>5, <1>7 DEF Copied
<1>14. ASSUME NEW part \in AgreementParts, ~(part = "id" /\ "agreementId" \in lost)
       PROVE  Held(tokenEntry[k], part) = g[part]
  <2>1. PartOwed(k, part)
    BY <1>11, <1>12, <1>14 DEF AgreementOwed
  <2> QED BY <1>9, <1>13, <2>1 DEF PartOwed, Shown
<1> QED BY <1>3, <1>6, <1>8, <1>12, <1>14

\* Once the consumers of the purpose, of the client and of the pair's agreements are done, each
\* entry shows the latest agreement: its state, its descriptor and, unless a second retrieval
\* found another one, its identifier; with any number of handlers at work at once, as long as
\* none has written over another's agreement (lost).
THEOREM AgreementReachesEntries == Spec => []AgreementSettled
<1> DEFINE Inv == Shapes /\ ("agreement" \in lost \/ AgreementInv)
<1>1. Init => Inv
  BY AgreementInit DEF AgreementInv, LinkInv, PairInv, LatestInv
<1>2. Inv /\ [Next]_vars => Inv'
  BY AgreementStep, KeepsShapes DEF AgreementInv, LinkInv, PairInv, LatestInv
<1>3. Inv => AgreementSettled
  <2> SUFFICES ASSUME AgreementInv, Quiet({Purpose, Client} \cup Agreements),
                      "agreement" \notin lost, PurposeTruth \in ItemState,
                      NEW k \in Keys, tokenEntry[k].here
               PROVE  /\ tokenEntry[k].agreementState = ItemOf(AgreementTruth.state)
                      /\ tokenEntry[k].descriptor = AgreementTruth.descriptor
                      /\ "agreementId" \in lost \/ tokenEntry[k].agreementId = LatestAgreement
    BY DEF AgreementSettled, Tokens
  <2>1. Alive
    BY DEF Alive, ItemState
  <2> QED BY <2>1, QuietShown DEF AgreementParts, Held
<1> QED BY <1>1, <1>2, <1>3, PTL DEF Spec

-----------------------------------------------------------------------------
(* The e-service's stream, and what the descriptors' entries show of it.     *)

DescriptorState == [state : ItemState \cup {"absent", "archived"}, lifespan : {1, 2}]
CatalogTypes == {"Published", "Suspended", "Activated", "Archived", "QuotasUpdated"}
CatalogEvent == [type : CatalogTypes, of : Descriptors,
                 descriptors : [Descriptors -> DescriptorState]]

\* The descriptors are published one after the other.
OffersUpTo(desc, n) == \A d \in Descriptors : desc[d].state # "absent" <=> d <= n
\* One that is published stays so, one that is archived too.
Leads(x, y) == /\ x.state # "absent" => y.state # "absent"
               /\ x.state = "archived" => y.state = "archived"
\* What an event of that type makes of the descriptor that it is about.
Makes(type, x, y) ==
  /\ type = "Published" => x.state = "absent" /\ y.state = "active"
  /\ type # "Published" => x.state \in ItemState
  /\ type = "QuotasUpdated" => y.state = x.state /\ y.lifespan # x.lifespan
  /\ type \in {"Suspended", "Activated"} => y.state \in ItemState /\ y.lifespan = x.lifespan
  /\ type = "Archived" => y.state = "archived"

\* Only the events about a descriptor change it, but for the archiving of the one before.
Catalogue(l) ==
  /\ l \in Seq(CatalogEvent) /\ l # <<>>
  /\ l[1].type = "Published" /\ l[1].descriptors[l[1].of].state = "active"
  /\ \A j \in DOMAIN l : \E n \in Descriptors : OffersUpTo(l[j].descriptors, n)
  /\ \A i, j \in DOMAIN l :
       /\ j = i + 1 =>
            Makes(l[j].type, l[i].descriptors[l[j].of], l[j].descriptors[l[j].of])
       /\ i <= j => \A d \in Descriptors :
            /\ Leads(l[i].descriptors[d], l[j].descriptors[d])
            /\ /\ l[j].descriptors[d].state # "archived"
               /\ \A m \in DOMAIN l : i < m /\ m <= j => l[m].of # d
               => l[j].descriptors[d] = l[i].descriptors[d]

\* An event that may follow those of a catalogue, which end with these descriptors.
Continues(now, ev) ==
  /\ ev \in CatalogEvent
  /\ \E n \in Descriptors : OffersUpTo(ev.descriptors, n)
  /\ Makes(ev.type, now[ev.of], ev.descriptors[ev.of])
  /\ \A d \in Descriptors : /\ Leads(now[d], ev.descriptors[d])
                            /\ d # ev.of => \/ ev.descriptors[d] = now[d]
                                            \/ ev.descriptors[d].state = "archived"

LEMMA CatalogueGrows ==
  ASSUME NEW l, Catalogue(l), NEW ev, Continues(l[Len(l)].descriptors, ev)
  PROVE  Catalogue(Append(l, ev))
<1> DEFINE m == Append(l, ev)
           n == Len(l)
<1>1. /\ l \in Seq(CatalogEvent) /\ n \in Nat \ {0} /\ DOMAIN l = 1..n /\ ev \in CatalogEvent
      /\ n \in DOMAIN l
  BY DEF Catalogue, Continues
<1>2. /\ m \in Seq(CatalogEvent) /\ DOMAIN m = 1..(n + 1) /\ m[n + 1] = ev /\ m # <<>>
      /\ \A j \in DOMAIN l : m[j] = l[j]
  BY <1>1
<1>3. 1 \in DOMAIN l /\ m[1] = l[1]
  BY <1>1, <1>2
<1> HIDE DEF m, n
<1>4. ASSUME NEW j \in DOMAIN m, j \notin DOMAIN l
      PROVE  j = n + 1 /\ m[j] = ev
  BY <1>1, <1>2, <1>4
<1>5. ASSUME NEW j \in DOMAIN m
      PROVE  \E x \in Descriptors : OffersUpTo(m[j].descriptors, x)
  <2>1. CASE j \in DOMAIN l
    BY <1>2, <2>1 DEF Catalogue
  <2>2. CASE j \notin DOMAIN l
    BY <1>4, <2>2 DEF Continues
  <2> QED BY <2>1, <2>2
<1>6. ASSUME NEW i \in DOMAIN m, NEW j \in DOMAIN m, j = i + 1
      PROVE  Makes(m[j].type, m[i].descriptors[m[j].of], m[j].descriptors[m[j].of])
  <2>1. i \in DOMAIN l
    BY <1>1, <1>2, <1>6
  <2>2. CASE j \in DOMAIN l
    BY <1>2, <1>6, <2>1, <2>2 DEF Catalogue
  <2>3. CASE j \notin DOMAIN l
    <3>1. i = n /\ m[j] = ev
      BY <1>1, <1>4, <1>6, <2>1, <2>3
    <3> QED BY <1>2, <2>1, <3>1 DEF Continues, n
  <2> QED BY <2>2, <2>3
<1>7. ASSUME NEW i \in DOMAIN m, NEW j \in DOMAIN m, i <= j, NEW d \in Descriptors
      PROVE  /\ Leads(m[i].descriptors[d], m[j].descriptors[d])
             /\ (/\ m[j].descriptors[d].state # "archived"
                 /\ \A x \in DOMAIN m : i < x /\ x <= j => m[x].of # d)
                => m[j].descriptors[d] = m[i].descriptors[d]
  <2>1. CASE j \in DOMAIN l
    <3>1. i \in DOMAIN l /\ DOMAIN l \subseteq DOMAIN m
      BY <1>1, <1>2, <1>7, <2>1
    <3>2. m[i] = l[i] /\ m[j] = l[j] /\ \A x \in DOMAIN l : m[x] = l[x]
      BY <1>2, <2>1, <3>1
    <3> QED BY <1>7, <2>1, <3>1, <3>2 DEF Catalogue
  <2>2. CASE j \notin DOMAIN l /\ i \notin DOMAIN l
    <3>1. m[i] = m[j]
      BY <1>4, <2>2
    <3> QED BY <3>1 DEF Leads
  <2>3. CASE j \notin DOMAIN l /\ i \in DOMAIN l
    <3>1. j = n + 1 /\ m[j] = ev /\ m[i] = l[i] /\ i <= n
      BY <1>1, <1>2, <1>4, <2>3
    <3>2. /\ Leads(l[i].descriptors[d], l[n].descriptors[d])
          /\ (/\ l[n].descriptors[d].state # "archived"
              /\ \A x \in DOMAIN l : i < x /\ x <= n => l[x].of # d)
             => l[n].descriptors[d] = l[i].descriptors[d]
      BY <1>1, <2>3, <3>1 DEF Catalogue
    <3>3. /\ Leads(l[n].descriptors[d], ev.descriptors[d])
          /\ d # ev.of => \/ ev.descriptors[d] = l[n].descriptors[d]
                          \/ ev.descriptors[d].state = "archived"
      BY DEF Continues, n
    <3>4. Leads(m[i].descriptors[d], m[j].descriptors[d])
      BY <3>1, <3>2, <3>3 DEF Leads
    <3>5. ASSUME m[j].descriptors[d].state # "archived",
                 \A x \in DOMAIN m : i < x /\ x <= j => m[x].of # d
          PROVE  m[j].descriptors[d] = m[i].descriptors[d]
      <4>1. i < j /\ j <= j
        BY <1>1, <2>3, <3>1
      <4>2. ev.of # d
        BY <3>1, <3>5, <4>1
      <4>3. ev.descriptors[d] = l[n].descriptors[d]
        BY <3>1, <3>3, <3>5, <4>2
      <4>4. \A x \in DOMAIN l : i < x /\ x <= n => l[x].of # d
        BY <1>1, <1>2, <3>1, <3>5
      <4> QED BY <3>1, <3>2, <3>5, <4>3, <4>4
    <3> QED BY <3>4, <3>5
  <2> QED BY <2>1, <2>2, <2>3
<1>8. m[1].type = "Published" /\ m[1].descriptors[m[1].of].state = "active"
  BY <1>3 DEF Catalogue
<1>9. Catalogue(m)
  BY <1>2, <1>5, <1>6, <1>7, <1>8 DEF Catalogue
<1> QED BY <1>9 DEF m

\* The descriptors that are published now.
LEMMA OfferedNow ==
  ASSUME Catalogue(log[EService])
  PROVE  LET l == log[EService] IN
         /\ Len(l) \in DOMAIN l /\ Len(l) \in Nat \ {0} /\ DOMAIN l = 1..Len(l)
         /\ DescriptorTruth = l[Len(l)].descriptors
         /\ DescriptorTruth \in [Descriptors -> DescriptorState]
         /\ \A j \in DOMAIN l : l[j] \in CatalogEvent
         /\ Newest \in Descriptors /\ OffersUpTo(DescriptorTruth, Newest)
<1> DEFINE l == log[EService]
           now == DescriptorTruth
<1>1. /\ Len(l) \in DOMAIN l /\ Len(l) \in Nat \ {0} /\ DOMAIN l = 1..Len(l)
      /\ \A j \in DOMAIN l : l[j] \in CatalogEvent
  BY DEF Catalogue
<1>2. now = l[Len(l)].descriptors
  BY DEF DescriptorTruth, Last
<1>3. now \in [Descriptors -> DescriptorState]
  BY <1>1, <1>2 DEF CatalogEvent
<1>4. PICK n \in Descriptors : OffersUpTo(now, n)
  BY <1>1, <1>2 DEF Catalogue
<1>5. n \in Nat \ {0} /\ n <= MaxDescriptor
  BY DEF Descriptors
<1>6. Published = 1..n
  BY <1>4, <1>5 DEF Published, OffersUpTo, Descriptors
<1>7. Newest = n
  <2>1. Cardinality(1..n) = n
    BY <1>5, FS_Interval
  <2> QED BY <1>6, <2>1 DEF Newest
<1> QED BY <1>1, <1>2, <1>3, <1>4, <1>7

-----------------------------------------------------------------------------
(* What the descriptors' entries show of the stream.                         *)

ItemFields == {"state", "version", "lifespan"}
Closed(d) == DescriptorTruth[d].state = "archived"

\* The entry of a descriptor that is not archived shows an event, and none about it that was
\* handled since; one that is not there yet is still to be made.
ItemShown(d) ==
  LET c == catalogEntry[d]
      l == log[EService]
  IN
  /\ Here(c) => /\ c.version \in DOMAIN l /\ DescriptorData(c) = l[c.version].descriptors[d]
                /\ \A j \in DOMAIN l : c.version < j /\ j <= pos[EService] => l[j].of # d
  /\ ~Here(c) /\ DescriptorTruth[d].state # "absent" =>
       \E j \in DOMAIN l : j > pos[EService] /\ l[j].of = d /\ l[j].type = "Published"

\* The handler of an event has written the entry that it is about.
CatalogAtWork ==
  LET h == hand[EService]
      c == catalogEntry[Message(EService).of]
  IN
  /\ h.at \in {"idle", "states", "previous", "previousStates"}
  /\ h.at # "idle" => pos[EService] < Len(log[EService])
  /\ h.at # "idle" /\ ~Closed(Message(EService).of) =>
       /\ Here(c) /\ c.version >= Version(EService)
       /\ h.at = "states" => c.version = Version(EService)
  /\ h.at \in {"previous", "previousStates"} => Archives

OfferInv ==
  /\ Shapes /\ DOMAIN log = Streams
  /\ Catalogue(log[EService]) /\ pos[EService] \in 0..Len(log[EService])
  /\ DOMAIN catalogEntry = Descriptors
  /\ \A d \in Descriptors : DOMAIN catalogEntry[d] = ItemFields
  /\ CatalogAtWork
  /\ \A d \in Descriptors : Closed(d) \/ ItemShown(d)

\* The descriptor of an agreement in force is not archived.
InUse ==
  \A n \in Agreements :
    log[n] # <<>> =>
      /\ log[n][1].descriptor \in Descriptors
      /\ Begun(n) /\ log[n][Len(log[n])].type # "Archived" =>
           DescriptorTruth[log[n][1].descriptor].state \in ItemState

-----------------------------------------------------------------------------
(* The agreement's descriptor in the entries.                                *)

DescriptorParts == {"state", "lifespan"}
Kept(e, part) == IF part = "state" THEN e.descriptorState ELSE e.lifespan
Writes(ev, part) == IF part = "state" THEN ev.type # "QuotasUpdated"
                    ELSE ev.type \in {"Published", "QuotasUpdated"}

\* The event that the descriptor's entry shows has been written to the copies, if it is to be.
Told(d, part) ==
  LET v == catalogEntry[d].version
      ev == log[EService][v]
  IN
  \/ ev.of # d \/ ~Writes(ev, part)
  \/ pos[EService] >= v
  \/ hand[EService].at \in {"previous", "previousStates"} /\ v = Version(EService)

\* The handler of the agreement's activation will fill the entry, or will check it.
Unfilled(k, part) ==
  LET g == agreementEntry
      h == hand[g.id]
  IN
  /\ ~(pos[g.id] >= 1 \/ g.version >= 2)
  /\ h.at = "check" => ~Here(h.before.c) \/ Kept(tokenEntry[k], part) = h.before.c[part]

\* The second retrieval finds another descriptor, or will look at this one.
Moved ==
  LET h == hand[Client]
      d == agreementEntry.descriptor
  IN
  IF h.at \in {"purpose", "agreement"} THEN h.before.g.descriptor # d
  ELSE /\ h.now.g # h.before.g
       /\ h.now.g.descriptor # h.before.g.descriptor \/ h.now.g.descriptor # d
Rereading ==
  LET h == hand[Client] IN
  \/ h.at \in {"purpose", "agreement"}
  \/ /\ h.at = "catalog"
     /\ h.now.g = h.before.g => h.now.g.descriptor = agreementEntry.descriptor
  \/ h.at \notin {"purpose", "agreement", "catalog"} /\ h.now # h.before

CopyOwed(k, part) ==
  LET c == catalogEntry[agreementEntry.descriptor]
      has == Kept(tokenEntry[k], part)
  IN
  \/ ~Here(c) \/ ~Told(agreementEntry.descriptor, part) \/ has = c[part]
  \/ Unfilled(k, part)
  \/ Pending(k)
  \/ Again(k) /\ (Moved \/ (Rereading /\ has = hand[Client].before.c[part]))

DescriptorOwed(k) ==
  tokenEntry[k].here /\ tokenEntry[k].linked =>
    \A part \in DescriptorParts : (part = "lifespan" /\ "lifespan" \in lost) \/ CopyOwed(k, part)

\* What was read before has its parts, whoever holds it.
Befores == \A s \in Streams : DOMAIN hand[s].before = ReadFields

DescriptorInv ==
  /\ AgreementInv /\ OfferInv /\ InUse /\ Befores
  /\ /\ Alive /\ lost \cap {"agreement", "descriptor"} = {}
     /\ ~Closed(agreementEntry.descriptor)
     => \A k \in Keys : DescriptorOwed(k)

\* One that is not archived never was.
LEMMA OpenBefore ==
  ASSUME Catalogue(log[EService]), NEW d \in Descriptors, ~Closed(d),
         NEW j \in DOMAIN log[EService]
  PROVE  log[EService][j].descriptors[d].state # "archived"
<1> DEFINE l == log[EService]
           n == Len(l)
<1>1. n \in DOMAIN l /\ n \in Nat /\ DOMAIN l = 1..n /\ DescriptorTruth = l[n].descriptors
  BY OfferedNow
<1>2. j <= n
  <2> HIDE DEF l, n
  <2> QED BY <1>1 DEF l
<1> HIDE DEF n
<1>3. Leads(l[j].descriptors[d], l[n].descriptors[d])
  <2>1. n \in DOMAIN l
    BY <1>1
  <2>2. j \in DOMAIN l /\ Catalogue(l)
    OBVIOUS
  <2> HIDE DEF l
  <2> QED BY <1>2, <2>1, <2>2 DEF Catalogue
<1> QED BY <1>1, <1>3 DEF Leads, Closed

\* What the entry of one that is not archived says.
LEMMA ItemFacts ==
  ASSUME Catalogue(log[EService]), NEW d \in Descriptors, ~Closed(d), ItemShown(d),
         Here(catalogEntry[d])
  PROVE  LET c == catalogEntry[d]
             l == log[EService]
         IN
         /\ c.version \in DOMAIN l /\ c.version \in Nat \ {0}
         /\ c.state = l[c.version].descriptors[d].state
         /\ c.lifespan = l[c.version].descriptors[d].lifespan
         /\ c.state \in ItemState /\ c.lifespan \in {1, 2}
         /\ \A j \in DOMAIN l :
              /\ c.version <= j => l[j].descriptors[d].state # "absent"
              /\ /\ c.version <= j
                 /\ \A m \in DOMAIN l : c.version < m /\ m <= j => l[m].of # d
                 => l[j].descriptors[d].state = c.state /\ l[j].descriptors[d].lifespan = c.lifespan
<1> DEFINE c == catalogEntry[d]
           l == log[EService]
           v == c.version
<1>1. v \in DOMAIN l /\ DescriptorData(c) = l[v].descriptors[d]
  BY DEF ItemShown
<1>2. v \in Nat \ {0} /\ l[v] \in CatalogEvent
  BY <1>1, OfferedNow
<1>3. c.state = l[v].descriptors[d].state /\ c.lifespan = l[v].descriptors[d].lifespan
  <2>1. DescriptorData(c).state = c.state /\ DescriptorData(c).lifespan = c.lifespan
    BY DEF DescriptorData
  <2> QED BY <1>1, <2>1
<1>4. l[v].descriptors[d] \in DescriptorState
  <2> DEFINE ev == l[v]
  <2>1. ev \in CatalogEvent
    BY <1>2
  <2> HIDE DEF ev
  <2>2. ev.descriptors[d] \in DescriptorState
    BY <2>1 DEF CatalogEvent
  <2> QED BY <2>2 DEF ev
<1>5. c.state \in ItemState /\ c.lifespan \in {1, 2}
  BY <1>1, <1>3, <1>4, OpenBefore DEF DescriptorState, Here
<1>6. ASSUME NEW j \in DOMAIN l, v <= j
      PROVE  /\ l[j].descriptors[d].state # "absent"
             /\ (\A m \in DOMAIN l : v < m /\ m <= j => l[m].of # d)
                => l[j].descriptors[d] = l[v].descriptors[d]
  <2>1. l[j].descriptors[d].state # "archived"
    BY OpenBefore
  <2>2. /\ Leads(l[v].descriptors[d], l[j].descriptors[d])
        /\ (/\ l[j].descriptors[d].state # "archived"
            /\ \A m \in DOMAIN l : v < m /\ m <= j => l[m].of # d)
           => l[j].descriptors[d] = l[v].descriptors[d]
    BY <1>1, <1>6 DEF Catalogue
  <2>3. l[v].descriptors[d].state # "absent"
    BY <1>3 DEF Here
  <2> QED BY <2>1, <2>2, <2>3 DEF Leads
<1> HIDE DEF v, c, l
<1>7. ASSUME NEW j \in DOMAIN l
      PROVE  /\ v <= j => l[j].descriptors[d].state # "absent"
             /\ (/\ v <= j
                 /\ \A m \in DOMAIN l : v < m /\ m <= j => l[m].of # d)
                => l[j].descriptors[d].state = c.state /\ l[j].descriptors[d].lifespan = c.lifespan
  BY <1>3, <1>6, <1>7
<1>8. v \in DOMAIN l /\ v \in Nat \ {0}
  BY <1>1, <1>2
<1> QED BY <1>3, <1>5, <1>7, <1>8 DEF v, c, l

\* The message of the e-service's stream.
LEMMA OfferFacts ==
  ASSUME Catalogue(log[EService]), pos[EService] \in 0..Len(log[EService])
  PROVE  LET l == log[EService]
             v == Version(EService)
         IN
         /\ pos[EService] \in Nat /\ v = pos[EService] + 1 /\ v \in Nat
         /\ pos[EService] < Len(l) =>
              /\ v \in DOMAIN l /\ Message(EService) = l[v] /\ l[v] \in CatalogEvent
              /\ l[v].of \in Descriptors /\ l[v].descriptors[l[v].of] \in DescriptorState
              /\ v = 1 => l[v].type = "Published"
              /\ v # 1 => /\ pos[EService] \in DOMAIN l
                          /\ Makes(l[v].type, l[pos[EService]].descriptors[l[v].of],
                                   l[v].descriptors[l[v].of])
<1> DEFINE l == log[EService]
           p == pos[EService]
           v == Version(EService)
<1>1. Len(l) \in Nat /\ DOMAIN l = 1..Len(l) /\ \A j \in DOMAIN l : l[j] \in CatalogEvent
  BY OfferedNow
<1>2. p \in Nat /\ v = p + 1 /\ v \in Nat
  BY <1>1 DEF Version
<1>3. ASSUME p < Len(l)
      PROVE  v \in DOMAIN l /\ (v # 1 => p \in DOMAIN l)
  <2> HIDE DEF l, p, v
  <2> QED BY <1>1, <1>2, <1>3
<1>4. ASSUME p < Len(l)
      PROVE  l[v] \in CatalogEvent /\ l[v].of \in Descriptors
             /\ l[v].descriptors[l[v].of] \in DescriptorState
  BY <1>1, <1>3, <1>4 DEF CatalogEvent
<1>5. ASSUME p < Len(l), v # 1
      PROVE  Makes(l[v].type, l[p].descriptors[l[v].of], l[v].descriptors[l[v].of])
  BY <1>2, <1>3, <1>5 DEF Catalogue
<1>6. l[1].type = "Published"
  BY DEF Catalogue
<1> QED BY <1>2, <1>3, <1>4, <1>5, <1>6 DEF Message

LEMMA OthersKeepOffer ==
  ASSUME OfferInv, Shapes', DOMAIN log' = Streams, catalogEntry' = catalogEntry,
         log'[EService] = log[EService], pos'[EService] = pos[EService],
         hand'[EService] = hand[EService]
  PROVE  OfferInv'
<1>1. DescriptorTruth' = DescriptorTruth /\ Message(EService)' = Message(EService)
      /\ Version(EService)' = Version(EService) /\ Previous' = Previous
  BY DEF DescriptorTruth, Message, Version, Previous
<1>2. CatalogAtWork'
  BY <1>1 DEF OfferInv, CatalogAtWork, Closed, Archives
<1>3. \A d \in Descriptors : Closed(d)' \/ ItemShown(d)'
  BY <1>1 DEF OfferInv, Closed, ItemShown
<1> QED BY <1>2, <1>3 DEF OfferInv

\* The end of a message, or of its first part: the entry shows it, or a later one.
LEMMA DoneKeepsOffer ==
  ASSUME OfferInv, log' = log, catalogEntry' = catalogEntry,
         pos[EService] < Len(log[EService]),
         Handled(EService) \/ (Archives /\ Go(EService, "previous")),
         ~Closed(Message(EService).of) =>
           LET c == catalogEntry[Message(EService).of] IN
           \/ Here(c) /\ c.version >= Version(EService)
           \/ ~Here(c) /\ Message(EService).type # "Published"
  PROVE  OfferInv'
<1> DEFINE l == log[EService]
           p == pos[EService]
           v == Version(EService)
           ev == Message(EService)
<1>1. /\ Shapes /\ EService \in Streams /\ Catalogue(l) /\ p \in 0..Len(l)
  BY StreamsAreDistinct DEF OfferInv
<1>2. /\ p \in Nat /\ v = p + 1 /\ v \in Nat /\ v \in DOMAIN l /\ ev = l[v]
      /\ Len(l) \in Nat /\ DOMAIN l = 1..Len(l)
  BY <1>1, OfferFacts, OfferedNow
<1>3. DescriptorTruth' = DescriptorTruth
  BY DEF DescriptorTruth
<1>4. CASE Handled(EService)
  <2>1. /\ Shapes' /\ hand'[EService] = Idle /\ pos'[EService] = v
    BY <1>1, <1>4, HandledStep DEF Handled, Shapes, Version
  <2>2. v \in 0..Len(l)
    BY <1>2
  <2>3. CatalogAtWork'
    BY <2>1 DEF CatalogAtWork, Idle
  <2>4. ASSUME NEW d \in Descriptors, ~Closed(d)
        PROVE  ItemShown(d)'
    <3> DEFINE c == catalogEntry[d]
    <3>0. ItemShown(d)
      BY <2>4 DEF OfferInv
    <3>1. ASSUME Here(c)
          PROVE  \A j \in DOMAIN l : c.version < j /\ j <= v => l[j].of # d
      <4>1. c.version \in Nat /\ \A j \in DOMAIN l : c.version < j /\ j <= p => l[j].of # d
        BY <1>1, <2>4, <3>0, <3>1, ItemFacts DEF ItemShown
      <4>2. l[v].of = d => c.version >= v
        BY <1>2, <2>4, <3>1
      <4> SUFFICES ASSUME NEW j \in DOMAIN l, c.version < j, j <= v PROVE l[j].of # d
        OBVIOUS
      <4>3. j \in Nat
        BY <1>2
      <4> HIDE DEF l, p, v, c
      <4>4. j = v \/ j <= p
        BY <1>2, <4>3
      <4>5. CASE j = v
        BY <1>2, <4>1, <4>2, <4>5
      <4>6. CASE j <= p
        BY <4>1, <4>6
      <4> QED BY <4>4, <4>5, <4>6
    <3>2. ASSUME ~Here(c), DescriptorTruth[d].state # "absent"
          PROVE  \E j \in DOMAIN l : j > v /\ l[j].of = d /\ l[j].type = "Published"
      <4>1. PICK j \in DOMAIN l : j > p /\ l[j].of = d /\ l[j].type = "Published"
        BY <3>0, <3>2 DEF ItemShown
      <4>2. j # v
        BY <1>2, <2>4, <3>2, <4>1
      <4>3. j > v
        BY <1>2, <4>1, <4>2
      <4> QED BY <4>1, <4>3
    <3> QED BY <1>3, <2>1, <3>0, <3>1, <3>2 DEF ItemShown
  <2> QED BY <1>1, <1>3, <2>1, <2>2, <2>3, <2>4 DEF OfferInv, Closed
<1>5. CASE Archives /\ Go(EService, "previous")
  <2>1. Shapes' /\ hand'[EService].at = "previous" /\ pos' = pos
    BY <1>1, <1>5, GoStep
  <2>2. Message(EService)' = ev /\ Version(EService)' = v /\ Previous' = Previous
    BY <2>1 DEF Message, Version, Previous
  <2>3. ev.type = "Published"
    BY <1>5 DEF Archives
  <2>4. CatalogAtWork'
    BY <1>3, <1>5, <2>1, <2>2, <2>3 DEF CatalogAtWork, Closed, Archives
  <2>5. \A d \in Descriptors : Closed(d)' \/ ItemShown(d)'
    BY <1>3, <2>1 DEF OfferInv, Closed, ItemShown
  <2> QED BY <1>1, <2>1, <2>4, <2>5 DEF OfferInv
<1> QED BY <1>4, <1>5

\* An event that is skipped is shown, or followed by others.
LEMMA SkippedItem ==
  ASSUME OfferInv, Takes(EService), DescriptorSkips, ~Closed(Message(EService).of)
  PROVE  LET ev == Message(EService)
             c == catalogEntry[ev.of]
         IN
         /\ ev.type # "Archived"
         /\ \/ Here(c) /\ c.version > Version(EService)
            \/ /\ Here(c) /\ c.version = Version(EService)
               /\ ev.type = "QuotasUpdated" /\ ev.descriptors[ev.of].lifespan = c.lifespan
            \/ ~Here(c) /\ ev.type # "Published"
<1> DEFINE p == pos[EService]
           v == Version(EService)
           ev == Message(EService)
           d == ev.of
           c == catalogEntry[d]
           before(j) == log[EService][j].descriptors[d]
           of == ev.descriptors[d]
<1>1. Catalogue(log[EService]) /\ p \in 0..Len(log[EService]) /\ p < Len(log[EService])
  BY DEF OfferInv, Takes
<1>2. p \in Nat /\ v = p + 1 /\ v \in DOMAIN log[EService] /\ ev = log[EService][v]
  BY <1>1, OfferFacts
<1>3. d \in Descriptors
  BY <1>1, OfferFacts
<1>4. (v = 1 => ev.type = "Published")
      /\ (v # 1 => p \in DOMAIN log[EService] /\ Makes(ev.type, before(p), of))
  BY <1>1, OfferFacts
<1>5. of.state # "archived"
  BY <1>1, <1>2, <1>3, OpenBefore
<1>6. /\ ev.type # "Archived" => Newer(c, EService) \/ ~Here(c) \/ of.lifespan = c.lifespan
      /\ ev.type # "Archived" /\ ~Newer(c, EService) /\ Here(c) => ev.type = "QuotasUpdated"
      /\ ev.type # "Archived" /\ ~Newer(c, EService) => ev.type # "Published"
  BY DEF DescriptorSkips, Newer
<1>7. ItemShown(d)
  BY <1>3 DEF OfferInv
<1>8. ASSUME Here(c)
      PROVE  /\ c.version \in Nat
             /\ \A j \in DOMAIN log[EService] :
                  /\ c.version <= j
                  /\ \A m \in DOMAIN log[EService] : c.version < m /\ m <= j => log[EService][m].of # d
                  => before(j).lifespan = c.lifespan
  BY <1>1, <1>3, <1>7, <1>8, ItemFacts
<1>9. Here(c) => \A m \in DOMAIN log[EService] : c.version < m /\ m <= p => log[EService][m].of # d
  BY <1>7 DEF ItemShown
<1>10. Newer(c, EService) <=> Here(c) /\ c.version > v
  BY DEF Newer
<1> HIDE DEF p, v, ev, d, c, of, before
<1>11. ev.type # "Archived"
  BY <1>4, <1>5 DEF Makes
<1>12. ASSUME Here(c), ~(c.version > v), c.version # v
       PROVE  FALSE
  <2>1. c.version \in Nat /\ c.version <= p /\ v # 1
    <3>1. c.version \in Nat /\ ev.type = "QuotasUpdated"
      BY <1>6, <1>8, <1>10, <1>11, <1>12
    <3>2. v # 1
      BY <1>4, <3>1
    <3> DEFINE w == c.version
    <3>3. w \in Nat /\ ~(w > v) /\ w # v
      BY <1>12, <3>1
    <3> HIDE DEF w
    <3>4. w <= p
      BY <1>2, <3>3
    <3> QED BY <3>1, <3>2, <3>4 DEF w
  <2>2. before(p).lifespan = c.lifespan
    BY <1>4, <1>8, <1>9, <1>12, <2>1
  <2>3. ev.type = "QuotasUpdated" /\ of.lifespan = c.lifespan
    BY <1>6, <1>10, <1>11, <1>12
  <2>4. Makes(ev.type, before(p), of)
    BY <1>4, <2>1
  <2> QED BY <2>2, <2>3, <2>4 DEF Makes
<1>13. /\ ev.type # "Archived"
       /\ \/ Here(c) /\ c.version > v
          \/ Here(c) /\ c.version = v /\ ev.type = "QuotasUpdated" /\ of.lifespan = c.lifespan
          \/ ~Here(c) /\ ev.type # "Published"
  BY <1>6, <1>10, <1>11, <1>12
<1> QED BY <1>13 DEF v, ev, d, c, of

\* What the entry becomes when an event is stored: what the event says.
LEMMA StoredItem ==
  ASSUME OfferInv, DescriptorStore, ~Closed(Message(EService).of)
  PROVE  LET ev == Message(EService)
             c == catalogEntry[ev.of]
             new == catalogEntry'[ev.of]
         IN
         /\ DOMAIN new = ItemFields /\ new.version = Version(EService)
         /\ new.state = ev.descriptors[ev.of].state /\ new.lifespan = ev.descriptors[ev.of].lifespan
         /\ Here(new)
         /\ ev.type # "Published" => Here(c)
         /\ Here(c) => c.version \in Nat /\ c.version <= Version(EService)
         /\ ev.type = "QuotasUpdated" => new.state = c.state
         /\ ev.type \in {"Suspended", "Activated"} => new.lifespan = c.lifespan
<1> DEFINE p == pos[EService]
           v == Version(EService)
           ev == Message(EService)
           d == ev.of
           c == catalogEntry[d]
           before(j) == log[EService][j].descriptors[d]
           of == ev.descriptors[d]
           new == catalogEntry'[d]
<1>1. Catalogue(log[EService]) /\ p \in 0..Len(log[EService]) /\ p < Len(log[EService])
  BY DEF OfferInv, DescriptorStore, Takes
<1>2. p \in Nat /\ v = p + 1 /\ v \in DOMAIN log[EService] /\ ev = log[EService][v]
  BY <1>1, OfferFacts
<1>3. d \in Descriptors /\ of \in DescriptorState
  BY <1>1, OfferFacts
<1>4. (v = 1 => ev.type = "Published")
      /\ (v # 1 => p \in DOMAIN log[EService] /\ Makes(ev.type, before(p), of))
  BY <1>1, OfferFacts
<1>5. ev.type \in CatalogTypes
  BY <1>1, OfferFacts DEF CatalogEvent
<1>6. of.state # "archived"
  BY <1>1, <1>2, <1>3, OpenBefore
<1>7. v = 1 => of.state = "active"
  BY <1>2 DEF Catalogue, OfferInv
<1>8. /\ ev.type # "Archived" /\ Here(c) => ~(c.version > v)
      /\ ev.type \in {"Suspended", "Activated", "QuotasUpdated"} => Here(c)
  BY DEF DescriptorStore, DescriptorSkips, Newer
<1>9. /\ ev.type = "QuotasUpdated" =>
           new = [c EXCEPT !.lifespan = of.lifespan, !.version = v]
      /\ ev.type # "QuotasUpdated" /\ ev.type # "Archived" =>
           new = [state |-> ItemOf(of.state), version |-> v,
                  lifespan |-> IF Here(c) THEN c.lifespan ELSE of.lifespan]
  <2>1. DOMAIN catalogEntry = Descriptors
    BY DEF OfferInv
  <2> QED BY <1>3, <2>1 DEF DescriptorStore
<1>10. ItemShown(d) /\ DOMAIN c = ItemFields
  BY <1>3 DEF OfferInv
<1>11. ASSUME Here(c)
       PROVE  /\ c.version \in Nat \ {0} /\ c.version \in DOMAIN log[EService]
              /\ c.state = before(c.version).state /\ c.lifespan = before(c.version).lifespan
              /\ \A j \in DOMAIN log[EService] :
                   /\ c.version <= j
                   /\ \A m \in DOMAIN log[EService] :
                        c.version < m /\ m <= j => log[EService][m].of # d
                   => before(j).state = c.state /\ before(j).lifespan = c.lifespan
  BY <1>1, <1>3, <1>10, <1>11, ItemFacts
<1>12. Here(c) => \A m \in DOMAIN log[EService] : c.version < m /\ m <= p => log[EService][m].of # d
  BY <1>10 DEF ItemShown
<1>13. before(v) = of
  BY <1>2
<1> HIDE DEF p, v, ev, d, c, of, new, before
<1>14. ev.type # "Archived"
  BY <1>4, <1>6 DEF Makes
<1>15. of.state \in ItemState /\ ItemOf(of.state) = of.state
  <2>1. of.state \in ItemState
    <3>1. CASE v = 1
      BY <1>7, <3>1 DEF ItemState
    <3>2. CASE v # 1
      <4>1. Makes(ev.type, before(p), of)
        BY <1>4, <3>2
      <4> QED BY <1>5, <1>14, <4>1 DEF Makes, CatalogTypes, ItemState
    <3> QED BY <3>1, <3>2
  <2> QED BY <2>1 DEF ItemState, ItemOf
<1>16. ASSUME Here(c)
       PROVE  /\ c.version \in Nat /\ c.version <= v
              /\ \/ c.state = of.state /\ c.lifespan = of.lifespan
                 \/ /\ v # 1 /\ before(p).state = c.state /\ before(p).lifespan = c.lifespan
                    /\ Makes(ev.type, before(p), of)
  <2> DEFINE w == c.version
  <2>1. w \in Nat \ {0} /\ ~(w > v)
    BY <1>8, <1>11, <1>14, <1>16
  <2>2. w = v => c.state = of.state /\ c.lifespan = of.lifespan
    BY <1>11, <1>13, <1>16
  <2>3. w <= p /\ v # 1 => before(p).state = c.state /\ before(p).lifespan = c.lifespan
    BY <1>4, <1>11, <1>12, <1>16
  <2> HIDE DEF w
  <2>4. w \in Nat /\ w <= v /\ (w # v => w <= p /\ v # 1)
    <3>1. p \in Nat /\ v = p + 1 /\ w \in Nat \ {0} /\ ~(w > v)
      BY <1>2, <2>1
    <3>2. w <= v /\ (w # v => w <= p /\ v # 1)
      BY <3>1
    <3> QED BY <3>1, <3>2
  <2> QED BY <1>4, <2>2, <2>3, <2>4 DEF w
<1>17. /\ Here(c) /\ ev.type = "QuotasUpdated" => c.state = of.state
       /\ Here(c) /\ ev.type \in {"Suspended", "Activated"} => c.lifespan = of.lifespan
  BY <1>16 DEF Makes
<1>18. Here(c) /\ ev.type = "Published" => c.lifespan = of.lifespan
  <2>1. ASSUME Here(c), ev.type = "Published", v # 1, before(p).state = c.state,
               Makes(ev.type, before(p), of)
        PROVE  FALSE
    BY <2>1 DEF Makes, Here
  <2> QED BY <1>16, <2>1
<1>19. ev.type # "Published" => Here(c)
  BY <1>5, <1>8, <1>14 DEF CatalogTypes
<1>20. /\ DOMAIN new = ItemFields /\ new.version = v
       /\ new.state = of.state /\ new.lifespan = of.lifespan
  <2>1. CASE ev.type = "QuotasUpdated"
    <3>1. new = [c EXCEPT !.lifespan = of.lifespan, !.version = v] /\ c.state = of.state
      BY <1>9, <1>17, <1>19, <2>1
    <3> QED BY <1>10, <3>1 DEF ItemFields
  <2>2. CASE ev.type # "QuotasUpdated"
    <3>1. Here(c) => c.lifespan = of.lifespan
      BY <1>5, <1>14, <1>17, <1>18, <2>2 DEF CatalogTypes
    <3>2. new = [state |-> of.state, version |-> v, lifespan |-> of.lifespan]
      BY <1>9, <1>14, <1>15, <2>2, <3>1
    <3> QED BY <3>2 DEF ItemFields
  <2> QED BY <2>1, <2>2
<1>21. Here(new)
  BY <1>15, <1>20 DEF Here, ItemState
<1>22. /\ Here(c) => c.version \in Nat /\ c.version <= v
       /\ ev.type = "QuotasUpdated" => new.state = c.state
       /\ ev.type \in {"Suspended", "Activated"} => new.lifespan = c.lifespan
  BY <1>16, <1>17, <1>19, <1>20
<1> QED BY <1>19, <1>20, <1>21, <1>22 DEF v, ev, d, c, of, new

LEMMA StoreKeepsOffer ==
  ASSUME OfferInv, DescriptorStore
  PROVE  OfferInv'
<1> DEFINE l == log[EService]
           v == Version(EService)
           ev == Message(EService)
           of == ev.of
<1>1. /\ Shapes /\ EService \in Streams /\ Catalogue(l) /\ pos[EService] \in 0..Len(l)
      /\ pos[EService] < Len(l) /\ DOMAIN catalogEntry = Descriptors
      /\ \A d \in Descriptors : DOMAIN catalogEntry[d] = ItemFields
  BY StreamsAreDistinct DEF OfferInv, DescriptorStore, Takes
<1>2. /\ pos[EService] \in Nat /\ v = pos[EService] + 1 /\ v \in DOMAIN l /\ ev = l[v]
      /\ of \in Descriptors /\ of \in Nat /\ ev.descriptors[of] \in DescriptorState
  BY <1>1, OfferFacts DEF Descriptors
<1>3. /\ Shapes' /\ log' = log /\ hand'[EService].at = "states" /\ pos' = pos
  BY <1>1, GoStep DEF DescriptorStore
<1>4. /\ DescriptorTruth' = DescriptorTruth /\ Message(EService)' = ev /\ Version(EService)' = v
      /\ Previous' = Previous
  BY <1>3 DEF DescriptorTruth, Message, Version, Previous
<1>5. /\ DOMAIN catalogEntry' = Descriptors
      /\ \A d \in Descriptors \ {of} : catalogEntry'[d] = catalogEntry[d]
      /\ ev.type = "Archived" => catalogEntry'[of] = NoDescriptor
  <2>1. DOMAIN catalogEntry = Descriptors /\ of \in Descriptors
    BY <1>1, <1>2
  <2> QED BY <2>1 DEF DescriptorStore
<1>6. Closed(of) \/ ev.type # "Archived"
  <2>1. CASE ev.type = "Archived" /\ ~Closed(of)
    <3>1. ev.descriptors[of].state # "archived"
      BY <1>1, <1>2, <2>1, OpenBefore
    <3>2. v # 1 => Makes(ev.type, l[pos[EService]].descriptors[of], ev.descriptors[of])
      BY <1>1, <1>2, OfferFacts
    <3>3. v # 1
      BY <1>1, <1>2, <2>1, OfferFacts
    <3> QED BY <2>1, <3>1, <3>2, <3>3 DEF Makes
  <2> QED BY <2>1
<1>7. ~Closed(of) =>
        /\ DOMAIN catalogEntry'[of] = ItemFields /\ Here(catalogEntry'[of])
        /\ catalogEntry'[of].version = v
        /\ catalogEntry'[of].state = ev.descriptors[of].state
        /\ catalogEntry'[of].lifespan = ev.descriptors[of].lifespan
  BY StoredItem
<1>8. DOMAIN catalogEntry'[of] = ItemFields
  <2> DEFINE c == catalogEntry[of]
             put == ev.descriptors[of]
  <2>1. DOMAIN NoDescriptor = ItemFields
    BY DEF NoDescriptor, ItemFields
  <2>2. \/ catalogEntry'[of] = NoDescriptor
        \/ catalogEntry'[of] = [c EXCEPT !.lifespan = put.lifespan, !.version = v]
        \/ catalogEntry'[of] = [state |-> ItemOf(put.state), version |-> v,
                                lifespan |-> IF Here(c) THEN c.lifespan ELSE put.lifespan]
    <3>1. DOMAIN catalogEntry = Descriptors /\ of \in Descriptors
      BY <1>1, <1>2
    <3> QED BY <3>1 DEF DescriptorStore
  <2>3. DOMAIN c = ItemFields
    BY <1>1, <1>2
  <2> DEFINE new == catalogEntry'[of]
  <2>4. \/ new = NoDescriptor
        \/ new = [c EXCEPT !.lifespan = put.lifespan, !.version = v]
        \/ new = [state |-> ItemOf(put.state), version |-> v,
                  lifespan |-> IF Here(c) THEN c.lifespan ELSE put.lifespan]
    BY <2>2
  <2> HIDE DEF c, put, v, of, new
  <2>5. DOMAIN new = ItemFields
    BY <2>1, <2>3, <2>4 DEF ItemFields
  <2> QED BY <2>5 DEF new
<1>9. ASSUME NEW d \in Descriptors, ~Closed(d)
      PROVE  ItemShown(d)'
  <2>1. CASE d = of
    <3> DEFINE new == catalogEntry'[d]
    <3>1. DescriptorData(new) = ev.descriptors[d]
      <4> DEFINE put == ev.descriptors[d]
      <4>1. put \in DescriptorState /\ new.state = put.state /\ new.lifespan = put.lifespan
        BY <1>2, <1>7, <1>9, <2>1
      <4> HIDE DEF put, new
      <4>2. DescriptorData(new) = put
        BY <4>1 DEF DescriptorData, DescriptorState
      <4> QED BY <4>2 DEF put
    <3>2. Here(new) /\ new.version = v
      BY <1>7, <1>9, <2>1
    <3>3. \A j \in DOMAIN l : ~(v < j /\ j <= pos[EService])
      BY <1>1, <1>2, OfferedNow
    <3> QED BY <1>2, <1>3, <3>1, <3>2, <3>3 DEF ItemShown
  <2>2. CASE d # of
    BY <1>3, <1>4, <1>5, <1>9, <2>2 DEF OfferInv, ItemShown
  <2> QED BY <2>1, <2>2
<1>10. CatalogAtWork'
  <2>1. v >= v
    BY <1>2
  <2> QED BY <1>1, <1>3, <1>4, <1>7, <2>1 DEF CatalogAtWork, Closed
<1>11. \A d \in Descriptors : DOMAIN catalogEntry'[d] = ItemFields
  BY <1>1, <1>5, <1>8
<1>12. \A d \in Descriptors : Closed(d)' \/ ItemShown(d)'
  BY <1>4, <1>9 DEF Closed
<1>13. DOMAIN log' = Streams /\ Catalogue(log'[EService]) /\ pos'[EService] \in 0..Len(log'[EService])
  BY <1>1, <1>3 DEF OfferInv
<1> QED BY <1>3, <1>5, <1>10, <1>11, <1>12, <1>13 DEF OfferInv

\* The descriptor before one that is published is archived, if its entry is deleted.
LEMMA PreviousClosed ==
  ASSUME Catalogue(log[EService]), pos[EService] \in 0..Len(log[EService]),
         pos[EService] < Len(log[EService]), Archives
  PROVE  Previous \in Descriptors /\ Closed(Previous) /\ Previous # Message(EService).of
<1>1. Previous \in Descriptors /\ Message(EService).descriptors[Previous].state = "archived"
  BY DEF Archives
<1>2. /\ Version(EService) \in DOMAIN log[EService] /\ Message(EService).of \in Nat
      /\ Message(EService) = log[EService][Version(EService)]
  BY OfferFacts DEF Descriptors
<1>3. Closed(Previous)
  BY <1>1, <1>2, OpenBefore
<1> QED BY <1>1, <1>2, <1>3 DEF Previous

LEMMA CatalogKeepsOffer ==
  ASSUME OfferInv, CatalogWriter
  PROVE  OfferInv'
<1> DEFINE ev == Message(EService)
           h == hand[EService]
<1>1. /\ Shapes /\ EService \in Streams /\ Catalogue(log[EService])
      /\ pos[EService] \in 0..Len(log[EService]) /\ DOMAIN catalogEntry = Descriptors
  BY StreamsAreDistinct DEF OfferInv
<1>2. CASE DescriptorSkip
  <2>1. Takes(EService) /\ DescriptorSkips /\ DescriptorDone /\ log' = log
        /\ catalogEntry' = catalogEntry /\ pos[EService] < Len(log[EService])
    BY <1>2 DEF DescriptorSkip, platform, Takes
  <2>2. Version(EService) \in Nat /\ ev.of \in Descriptors
    BY <1>1, <2>1, OfferFacts
  <2>3. ~Closed(ev.of) =>
          \/ Here(catalogEntry[ev.of]) /\ catalogEntry[ev.of].version >= Version(EService)
          \/ ~Here(catalogEntry[ev.of]) /\ ev.type # "Published"
    <3> SUFFICES ASSUME ~Closed(ev.of)
                 PROVE  \/ Here(catalogEntry[ev.of])
                           /\ catalogEntry[ev.of].version >= Version(EService)
                        \/ ~Here(catalogEntry[ev.of]) /\ ev.type # "Published"
      OBVIOUS
    <3>1. \/ Here(catalogEntry[ev.of]) /\ catalogEntry[ev.of].version > Version(EService)
          \/ Here(catalogEntry[ev.of]) /\ catalogEntry[ev.of].version = Version(EService)
          \/ ~Here(catalogEntry[ev.of]) /\ ev.type # "Published"
      BY <2>1, SkippedItem
    <3>2. Here(catalogEntry[ev.of]) => catalogEntry[ev.of].version \in Nat
      BY <1>1, <2>2, ItemFacts DEF OfferInv
    <3> DEFINE w == catalogEntry[ev.of].version
               v == Version(EService)
    <3>3. (w > v \/ w = v) /\ Here(catalogEntry[ev.of]) => w >= v
      <4> HIDE DEF w, v
      <4> QED BY <2>2, <3>2 DEF w, v
    <3> QED BY <3>1, <3>3
  <2>4. Handled(EService) \/ (Archives /\ Go(EService, "previous"))
    BY <2>1 DEF DescriptorDone
  <2> QED BY <2>1, <2>3, <2>4, DoneKeepsOffer
<1>3. CASE DescriptorStore
  BY <1>3, StoreKeepsOffer
<1>4. CASE DescriptorStates
  <2>1. /\ log' = log /\ catalogEntry' = catalogEntry /\ DescriptorDone /\ h.at = "states"
        /\ pos[EService] < Len(log[EService])
    BY <1>4 DEF DescriptorStates, platform, OfferInv, CatalogAtWork
  <2>2. Handled(EService) \/ (Archives /\ Go(EService, "previous"))
    BY <2>1 DEF DescriptorDone
  <2> QED BY <2>1, <2>2, DoneKeepsOffer DEF OfferInv, CatalogAtWork
<1>5. CASE PreviousDelete
  <2>1. /\ log' = log /\ catalogEntry' = [catalogEntry EXCEPT ![Previous] = NoDescriptor]
        /\ Go(EService, "previousStates") /\ h.at = "previous"
        /\ pos[EService] < Len(log[EService]) /\ Archives
        /\ ~Closed(ev.of) => Here(catalogEntry[ev.of])
                             /\ catalogEntry[ev.of].version >= Version(EService)
    BY <1>5 DEF PreviousDelete, OfferInv, CatalogAtWork
  <2>2. Shapes' /\ hand'[EService].at = "previousStates" /\ pos' = pos
    BY <1>1, <2>1, GoStep
  <2>3. /\ DescriptorTruth' = DescriptorTruth /\ Message(EService)' = ev
        /\ Version(EService)' = Version(EService) /\ Previous' = Previous
    BY <2>1, <2>2 DEF DescriptorTruth, Message, Version, Previous
  <2>4. Previous \in Descriptors /\ Closed(Previous) /\ Previous # ev.of /\ ev.of \in Descriptors
    BY <1>1, <2>1, PreviousClosed, OfferFacts
  <2>5. /\ \A d \in Descriptors \ {Previous} : catalogEntry'[d] = catalogEntry[d]
        /\ catalogEntry'[Previous] = NoDescriptor /\ DOMAIN catalogEntry' = Descriptors
    BY <1>1, <2>1, <2>4
  <2>6. CatalogAtWork'
    BY <2>1, <2>2, <2>3, <2>4, <2>5 DEF CatalogAtWork, Closed, Archives
  <2>7. ASSUME NEW d \in Descriptors
        PROVE  Closed(d)' \/ ItemShown(d)'
    <3>1. CASE d = Previous
      BY <2>3, <2>4, <3>1 DEF Closed
    <3>2. CASE d # Previous
      BY <2>1, <2>2, <2>3, <2>5, <3>2 DEF OfferInv, Closed, ItemShown
    <3> QED BY <3>1, <3>2
  <2>8. \A d \in Descriptors : DOMAIN catalogEntry'[d] = ItemFields
    BY <2>5 DEF OfferInv, NoDescriptor, ItemFields
  <2> QED BY <1>1, <2>1, <2>2, <2>5, <2>6, <2>7, <2>8 DEF OfferInv
<1>6. CASE PreviousStates
  <2>1. /\ log' = log /\ catalogEntry' = catalogEntry /\ Handled(EService)
        /\ h.at = "previousStates" /\ pos[EService] < Len(log[EService])
        /\ ~Closed(ev.of) => Here(catalogEntry[ev.of])
                             /\ catalogEntry[ev.of].version >= Version(EService)
    BY <1>6 DEF PreviousStates, platform, OfferInv, CatalogAtWork
  <2> QED BY <2>1, DoneKeepsOffer
<1> QED BY <1>2, <1>3, <1>4, <1>5, <1>6 DEF CatalogWriter

LEMMA FaultsKeepOffer ==
  ASSUME OfferInv, NEW s \in Streams, Crash(s) \/ Redeliver(s)
  PROVE  OfferInv'
<1>1. Shapes /\ UNCHANGED <<log, catalogEntry>>
  BY DEF OfferInv, Crash, Redeliver, platform
<1>2. /\ Shapes'
      /\ \A t \in Streams \ {s} : hand'[t] = hand[t] /\ pos'[t] = pos[t]
      /\ \/ hand'[s] = Idle /\ pos'[s] = pos[s]
         \/ hand'[s] = hand[s] /\ hand[s].at = "idle" /\ pos'[s] \in 0..(pos[s] - 1)
  <2>1. CASE Crash(s)
    BY <1>1, <2>1, FailsStep DEF Crash
  <2>2. CASE Redeliver(s)
    BY <1>1, <2>2 DEF Redeliver, Shapes
  <2> QED BY <2>1, <2>2
<1>3. CASE s # EService
  BY <1>1, <1>2, <1>3, OthersKeepOffer, StreamsAreDistinct DEF OfferInv
<1>4. CASE s = EService
  <2> DEFINE l == log[EService]
             p == pos[EService]
             q == pos'[EService]
  <2>1. p \in Nat /\ p <= Len(l) /\ Len(l) \in Nat /\ DOMAIN l = 1..Len(l)
    BY OfferedNow, OfferFacts DEF OfferInv
  <2>2. q \in Nat /\ q <= p /\ q \in 0..Len(l)
    <3> HIDE DEF l
    <3> QED BY <1>2, <1>4, <2>1
  <2>3. hand'[EService].at = "idle"
    BY <1>2, <1>4 DEF Idle
  <2>4. CatalogAtWork'
    BY <2>3 DEF CatalogAtWork
  <2>5. ASSUME NEW d \in Descriptors, ItemShown(d)
        PROVE  ItemShown(d)'
    <3>1. /\ \A j \in DOMAIN l : j <= q => j <= p
          /\ \A j \in DOMAIN l : j > p => j > q
      <4> HIDE DEF l, p, q
      <4> QED BY <2>1, <2>2
    <3>2. DescriptorTruth' = DescriptorTruth
      BY <1>1 DEF DescriptorTruth
    <3> QED BY <1>1, <2>5, <3>1, <3>2 DEF ItemShown
  <2>6. \A d \in Descriptors : Closed(d)' \/ ItemShown(d)'
    BY <1>1, <2>5 DEF OfferInv, Closed, DescriptorTruth
  <2>7. DOMAIN log' = Streams /\ Catalogue(log'[EService])
        /\ pos'[EService] \in 0..Len(log'[EService])
    BY <1>1, <2>2 DEF OfferInv
  <2> QED BY <1>1, <1>2, <2>4, <2>6, <2>7 DEF OfferInv
<1> QED BY <1>3, <1>4

\* What the catalogue's event adds; the descriptor of an agreement in force is not archived.
LEMMA DescriptorStored ==
  ASSUME Catalogue(log[EService]), NEW type \in CatalogTypes, NEW d \in Descriptors,
         StoreDescriptor(type, d)
  PROVE  \E ev : /\ Store(EService, ev) /\ Continues(DescriptorTruth, ev)
                 /\ \A x \in Descriptors :
                      InForce /\ AgreementTruth.descriptor = x
                      /\ DescriptorTruth[x].state \in ItemState
                      => ev.descriptors[x].state \in ItemState
<1> DEFINE now == DescriptorTruth
           n == Newest
           used(x) == InForce /\ AgreementTruth.descriptor = x
<1>1. /\ now \in [Descriptors -> DescriptorState] /\ n \in Descriptors /\ n \in Nat \ {0}
      /\ OffersUpTo(now, n) /\ d \in Nat
  BY OfferedNow DEF Descriptors
<1>3. \A x \in Descriptors : now[x] \in DescriptorState
  BY <1>1
\* Only the descriptor that the event is about changes.
<1>4. ASSUME NEW y \in DescriptorState, y.state # "absent", now[d].state \in ItemState,
             Makes(type, now[d], y),
             Store(EService, [type |-> type, of |-> d, descriptors |-> [now EXCEPT ![d] = y]]),
             used(d) => y.state \in ItemState
      PROVE  \E ev : /\ Store(EService, ev) /\ Continues(now, ev)
                     /\ \A x \in Descriptors :
                          used(x) /\ now[x].state \in ItemState
                          => ev.descriptors[x].state \in ItemState
  <2> DEFINE desc == [now EXCEPT ![d] = y]
             ev == [type |-> type, of |-> d, descriptors |-> desc]
  <2>1. /\ desc \in [Descriptors -> DescriptorState] /\ desc[d] = y
        /\ \A x \in Descriptors \ {d} : desc[x] = now[x]
    BY <1>1
  <2>2. ev \in CatalogEvent /\ ev.type = type /\ ev.of = d /\ ev.descriptors = desc
    BY <2>1 DEF CatalogEvent
  <2>3. OffersUpTo(desc, n)
    BY <1>1, <1>4, <2>1 DEF OffersUpTo, ItemState
  <2> HIDE DEF now, n
  <2> HIDE DEF desc
  <2>4. \A x \in Descriptors : Leads(now[x], desc[x])
    BY <1>4, <2>1 DEF Leads, ItemState
  <2> HIDE DEF ev
  <2>6. Continues(now, ev)
    BY <1>1, <1>4, <2>1, <2>2, <2>3, <2>4 DEF Continues
  <2>7. \A x \in Descriptors : used(x) /\ now[x].state \in ItemState
                               => ev.descriptors[x].state \in ItemState
    BY <1>4, <2>1, <2>2
  <2>8. Store(EService, ev)
    BY <1>4 DEF ev, desc
  <2> QED BY <2>6, <2>7, <2>8
<1>5. CASE /\ type = "Published" /\ d = n + 1
           /\ Store(EService, [type |-> type, of |-> d, descriptors |->
                [now EXCEPT ![d] = [state |-> "active", lifespan |-> 1],
                            ![d - 1].state = IF @ = "active" /\ ~used(d - 1)
                                             THEN "archived" ELSE @]])
  <2> DEFINE item == [state |-> "active", lifespan |-> 1]
             st == IF now[n].state = "active" /\ ~used(n) THEN "archived" ELSE now[n].state
             y == [now[n] EXCEPT !.state = st]
             desc == [x \in Descriptors |-> IF x = d THEN item
                                            ELSE IF x = n THEN y ELSE now[x]]
             put == [now EXCEPT ![d] = [state |-> "active", lifespan |-> 1],
                                ![d - 1].state = IF @ = "active" /\ ~used(d - 1)
                                                 THEN "archived" ELSE @]
             ev == [type |-> type, of |-> d, descriptors |-> desc]
  <2>1. d - 1 = n /\ d # n
    BY <1>1, <1>5
  <2>2. now[n] \in DescriptorState /\ item \in DescriptorState /\ item.state = "active"
        /\ item.lifespan = 1
    BY <1>3, <1>1 DEF DescriptorState, ItemState
  <2>3. put = desc
    <3> DEFINE first == [now EXCEPT ![d] = item]
    <3>1. put = [first EXCEPT ![d - 1].state = IF now[d - 1].state = "active" /\ ~used(d - 1)
                                               THEN "archived" ELSE now[d - 1].state]
      <4>1. first[d - 1] = now[d - 1]
        BY <1>1, <2>1
      <4> QED BY <4>1
    <3>2. put = [first EXCEPT ![n].state = st]
      BY <2>1, <3>1
    <3>3. /\ DOMAIN first = Descriptors /\ first[d] = item
          /\ \A x \in Descriptors \ {d} : first[x] = now[x]
      BY <1>1
    <3> HIDE DEF first, put, st, item, now, n
    <3>4. put = [first EXCEPT ![n] = [first[n] EXCEPT !.state = st]]
      BY <3>2
    <3>5. first[n] = now[n]
      BY <1>1, <2>1, <3>3
    <3>6. put = [first EXCEPT ![n] = y]
      BY <3>4, <3>5
    <3> HIDE DEF y
    <3> QED BY <1>1, <2>1, <3>3, <3>6
  <2>4. y \in DescriptorState /\ y.lifespan = now[n].lifespan /\ y.state = st
        /\ (y = now[n] \/ y.state = "archived")
    <3>1. y.lifespan = now[n].lifespan /\ y.state = st /\ DOMAIN y = {"state", "lifespan"}
      BY <2>2 DEF DescriptorState
    <3>2. st \in ItemState \cup {"absent", "archived"}
      BY <2>2 DEF DescriptorState
    <3>3. y \in DescriptorState
      <4> DEFINE z == now[n]
      <4>1. z \in DescriptorState
        BY <2>2
      <4> HIDE DEF st, z
      <4> QED BY <3>2, <4>1 DEF DescriptorState, z
    <3>4. ASSUME st = now[n].state
          PROVE  y = now[n]
      <4> DEFINE z == now[n]
      <4>1. z \in DescriptorState /\ y = [z EXCEPT !.state = z.state]
        BY <2>2, <3>4
      <4> HIDE DEF z, y
      <4> QED BY <4>1 DEF DescriptorState, z
    <3> QED BY <3>1, <3>3, <3>4
  <2>5. /\ now[d].state = "absent" /\ now[n].state # "absent"
        /\ \A x \in Descriptors : now[x].state # "absent" <=> x <= n
    BY <1>1, <2>1, <1>5 DEF OffersUpTo
  <2>6. st # "absent"
    BY <2>5
  <2> HIDE DEF now, st
  <2> HIDE DEF y, item
  <2>7. /\ desc \in [Descriptors -> DescriptorState] /\ desc[d] = item /\ desc[n] = y
        /\ \A x \in Descriptors \ {d, n} : desc[x] = now[x]
    BY <1>1, <1>3, <2>1, <2>2, <2>4
  <2> HIDE DEF desc
  <2>8. ev \in CatalogEvent /\ ev.type = "Published" /\ ev.of = d /\ ev.descriptors = desc
    BY <1>5, <2>7 DEF CatalogEvent
  <2> HIDE DEF ev
  <2>9. OffersUpTo(desc, d)
    <3> SUFFICES ASSUME NEW x \in Descriptors PROVE desc[x].state # "absent" <=> x <= d
      BY DEF OffersUpTo
    <3>1. CASE x = d
      BY <1>1, <2>2, <2>7, <3>1
    <3>2. CASE x = n
      BY <1>1, <1>5, <2>4, <2>6, <2>7, <3>2
    <3>3. CASE x \notin {d, n}
      <4>1. x \in Nat
        BY DEF Descriptors
      <4>2. x <= d <=> x <= n
        BY <1>1, <1>5, <3>3, <4>1
      <4> QED BY <2>5, <2>7, <3>3, <4>2
    <3> QED BY <3>1, <3>2, <3>3
  <2>11. Makes("Published", now[d], desc[d])
    BY <2>2, <2>5, <2>7 DEF Makes
  <2>12. ASSUME NEW x \in Descriptors
         PROVE  /\ Leads(now[x], desc[x])
                /\ x # d => desc[x] = now[x] \/ desc[x].state = "archived"
    <3>1. CASE x = d
      BY <2>5, <2>7, <3>1 DEF Leads
    <3>2. CASE x # d
      BY <2>4, <2>7, <3>2 DEF Leads
    <3> QED BY <3>1, <3>2
  <2>13. Continues(now, ev)
    BY <1>1, <2>8, <2>9, <2>11, <2>12 DEF Continues
  <2>14. ASSUME NEW x \in Descriptors, used(x), now[x].state \in ItemState
         PROVE  ev.descriptors[x].state \in ItemState
    <3>1. CASE x = n
      BY <2>4, <2>7, <2>8, <2>14, <3>1 DEF st
    <3>2. CASE x # n
      BY <2>2, <2>7, <2>8, <2>14, <3>2 DEF ItemState
    <3> QED BY <3>1, <3>2
  <2>15. Store(EService, ev)
    BY <1>5, <2>3 DEF ev
  <2> QED BY <2>13, <2>14, <2>15 DEF now
<1>6. CASE d \in Published /\ now[d].state # "archived"
  <2> DEFINE x == now[d]
  <2>1. x \in DescriptorState /\ x.state \in ItemState
    <3>1. x \in DescriptorState /\ x.state # "absent"
      BY <1>3, <1>6 DEF Published
    <3> QED BY <1>6, <3>1 DEF DescriptorState
  <2>2. ASSUME NEW st \in ItemState \cup {"archived"},
               Store(EService, [type |-> type, of |-> d,
                                descriptors |-> [now EXCEPT ![d].state = st]]),
               Makes(type, x, [x EXCEPT !.state = st]), used(d) => st \in ItemState
        PROVE  \E ev : /\ Store(EService, ev) /\ Continues(now, ev)
                       /\ \A z \in Descriptors :
                            used(z) /\ now[z].state \in ItemState
                            => ev.descriptors[z].state \in ItemState
    <3> DEFINE y == [x EXCEPT !.state = st]
    <3>1. y.state = st /\ y.lifespan = x.lifespan /\ y \in DescriptorState
      <4> HIDE DEF x
      <4> QED BY <2>1 DEF DescriptorState, ItemState
    <3>2. [now EXCEPT ![d].state = st] = [now EXCEPT ![d] = y]
      BY <1>1
    <3>4. y.state # "absent"
      BY <3>1 DEF ItemState
    <3> HIDE DEF y
    <3> QED BY <1>4, <2>1, <2>2, <3>1, <3>2, <3>4 DEF y
  <2>3. CASE type = "Suspended" /\ x.state = "active"
    <3>1. Store(EService, [type |-> type, of |-> d,
                           descriptors |-> [now EXCEPT ![d].state = "inactive"]])
      BY <1>6, <2>3 DEF StoreDescriptor
    <3>2. Makes(type, x, [x EXCEPT !.state = "inactive"])
      <4> HIDE DEF x
      <4> QED BY <2>1, <2>3 DEF Makes, DescriptorState, ItemState
    <3> QED BY <2>2, <3>1, <3>2 DEF ItemState
  <2>4. CASE type = "Activated" /\ x.state = "inactive"
    <3>1. Store(EService, [type |-> type, of |-> d,
                           descriptors |-> [now EXCEPT ![d].state = "active"]])
      BY <1>6, <2>4 DEF StoreDescriptor
    <3>2. Makes(type, x, [x EXCEPT !.state = "active"])
      <4> HIDE DEF x
      <4> QED BY <2>1, <2>4 DEF Makes, DescriptorState, ItemState
    <3> QED BY <2>2, <3>1, <3>2 DEF ItemState
  <2>5. CASE /\ type = "Archived" /\ ~used(d)
             /\ Store(EService, [type |-> type, of |-> d,
                                 descriptors |-> [now EXCEPT ![d].state = "archived"]])
    <3>1. Makes(type, x, [x EXCEPT !.state = "archived"])
      <4> HIDE DEF x
      <4> QED BY <2>1, <2>5 DEF Makes, DescriptorState, ItemState
    <3> QED BY <2>2, <2>5, <3>1
  <2>6. CASE /\ type = "QuotasUpdated"
             /\ Store(EService, [type |-> type, of |-> d,
                                 descriptors |-> [now EXCEPT ![d].lifespan = 3 - @]])
    <3> DEFINE y == [x EXCEPT !.lifespan = 3 - @]
    <3>1. /\ y.state = x.state /\ y.lifespan # x.lifespan /\ y \in DescriptorState
      <4> HIDE DEF x
      <4> QED BY <2>1 DEF DescriptorState
    <3>2. [now EXCEPT ![d].lifespan = 3 - @] = [now EXCEPT ![d] = y]
      BY <1>1
    <3>3. Makes(type, x, y) /\ y.state # "absent"
      <4> HIDE DEF y, x
      <4> QED BY <2>1, <2>6, <3>1 DEF Makes, ItemState
    <3> HIDE DEF y
    <3> QED BY <1>4, <2>1, <2>6, <3>1, <3>2, <3>3
  <2>7. \/ type = "Suspended" /\ x.state = "active"
        \/ type = "Activated" /\ x.state = "inactive"
        \/ /\ type = "Archived" /\ ~used(d)
           /\ Store(EService, [type |-> type, of |-> d,
                               descriptors |-> [now EXCEPT ![d].state = "archived"]])
        \/ /\ type = "QuotasUpdated"
           /\ Store(EService, [type |-> type, of |-> d,
                               descriptors |-> [now EXCEPT ![d].lifespan = 3 - @]])
    <3>1. ~(d = Newest + 1)
      BY <1>1, <1>6 DEF OffersUpTo, Published
    <3> QED BY <1>6, <3>1 DEF StoreDescriptor
  <2> QED BY <2>3, <2>4, <2>5, <2>6, <2>7
<1>7. \/ /\ type = "Published" /\ d = n + 1
         /\ Store(EService, [type |-> type, of |-> d, descriptors |->
              [now EXCEPT ![d] = [state |-> "active", lifespan |-> 1],
                          ![d - 1].state = IF @ = "active" /\ ~used(d - 1)
                                           THEN "archived" ELSE @]])
      \/ d \in Published /\ now[d].state # "archived"
  BY DEF StoreDescriptor
<1> QED BY <1>5, <1>6, <1>7

\* An event that is stored is still to be handled.
LEMMA EventKeepsOffer ==
  ASSUME OfferInv, NEW ev, Store(EService, ev), Continues(DescriptorTruth, ev)
  PROVE  /\ OfferInv'
         /\ \A d \in Descriptors : Closed(d) => Closed(d)'
<1> DEFINE l == log[EService]
           n == Len(l)
           m == log'[EService]
           p == pos[EService]
<1>1. /\ UNCHANGED <<pos, catalogEntry, hand>> /\ DOMAIN log = Streams /\ DOMAIN log' = Streams
      /\ m = Append(l, ev) /\ Shapes' /\ Catalogue(l) /\ p \in 0..n
  BY StreamsAreDistinct DEF OfferInv, Store, platform, Shapes
<1>2. /\ n \in Nat \ {0} /\ n \in DOMAIN l /\ DOMAIN l = 1..n /\ l \in Seq(CatalogEvent)
      /\ DescriptorTruth = l[n].descriptors
  BY <1>1, OfferedNow DEF Catalogue
<1>3. ev \in CatalogEvent
  BY DEF Continues
<1>4. /\ DOMAIN m = 1..(n + 1) /\ Len(m) = n + 1 /\ m[n + 1] = ev
      /\ \A j \in DOMAIN l : m[j] = l[j] /\ j \in DOMAIN m
  BY <1>1, <1>2, <1>3
<1>5. Catalogue(m)
  BY <1>1, <1>2, CatalogueGrows
<1>6. DescriptorTruth' = ev.descriptors
  BY <1>4 DEF DescriptorTruth, Last
<1>7. ASSUME NEW d \in Descriptors, Closed(d)
      PROVE  Closed(d)'
  BY <1>6, <1>7 DEF Closed, Continues, Leads
<1>8. p < n => Message(EService)' = Message(EService)
  <2>1. p < n => p + 1 \in DOMAIN l
    BY <1>1, <1>2
  <2> QED BY <1>1, <1>4, <2>1 DEF Message, Version
<1>9. Version(EService)' = Version(EService) /\ (p < n => Previous' = Previous)
  BY <1>1, <1>8 DEF Version, Previous
<1>10. CatalogAtWork'
  <2>1. CASE hand[EService].at = "idle"
    BY <1>1, <2>1 DEF CatalogAtWork
  <2>2. CASE hand[EService].at # "idle"
    <3>1. p < n /\ CatalogAtWork /\ Message(EService).of \in Descriptors
      BY <1>1, <2>2, OfferFacts DEF OfferInv, CatalogAtWork
    <3>2. p < Len(m)
      BY <1>1, <1>2, <1>4
    <3>3. ~Closed(Message(EService).of)' => ~Closed(Message(EService).of)
      BY <1>7, <1>8, <3>1 DEF Closed
    <3> QED BY <1>1, <1>8, <1>9, <3>1, <3>2, <3>3 DEF CatalogAtWork, Archives
  <2> QED BY <2>1, <2>2
<1>11. ASSUME NEW d \in Descriptors, ~Closed(d)'
       PROVE  ItemShown(d)'
  <2> DEFINE c == catalogEntry[d]
  <2>1. ItemShown(d) /\ c' = c
    BY <1>1, <1>7, <1>11 DEF OfferInv
  <2>2. ASSUME Here(c)
        PROVE  /\ c.version \in DOMAIN m /\ DescriptorData(c) = m[c.version].descriptors[d]
               /\ \A j \in DOMAIN m : c.version < j /\ j <= p => m[j].of # d
    <3>1. /\ c.version \in DOMAIN l /\ DescriptorData(c) = l[c.version].descriptors[d]
          /\ \A j \in DOMAIN l : c.version < j /\ j <= p => l[j].of # d
      BY <2>1, <2>2 DEF ItemShown
    <3>2. \A j \in DOMAIN m : j <= p => j \in DOMAIN l
      BY <1>1, <1>2, <1>4
    <3> QED BY <1>4, <3>1, <3>2
  <2>3. ASSUME ~Here(c), DescriptorTruth'[d].state # "absent"
        PROVE  \E j \in DOMAIN m : j > p /\ m[j].of = d /\ m[j].type = "Published"
    <3>1. CASE DescriptorTruth[d].state # "absent"
      <4>1. PICK j \in DOMAIN l : j > p /\ l[j].of = d /\ l[j].type = "Published"
        BY <2>1, <2>3, <3>1 DEF ItemShown
      <4> QED BY <1>4, <4>1
    <3>2. CASE DescriptorTruth[d].state = "absent"
      <4>1. d = ev.of
        BY <1>6, <1>11, <2>3, <3>2 DEF Continues, Closed
      <4>2. ev.type = "Published"
        BY <3>2, <4>1 DEF Continues, Makes, ItemState
      <4>3. n + 1 \in DOMAIN m /\ n + 1 > p
        BY <1>1, <1>2, <1>4
      <4> QED BY <1>4, <4>1, <4>2, <4>3
    <3> QED BY <3>1, <3>2
  <2> QED BY <1>1, <2>1, <2>2, <2>3 DEF ItemShown
<1>12. \A d \in Descriptors : Closed(d)' \/ ItemShown(d)'
  BY <1>11
<1>13. p \in 0..Len(m) /\ DOMAIN catalogEntry' = Descriptors
       /\ \A d \in Descriptors : DOMAIN catalogEntry'[d] = ItemFields
  BY <1>1, <1>2, <1>4 DEF OfferInv
<1> QED BY <1>1, <1>5, <1>7, <1>10, <1>12, <1>13 DEF OfferInv

LEMMA OfferInit == Init => OfferInv
<1> SUFFICES ASSUME Init PROVE OfferInv
  OBVIOUS
<1> DEFINE ev == [type |-> "Published", of |-> 2, descriptors |-> Offered]
<1>1. EService \in Streams /\ EService # Client /\ EService # Purpose /\ EService # 1
  BY StreamsAreDistinct DEF EService
<1>2. DOMAIN log = Streams /\ log[EService] = <<ev>>
  BY <1>1 DEF Init
<1>3. /\ pos[EService] = 1 /\ hand = [s \in Streams |-> Idle] /\ DOMAIN pos = Streams
      /\ catalogEntry = [d \in Descriptors |->
           IF d <= 2 THEN [state |-> "active", version |-> 1, lifespan |-> 1] ELSE NoDescriptor]
  BY <1>1 DEF Init
<1>4. 2 \in Descriptors /\ Descriptors \subseteq Nat
  BY DEF Descriptors
<1>5. Offered \in [Descriptors -> DescriptorState]
  BY DEF Offered, DescriptorState, ItemState
<1>6. ev \in CatalogEvent /\ ev.type = "Published" /\ ev.of = 2 /\ ev.descriptors = Offered
  BY <1>4, <1>5 DEF CatalogEvent, CatalogTypes
<1>7. OffersUpTo(Offered, 2) /\ Offered[2].state = "active"
      /\ \A d \in Descriptors : Offered[d].state # "archived"
  BY <1>4 DEF OffersUpTo, Offered
<1> HIDE DEF ev
<1>8. /\ <<ev>> \in Seq(CatalogEvent) /\ DOMAIN <<ev>> = {1} /\ <<ev>>[1] = ev /\ <<ev>> # <<>>
      /\ Len(<<ev>>) = 1
  BY <1>6
<1>9. Catalogue(<<ev>>)
  <2>1. \A i, j \in {1} : j # i + 1
    OBVIOUS
  <2>2. \A d \in Descriptors : Leads(Offered[d], Offered[d])
    BY DEF Leads
  <2> QED BY <1>4, <1>6, <1>7, <1>8, <2>1, <2>2 DEF Catalogue
<1>10. Shapes
  BY <1>3, IdleShape DEF Shapes
<1>11. CatalogAtWork
  <2>1. hand[EService].at = "idle"
    BY <1>1, <1>3, IdleShape
  <2> QED BY <2>1 DEF CatalogAtWork
<1>12. DescriptorTruth = Offered
  BY <1>2, <1>6, <1>8 DEF DescriptorTruth, Last
<1>13. ASSUME NEW d \in Descriptors
       PROVE  /\ DOMAIN catalogEntry[d] = ItemFields /\ ItemShown(d)
  <2> DEFINE item == [state |-> "active", version |-> 1, lifespan |-> 1]
  <2>1. CASE d <= 2
    <3>1. catalogEntry[d] = item /\ Offered[d] = [state |-> "active", lifespan |-> 1]
      BY <1>3, <2>1 DEF Offered
    <3>2. DOMAIN item = ItemFields /\ item.version = 1 /\ DescriptorData(item) = Offered[d]
          /\ Here(item)
      BY <3>1 DEF ItemFields, DescriptorData, Here
    <3> HIDE DEF item
    <3>3. \A j \in {1} : ~(1 < j)
      OBVIOUS
    <3> QED BY <1>2, <1>6, <1>8, <3>1, <3>2, <3>3 DEF ItemShown
  <2>2. CASE ~(d <= 2)
    <3>1. catalogEntry[d] = NoDescriptor /\ DescriptorTruth[d].state = "absent"
      BY <1>3, <1>12, <2>2 DEF Offered
    <3>2. DOMAIN NoDescriptor = ItemFields /\ ~Here(NoDescriptor)
      BY DEF NoDescriptor, ItemFields, Here
    <3> QED BY <3>1, <3>2 DEF ItemShown
  <2> QED BY <2>1, <2>2
<1>14. DOMAIN catalogEntry = Descriptors /\ pos[EService] \in 0..Len(log[EService])
  BY <1>2, <1>3, <1>8
<1> QED BY <1>2, <1>9, <1>10, <1>11, <1>13, <1>14 DEF OfferInv

\* An event of a stream that is not the e-service's.
LEMMA OtherEventKeepsOffer ==
  ASSUME OfferInv, NEW s, s # EService, NEW ev, Store(s, ev)
  PROVE  /\ OfferInv' /\ log'[EService] = log[EService]
         /\ \A d \in Descriptors : Closed(d) => Closed(d)'
<1>1. /\ UNCHANGED <<pos, catalogEntry, hand>> /\ log' = [log EXCEPT ![s] = Append(@, ev)]
      /\ DOMAIN log = Streams /\ EService \in Streams /\ Shapes
  BY StreamsAreDistinct DEF OfferInv, Store, platform
<1>2. DOMAIN log' = Streams /\ log'[EService] = log[EService] /\ Shapes'
  BY <1>1 DEF Shapes
<1>3. DescriptorTruth' = DescriptorTruth
  BY <1>2 DEF DescriptorTruth
<1> QED BY <1>1, <1>2, <1>3, OthersKeepOffer DEF Closed

LEMMA DomainKeepsOffer ==
  ASSUME OfferInv, PairInv, Domain
  PROVE  /\ OfferInv'
         /\ \A d \in Descriptors : Closed(d) => Closed(d)'
         /\ log'[EService] = log[EService] \/ \E ev : log'[EService] = Append(log[EService], ev)
<1>1. CASE \E type \in CatalogTypes, d \in Descriptors : StoreDescriptor(type, d)
  <2>1. PICK ev : Store(EService, ev) /\ Continues(DescriptorTruth, ev)
    BY <1>1, DescriptorStored DEF OfferInv
  <2>2. log'[EService] = Append(log[EService], ev)
    BY <2>1, StreamsAreDistinct DEF OfferInv, Store
  <2> QED BY <2>1, <2>2, EventKeepsOffer
<1>2. CASE \E s, ev : s # EService /\ Store(s, ev)
  BY <1>2, OtherEventKeepsOffer
<1>3. CASE \E type \in {"Activated", "Changed", "Archived"}, state \in ItemState \cup {"archived"} :
             StorePurpose(type, state)
  BY <1>2, <1>3, StreamsAreDistinct DEF StorePurpose
<1>4. CASE \E type \in {"Activated", "Changed", "Archived"}, state \in ItemState \cup {"archived"} :
             StoreAgreement(type, state)
  <2>1. PICK type \in {"Activated", "Changed", "Archived"}, state \in ItemState \cup {"archived"} :
          StoreAgreement(type, state)
    BY <1>4
  <2>2. LatestAgreement \in Nat
    <3>1. PICK n \in Agreements : Begun(n)
      BY DEF PairInv, Courses
    <3> QED BY <3>1, LatestIs DEF PairInv, Agreements
  <2>3. \E ev : Store(LatestAgreement, ev) \/ Store(LatestAgreement + 1, ev)
    BY <2>1 DEF StoreAgreement
  <2>4. LatestAgreement # EService /\ LatestAgreement + 1 # EService
    BY <2>2 DEF EService
  <2> QED BY <1>2, <2>3, <2>4
<1>5. CASE \E type \in ClientTypes, k \in Keys : StoreClient(type, k)
  <2>1. \E ev : Store(Client, ev)
    BY <1>5 DEF StoreClient
  <2> QED BY <1>2, <2>1, StreamsAreDistinct
<1>6. CASE \E type \in {"PurposeAdded", "PurposeRemoved", "Deleted"} :
             StoreClient(type, CHOOSE k \in Keys : TRUE)
  <2>1. \E ev : Store(Client, ev)
    BY <1>6 DEF StoreClient
  <2> QED BY <1>2, <2>1, StreamsAreDistinct
<1> QED BY <1>1, <1>3, <1>4, <1>5, <1>6 DEF Domain, CatalogTypes, ClientTypes

LEMMA OfferStep ==
  ASSUME OfferInv, PairInv, [Next]_vars
  PROVE  /\ OfferInv'
         /\ \A d \in Descriptors : Closed(d) => Closed(d)'
<1>1. Shapes
  BY DEF OfferInv
<1>2. ASSUME log' = log
      PROVE  \A d \in Descriptors : Closed(d) => Closed(d)'
  BY <1>2 DEF Closed, DescriptorTruth
<1>3. ASSUME NEW s \in Streams, s # EService, Frame(s), catalogEntry' = catalogEntry
      PROVE  OfferInv' /\ log' = log
  BY <1>3, OthersKeepOffer, StreamsAreDistinct DEF Frame, OfferInv
<1>4. CASE Domain
  BY <1>4, DomainKeepsOffer
<1>5. CASE PurposeWriter
  BY <1>1, <1>2, <1>3, <1>5, PurposeFrame, StreamsAreDistinct
<1>6. CASE ClientWriter
  BY <1>1, <1>2, <1>3, <1>6, ClientFrame, StreamsAreDistinct
<1>7. CASE CatalogWriter
  BY <1>1, <1>2, <1>7, CatalogFrame, CatalogKeepsOffer DEF Frame
<1>8. ASSUME NEW a \in Agreements, AgreementWriter(a)
      PROVE  OfferInv' /\ \A d \in Descriptors : Closed(d) => Closed(d)'
  BY <1>1, <1>2, <1>3, <1>8, AgreementFrame, StreamsAreDistinct
<1>9. ASSUME NEW s \in Streams, Crash(s) \/ Redeliver(s)
      PROVE  OfferInv' /\ \A d \in Descriptors : Closed(d) => Closed(d)'
  BY <1>2, <1>9, FaultsKeepOffer DEF Crash, Redeliver
<1>10. CASE UNCHANGED vars
  BY <1>1, <1>2, <1>10, OthersKeepOffer DEF vars, platform, OfferInv, Shapes
<1> QED BY <1>4, <1>5, <1>6, <1>7, <1>8, <1>9, <1>10 DEF Next, Consumers

\* An agreement in force keeps its descriptor from being archived.
LEMMA InUseStays ==
  ASSUME InUse, log'[EService] = log[EService], \A a \in Agreements : log'[a] = log[a]
  PROVE  InUse'
BY DEF InUse, Begun, DescriptorTruth

LEMMA InUseStored ==
  ASSUME InUse, Courses, Catalogue(log[EService]), NEW type \in CatalogTypes,
         NEW d \in Descriptors, StoreDescriptor(type, d)
  PROVE  InUse'
<1>1. PICK ev : /\ Store(EService, ev)
                /\ \A x \in Descriptors : InForce /\ AgreementTruth.descriptor = x
                                          /\ DescriptorTruth[x].state \in ItemState
                                          => ev.descriptors[x].state \in ItemState
  BY DescriptorStored
<1>2. /\ log'[EService] = Append(log[EService], ev) /\ log[EService] \in Seq(CatalogEvent)
      /\ \A a \in Agreements : log'[a] = log[a]
  BY <1>1, StreamsAreDistinct DEF Store, Courses, Catalogue
<1>3. DescriptorTruth' = ev.descriptors
  BY <1>2 DEF DescriptorTruth, Last
<1>4. ASSUME NEW n \in Agreements, log[n] # <<>>, Begun(n), log[n][Len(log[n])].type # "Archived"
      PROVE  DescriptorTruth'[log[n][1].descriptor].state \in ItemState
  <2>1. InForce /\ AgreementTruth.descriptor = log[n][1].descriptor
    BY <1>4, LatestIs
  <2>2. log[n][1].descriptor \in Descriptors
        /\ DescriptorTruth[log[n][1].descriptor].state \in ItemState
    BY <1>4 DEF InUse
  <2> QED BY <1>1, <1>3, <2>1, <2>2
<1>5. \A n \in Agreements : Begun(n)' <=> Begun(n)
  BY <1>2 DEF Begun
<1> QED BY <1>2, <1>4, <1>5 DEF InUse

LEMMA InUseAgreed ==
  ASSUME InUse, Courses, Catalogue(log[EService]), NEW type, NEW state,
         StoreAgreement(type, state)
  PROVE  InUse'
<1>1. PICK n \in Agreements : Begun(n)
  BY DEF Courses
<1>2. /\ n \in Nat \ {0} /\ n <= MaxAgreement /\ LatestAgreement = n
      /\ Len(log[n]) \in DOMAIN log[n] /\ log[n] \in Seq(AgreementEvent) /\ log[n] # <<>>
      /\ InForce => log[n][Len(log[n])].type # "Archived"
      /\ DOMAIN log = Streams /\ Agreements \subseteq Streams /\ EService \notin Agreements
      /\ EService \in Streams /\ \A a \in Agreements : a \in Nat
  <2>1. n \in Nat \ {0} /\ n <= MaxAgreement
    BY DEF Agreements
  <2>2. /\ LatestAgreement = n /\ Len(log[n]) \in DOMAIN log[n]
        /\ InForce => log[n][Len(log[n])].type # "Archived"
    BY <1>1, LatestIs
  <2>3. log[n] \in Seq(AgreementEvent) /\ log[n] # <<>>
    BY <2>2, CourseFacts
  <2> QED BY <2>1, <2>2, <2>3, StreamsAreDistinct DEF Courses
<1>3. ASSUME n < MaxAgreement, type = "Activated", DescriptorTruth[Newest].state = "active",
             Store(n + 1, [type |-> type, state |-> state, descriptor |-> Newest])
      PROVE  InUse'
  <2> DEFINE ev == [type |-> type, state |-> state, descriptor |-> Newest]
             b == n + 1
  <2>1. b \in Agreements /\ log[b] = <<>>
    BY <1>1, <1>2, <1>3 DEF Agreements, Begun
  <2>2. /\ log'[b] = <<ev>> /\ log'[EService] = log[EService]
        /\ \A a \in Agreements \ {b} : log'[a] = log[a]
    <3>1. log' = [log EXCEPT ![b] = Append(@, ev)]
      BY <1>3 DEF Store
    <3> HIDE DEF ev
    <3>2. Append(<<>>, ev) = <<ev>>
      OBVIOUS
    <3> QED BY <1>2, <2>1, <3>1, <3>2
  <2>3. DescriptorTruth' = DescriptorTruth
    BY <2>2 DEF DescriptorTruth
  <2>4. Newest \in Descriptors /\ DescriptorTruth[Newest].state \in ItemState
    BY <1>3, OfferedNow DEF ItemState
  <2>5. log'[b][1].descriptor = Newest /\ log'[b] # <<>>
    BY <2>2
  <2>6. ASSUME NEW a \in Agreements, a # b, log'[a] # <<>>
        PROVE  log[a] # <<>> /\ log'[a] = log[a] /\ ~Begun(a)'
    <3>1. log'[a] = log[a]
      BY <2>2, <2>6
    <3>2. a <= n
      BY <1>1, <2>6, <3>1 DEF Begun
    <3>3. ~(b <= a)
      <4>1. a \in Nat /\ n \in Nat
        BY <1>2
      <4> HIDE DEF Agreements
      <4> QED BY <3>2, <4>1
    <3> QED BY <2>1, <2>5, <2>6, <3>1, <3>3 DEF Begun
  <2> QED BY <2>1, <2>3, <2>4, <2>5, <2>6 DEF InUse
<1>4. ASSUME InForce, NEW ev, Store(n, ev)
      PROVE  InUse'
  <2>1. /\ log'[n] = Append(log[n], ev) /\ log'[EService] = log[EService]
        /\ \A a \in Agreements \ {n} : log'[a] = log[a]
    BY <1>2, <1>4 DEF Store
  <2>2. log'[n] # <<>> /\ log'[n][1] = log[n][1]
    BY <1>2, <2>1
  <2>3. \A a \in Agreements : (log'[a] # <<>> <=> log[a] # <<>>)
                              /\ (log[a] # <<>> => log'[a][1] = log[a][1])
    BY <1>2, <2>1, <2>2
  <2>4. DescriptorTruth' = DescriptorTruth
    BY <2>1 DEF DescriptorTruth
  <2>5. \A a \in Agreements : Begun(a)' <=> Begun(a)
    BY <2>3 DEF Begun
  <2>6. DescriptorTruth[log[n][1].descriptor].state \in ItemState
    BY <1>1, <1>2, <1>4 DEF InUse
  <2>7. ASSUME NEW a \in Agreements, log'[a] # <<>>
        PROVE  /\ log'[a][1].descriptor \in Descriptors
               /\ Begun(a)' /\ log'[a][Len(log'[a])].type # "Archived"
                    => DescriptorTruth'[log'[a][1].descriptor].state \in ItemState
    <3>1. CASE a = n
      BY <1>2, <2>2, <2>4, <2>6, <3>1 DEF InUse
    <3>2. CASE a # n
      BY <2>1, <2>4, <2>5, <2>7, <3>2 DEF InUse
    <3> QED BY <3>1, <3>2
  <2> QED BY <2>7 DEF InUse
<1> QED BY <1>2, <1>3, <1>4 DEF StoreAgreement

LEMMA InUseStep ==
  ASSUME InUse, OfferInv, PairInv, [Next]_vars
  PROVE  InUse'
<1>1. Courses /\ Catalogue(log[EService]) /\ Shapes /\ DOMAIN log = Streams
  BY DEF OfferInv, PairInv
<1>2. ASSUME log' = log
      PROVE  InUse'
  BY <1>2, InUseStays
<1>3. ASSUME NEW s \in {Purpose, Client}, NEW ev, Store(s, ev)
      PROVE  InUse'
  BY <1>1, <1>3, InUseStays, StreamsAreDistinct DEF Store
<1>4. CASE \E type \in CatalogTypes, d \in Descriptors : StoreDescriptor(type, d)
  BY <1>1, <1>4, InUseStored
<1>5. CASE \E type \in {"Activated", "Changed", "Archived"}, state \in ItemState \cup {"archived"} :
             StorePurpose(type, state)
  BY <1>3, <1>5 DEF StorePurpose
<1>6. CASE \E type \in {"Activated", "Changed", "Archived"}, state \in ItemState \cup {"archived"} :
             StoreAgreement(type, state)
  BY <1>1, <1>6, InUseAgreed
<1>7. CASE \E type \in ClientTypes, k \in Keys : StoreClient(type, k)
  <2>1. \E ev : Store(Client, ev)
    BY <1>7 DEF StoreClient
  <2> QED BY <1>3, <2>1
<1>8. CASE \E type \in {"PurposeAdded", "PurposeRemoved", "Deleted"} :
             StoreClient(type, CHOOSE k \in Keys : TRUE)
  <2>1. \E ev : Store(Client, ev)
    BY <1>8 DEF StoreClient
  <2> QED BY <1>3, <2>1
<1>9. CASE Domain
  BY <1>4, <1>5, <1>6, <1>7, <1>8, <1>9 DEF Domain, CatalogTypes, ClientTypes
<1>10. CASE Consumers \/ UNCHANGED vars \/ \E s \in Streams : Crash(s) \/ Redeliver(s)
  BY <1>1, <1>2, <1>10, PurposeFrame, CatalogFrame, ClientFrame, AgreementFrame
     DEF Consumers, Frame, Crash, Redeliver, vars
<1> QED BY <1>9, <1>10 DEF Next

LEMMA InUseInit == Init => InUse
<1> SUFFICES ASSUME Init PROVE InUse
  OBVIOUS
<1>1. OfferInv /\ PairInv
  BY OfferInit, PairInit
<1> DEFINE ev == [type |-> "Activated", state |-> "active", descriptor |-> 1]
<1>2. log[1] = <<ev>> /\ \A a \in Agreements \ {1} : log[a] = <<>>
  BY StreamsAreDistinct DEF Init
<1>3. log[1][1].descriptor = 1 /\ 1 \in Descriptors
  BY <1>2 DEF Descriptors
<1>4. DescriptorTruth = Offered
  <2> DEFINE e == [type |-> "Published", of |-> 2, descriptors |-> Offered]
  <2>1. EService \in Streams /\ EService # Client /\ EService # Purpose /\ EService # 1
    BY StreamsAreDistinct DEF EService
  <2>2. log[EService] = <<e>> /\ e.descriptors = Offered
    BY <2>1 DEF Init
  <2> HIDE DEF e
  <2> QED BY <2>2 DEF DescriptorTruth, Last
<1>5. Offered[1].state \in ItemState
  BY <1>3 DEF Offered, ItemState
<1> QED BY <1>2, <1>3, <1>4, <1>5 DEF InUse

\* The pair's entry names a descriptor that was published.
LEMMA PairDescriptor ==
  ASSUME PairInv, InUse
  PROVE  agreementEntry.descriptor \in Descriptors
<1> DEFINE g == agreementEntry
           l == log[g.id]
<1>1. g.id \in Agreements /\ g.version \in DOMAIN l /\ g.descriptor = l[1].descriptor
  BY DEF PairInv, PairShown
<1>2. l # <<>>
  <2> HIDE DEF l
  <2> QED BY <1>1
<1> QED BY <1>1, <1>2 DEF InUse

\* An entry that does not show the pair's descriptor will be written, or is read for again.
LEMMA ElsewhereOwed ==
  ASSUME NEW k \in Keys, AgreementOwed(k)', tokenEntry'[k].here, tokenEntry'[k].linked,
         tokenEntry'[k].descriptor # agreementEntry'.descriptor, NEW part
  PROVE  CopyOwed(k, part)'
<1> DEFINE d == agreementEntry'.descriptor
           h == hand'[Client]
<1>1. PartOwed(k, "descriptor")' /\ Held(tokenEntry'[k], "descriptor") = tokenEntry'[k].descriptor
  BY DEF AgreementOwed, AgreementParts, Held
<1>2. CASE Shown(k, "descriptor")'
  <2>1. ~Copied("descriptor")'
    BY <1>1, <1>2 DEF Shown
  <2>2. Unfilled(k, part)'
    BY <2>1 DEF Copied, Unfilled
  <2> QED BY <2>2 DEF CopyOwed
<1>3. CASE Pending(k)'
  BY <1>3 DEF CopyOwed
<1>4. CASE Again(k)' /\ Rereads' /\ tokenEntry'[k].descriptor = h.before.g.descriptor
  <2>1. h.before.g.descriptor # d
    BY <1>4
  <2>2. Moved'
    BY <1>4, <2>1 DEF Moved, Rereads
  <2> QED BY <1>4, <2>2 DEF CopyOwed
<1> QED BY <1>1, <1>2, <1>3, <1>4 DEF PartOwed

\* So only the entries that show it count.
LEMMA OwedWhereShown ==
  ASSUME NEW k \in Keys, AgreementOwed(k)',
         tokenEntry'[k].here /\ tokenEntry'[k].linked
           /\ tokenEntry'[k].descriptor = agreementEntry'.descriptor =>
           \A part \in DescriptorParts :
             (part = "lifespan" /\ "lifespan" \in lost') \/ CopyOwed(k, part)'
  PROVE  DescriptorOwed(k)'
BY ElsewhereOwed DEF DescriptorOwed

\* What a step leaves as it was is still owed.
LEMMA KeepsCopy ==
  ASSUME NEW k \in Keys, NEW part, NEW d,
         agreementEntry.descriptor = d, agreementEntry'.descriptor = d,
         Pending(k) => Pending(k)',
         Again(k) => Pending(k)' \/ (Again(k)' /\ hand'[Client] = hand[Client]),
         Kept(tokenEntry'[k], part) = Kept(tokenEntry[k], part),
         Here(catalogEntry'[d]) =>
           /\ Here(catalogEntry[d]) /\ catalogEntry'[d][part] = catalogEntry[d][part]
           /\ Told(d, part)' => Told(d, part),
         Unfilled(k, part) => Unfilled(k, part)',
         CopyOwed(k, part)
  PROVE  CopyOwed(k, part)'
<1> DEFINE c == catalogEntry[d]
           has == Kept(tokenEntry[k], part)
           e == Kept(tokenEntry'[k], part)
<1>1. CASE ~Here(c) \/ ~Told(d, part)
  BY <1>1 DEF CopyOwed
<1>2. CASE has = c[part]
  BY <1>2 DEF CopyOwed
<1>3. CASE Unfilled(k, part) \/ Pending(k)
  BY <1>3 DEF CopyOwed
<1>4. CASE Again(k) /\ Moved
  <2>1. hand'[Client] = hand[Client] => Moved'
    BY <1>4 DEF Moved
  <2> QED BY <1>4, <2>1 DEF CopyOwed
<1>5. CASE Again(k) /\ Rereading /\ has = hand[Client].before.c[part]
  <2>1. hand'[Client] = hand[Client] => Rereading' /\ e = hand'[Client].before.c[part]
    BY <1>5 DEF Rereading
  <2> QED BY <1>5, <2>1 DEF CopyOwed
<1> QED BY <1>1, <1>2, <1>3, <1>4, <1>5 DEF CopyOwed

\* A step that leaves the entry and the agreement's handler alone.
LEMMA OthersLeaveCopies ==
  ASSUME NEW k \in Keys, NEW d, agreementEntry.descriptor = d, agreementEntry' = agreementEntry,
         hand'[agreementEntry.id] = hand[agreementEntry.id],
         pos'[agreementEntry.id] = pos[agreementEntry.id],
         Pending(k) => Pending(k)',
         Again(k) => Pending(k)' \/ (Again(k)' /\ hand'[Client] = hand[Client]),
         tokenEntry'[k].here => tokenEntry[k].here, tokenEntry'[k].linked => tokenEntry[k].linked,
         lost \subseteq lost',
         \A part \in DescriptorParts :
           /\ Kept(tokenEntry'[k], part) = Kept(tokenEntry[k], part)
           /\ Here(catalogEntry'[d]) =>
                /\ Here(catalogEntry[d]) /\ catalogEntry'[d][part] = catalogEntry[d][part]
                /\ Told(d, part)' => Told(d, part),
         DescriptorOwed(k)
  PROVE  DescriptorOwed(k)'
<1> SUFFICES ASSUME tokenEntry'[k].here, tokenEntry'[k].linked, NEW part \in DescriptorParts,
                    ~(part = "lifespan" /\ "lifespan" \in lost')
             PROVE  CopyOwed(k, part)'
  BY DEF DescriptorOwed
<1>1. CopyOwed(k, part)
  BY DEF DescriptorOwed
<1>2. Unfilled(k, part) => Unfilled(k, part)'
  BY DEF Unfilled
<1> QED BY <1>1, <1>2, KeepsCopy

\* An event that is stored is still to be told.
LEMMA DomainLeavesCopies ==
  ASSUME LinkInv, OfferInv, InUse, Domain, ~Closed(agreementEntry.descriptor),
         NEW k \in Keys, DescriptorOwed(k)
  PROVE  DescriptorOwed(k)'
<1> DEFINE d == agreementEntry.descriptor
           c == catalogEntry[d]
           l == log[EService]
           m == log'[EService]
<1>1. PairInv /\ EntriesInv /\ DOMAIN log = Streams
  BY DEF LinkInv, PurposeInv, EntriesInv
<1>2. UNCHANGED <<pos, platform, tokenEntry, hand, lost>>
  BY DomainKeeps
<1>3. Grows(Client)
  <2>1. PICK s \in Streams : \E ev : Store(s, ev)
    BY <1>1, DomainStores
  <2>2. PICK ev : Store(s, ev)
    BY <2>1
  <2>3. log' = [log EXCEPT ![s] = Append(@, ev)]
    BY <2>2 DEF Store
  <2>4. log'[Client] = log[Client] \/ log'[Client] = Append(log[Client], ev)
    BY <1>1, <2>3, StreamsAreDistinct
  <2> QED BY <2>4 DEF Grows
<1>4. ClientSame
  BY <1>2, <1>3 DEF ClientSame, platform
<1>5. (Pending(k) => Pending(k)') /\ (Again(k) => Again(k)')
  BY <1>1, <1>4, ClientStays
<1>6. \A j \in DOMAIN l : m[j] = l[j]
  <2>1. l \in Seq(CatalogEvent) /\ (m = l \/ \E ev : m = Append(l, ev))
    BY <1>1, DomainKeepsOffer DEF OfferInv, Catalogue
  <2> HIDE DEF l, m
  <2> QED BY <2>1, GrownSequence
<1>7. d \in Descriptors
  BY <1>1, PairDescriptor
<1>8. ASSUME Here(c), NEW part, Told(d, part)'
      PROVE  Told(d, part)
  <2>1. c.version \in DOMAIN l
    BY <1>7, <1>8 DEF OfferInv, ItemShown
  <2>2. m[c.version] = l[c.version]
    BY <1>6, <2>1
  <2> QED BY <1>2, <1>8, <2>2 DEF Told, Version, platform
<1> QED BY <1>2, <1>5, <1>8, OthersLeaveCopies DEF platform

\* A message given again is told again, and fills again.
LEMMA FaultsLeaveCopies ==
  ASSUME LinkInv, OfferInv, InUse, NEW s \in Streams, Crash(s) \/ Redeliver(s),
         ~Closed(agreementEntry.descriptor), NEW k \in Keys, DescriptorOwed(k)
  PROVE  DescriptorOwed(k)'
<1> DEFINE g == agreementEntry
           d == g.descriptor
           c == catalogEntry[d]
<1>1. PairInv /\ EntriesInv /\ Shapes /\ d \in Descriptors /\ g.id \in Agreements
      /\ g.version \in Nat
  BY PairDescriptor, EntryFacts DEF LinkInv, PurposeInv, EntriesInv, PairInv
<1>2. UNCHANGED <<log, platform, tokenEntry, lost>>
  BY DEF Crash, Redeliver
<1>3. /\ \A t \in Streams \ {s} : hand'[t] = hand[t] /\ pos'[t] = pos[t]
      /\ \/ hand'[s] = Idle /\ pos'[s] = pos[s]
         \/ hand'[s] = hand[s] /\ hand[s].at = "idle" /\ pos'[s] \in 0..(pos[s] - 1)
  <2>1. CASE Crash(s)
    BY <1>1, <2>1, FailsStep DEF Crash
  <2>2. CASE Redeliver(s)
    BY <1>1, <2>2 DEF Redeliver, Shapes
  <2> QED BY <2>1, <2>2
<1>4. hand'[s].at = "idle"
  BY <1>3, IdleShape
<1>5. (Pending(k) => Pending(k)')
      /\ (Again(k) => Pending(k)' \/ (Again(k)' /\ hand'[Client] = hand[Client]))
  <2>1. CASE s = Client
    BY <1>1, <2>1, FaultsStayPending
  <2>2. CASE s # Client
    <3>1. ClientSame
      BY <1>2, <1>3, <2>2, StreamsAreDistinct DEF ClientSame, Grows, platform
    <3> QED BY <1>1, <3>1, ClientStays DEF ClientSame
  <2> QED BY <2>1, <2>2
<1>6. ASSUME Here(c), NEW part, Told(d, part)'
      PROVE  Told(d, part)
  <2>1. CASE s = EService
    <3>1. c.version \in Nat
      BY <1>1, <1>6, ItemFacts DEF OfferInv
    <3>2. pos[EService] \in Nat
      BY OfferFacts DEF OfferInv
    <3>3. pos'[EService] >= c.version => pos[EService] >= c.version
      <4> DEFINE v == c.version
                 p == pos[EService]
                 q == pos'[EService]
      <4>1. v \in Nat /\ p \in Nat /\ (q = p \/ q \in 0..(p - 1))
        BY <1>3, <2>1, <3>1, <3>2
      <4> HIDE DEF v, p, q
      <4>2. q >= v => p >= v
        BY <4>1
      <4> QED BY <4>2 DEF v, p, q
    <3> QED BY <1>2, <1>4, <1>6, <2>1, <3>3 DEF Told, platform
  <2>2. CASE s # EService
    BY <1>2, <1>3, <1>6, <2>2, StreamsAreDistinct DEF Told, Version, platform
  <2> QED BY <2>1, <2>2
<1>7. ASSUME NEW part, Unfilled(k, part)
      PROVE  Unfilled(k, part)'
  <2>1. CASE s = g.id
    <3>1. pos[s] \in Nat /\ ~(pos[s] >= 1) /\ ~(g.version >= 2)
      BY <1>1, <1>7, <2>1, CourseFacts DEF Unfilled, PairInv
    <3>2. ~(pos'[s] >= 1)
      BY <1>3, <3>1
    <3> QED BY <1>2, <1>4, <2>1, <3>1, <3>2 DEF Unfilled, platform
  <2>2. CASE s # g.id
    BY <1>1, <1>2, <1>3, <1>7, <2>2, StreamsAreDistinct DEF Unfilled, platform
  <2> QED BY <2>1, <2>2
<1>8. SUFFICES ASSUME tokenEntry'[k].here, tokenEntry'[k].linked, NEW part \in DescriptorParts,
                      ~(part = "lifespan" /\ "lifespan" \in lost')
               PROVE  CopyOwed(k, part)'
  BY DEF DescriptorOwed
<1>9. CopyOwed(k, part)
  BY <1>2, <1>8 DEF DescriptorOwed
<1>10. /\ Kept(tokenEntry'[k], part) = Kept(tokenEntry[k], part)
       /\ agreementEntry' = agreementEntry /\ catalogEntry' = catalogEntry
  BY <1>2 DEF platform
<1> QED BY <1>5, <1>6, <1>7, <1>9, <1>10, KeepsCopy

\* What is told at the end of a message is the message.
LEMMA ToldNow ==
  ASSUME OfferInv, NEW d \in Descriptors, ~Closed(d), Here(catalogEntry[d]),
         log' = log, catalogEntry'[d] = catalogEntry[d], pos[EService] < Len(log[EService]),
         Handled(EService) \/ Go(EService, "previous"),
         NEW part, Told(d, part)', ~Told(d, part)
  PROVE  /\ catalogEntry[d].version = Version(EService)
         /\ Message(EService).of = d /\ Writes(Message(EService), part)
<1> DEFINE l == log[EService]
           p == pos[EService]
           q == pos'[EService]
           v == Version(EService)
           w == catalogEntry[d].version
<1>1. Shapes /\ EService \in Streams /\ DOMAIN pos = Streams
  BY StreamsAreDistinct DEF OfferInv, Shapes
<1>2. p \in Nat /\ v = p + 1 /\ Message(EService) = l[v]
  BY OfferFacts DEF OfferInv
<1>3. w \in Nat
  BY ItemFacts DEF OfferInv
<1>4. l[w].of = d /\ Writes(l[w], part) /\ ~(p >= w)
  BY DEF Told
<1>5. q >= w \/ (pos' = pos /\ w = Version(EService)')
  <2>1. CASE Handled(EService)
    <3>1. hand'[EService] = Idle
      BY <1>1, <2>1, HandledStep
    <3> QED BY <1>4, <3>1, IdleShape DEF Told
  <2>2. CASE Go(EService, "previous")
    BY <1>4, <2>2 DEF Told, Go
  <2> QED BY <2>1, <2>2
<1>6. q = v \/ (q = p /\ Version(EService)' = v)
  <2>1. CASE Handled(EService)
    BY <1>1, <2>1 DEF Handled, Version
  <2>2. CASE Go(EService, "previous")
    BY <2>2 DEF Go, Version
  <2> QED BY <2>1, <2>2
<1>7. w = v
  <2>1. (q >= w \/ (q = p /\ w = v)) /\ (q = v \/ q = p)
    <3>1. CASE q >= w
      BY <1>6, <3>1
    <3>2. CASE pos' = pos /\ w = Version(EService)'
      BY <3>2 DEF Version
    <3> QED BY <1>5, <3>1, <3>2
  <2> HIDE DEF q, v, p, w
  <2> QED BY <1>2, <1>3, <1>4, <2>1
<1> QED BY <1>2, <1>4, <1>7

\* The e-service's events reach the copies of the descriptor, or leave them as they were.
LEMMA CatalogLeavesCopies ==
  ASSUME LinkInv, OfferInv, InUse, CatalogWriter, ~Closed(agreementEntry.descriptor),
         NEW k \in Keys, AgreementOwed(k)', DescriptorOwed(k)
  PROVE  DescriptorOwed(k)'
<1>0. PICK d : d = agreementEntry.descriptor
  OBVIOUS
<1> DEFINE g == agreementEntry
           c == catalogEntry[d]
           e == tokenEntry[k]
           ev == Message(EService)
           v == Version(EService)
           l == log[EService]
           of == ev.descriptors[ev.of]
<1>1. PairInv /\ EntriesInv /\ Shapes /\ TokenShapes /\ d \in Descriptors
      /\ g.id \in Agreements /\ ItemShown(d) /\ Catalogue(l) /\ ~Closed(d)
  BY <1>0, PairDescriptor, EntryFacts DEF LinkInv, PurposeInv, EntriesInv, PairInv, OfferInv
<1>2. Frame(EService) /\ UNCHANGED <<agreementEntry, clientEntry>>
  BY <1>1, CatalogFrame
<1>3. ClientSame /\ hand'[Client] = hand[Client] /\ log' = log /\ lost \subseteq lost'
      /\ hand'[g.id] = hand[g.id] /\ pos'[g.id] = pos[g.id]
  BY <1>1, <1>2, StreamsAreDistinct DEF Frame, ClientSame, Grows
<1>4. (Pending(k) => Pending(k)') /\ (Again(k) => Again(k)')
  BY <1>1, <1>3, ClientStays
<1>5. SameLink(k)
  BY <1>1, CatalogKeepsLinks
<1>6. tokenEntry'[k].descriptor = e.descriptor
  BY <1>5 DEF SameLink, AgreementParts, Held
<1>7. SUFFICES ASSUME tokenEntry'[k].here, tokenEntry'[k].linked, e.descriptor = d,
                      NEW part \in DescriptorParts, ~(part = "lifespan" /\ "lifespan" \in lost')
               PROVE  CopyOwed(k, part)'
  BY <1>0, <1>2, <1>6, OwedWhereShown
<1>8. CopyOwed(k, part) /\ e.here /\ e.linked
  BY <1>3, <1>5, <1>7 DEF DescriptorOwed, SameLink
<1>9. ASSUME Kept(tokenEntry'[k], part) = Kept(e, part),
             Here(catalogEntry'[d]) => /\ Here(c) /\ catalogEntry'[d][part] = c[part]
                                       /\ Told(d, part)' => Told(d, part)
      PROVE  CopyOwed(k, part)'
  <2>1. Unfilled(k, part) => Unfilled(k, part)'
    BY <1>2, <1>3, <1>9 DEF Unfilled
  <2> QED BY <1>0, <1>2, <1>3, <1>4, <1>8, <1>9, <2>1, KeepsCopy
<1>10. ASSUME catalogEntry' = catalogEntry, Kept(tokenEntry'[k], part) = c[part]
       PROVE  CopyOwed(k, part)'
  BY <1>0, <1>2, <1>10 DEF CopyOwed
<1>11. part \in {"state", "lifespan"}
  BY <1>7 DEF DescriptorParts
<1>12. ASSUME pos[EService] < Len(l)
       PROVE  /\ pos[EService] \in Nat /\ v = pos[EService] + 1 /\ v \in Nat /\ v \in DOMAIN l
              /\ ev = l[v] /\ ev.of \in Descriptors /\ ev \in CatalogEvent
  BY <1>12, OfferFacts DEF OfferInv
<1>13. CASE DescriptorSkip
  <2>1. /\ catalogEntry' = catalogEntry /\ tokenEntry' = tokenEntry /\ Takes(EService)
        /\ DescriptorSkips /\ (Handled(EService) \/ Go(EService, "previous"))
        /\ pos[EService] < Len(l)
        /\ (ev.type = "QuotasUpdated" /\ \E x \in Keys : StaleLifespan(tokenEntry[x]))
             => "lifespan" \in lost'
    BY <1>13 DEF DescriptorSkip, DescriptorDone, platform, Takes
  <2>2. ASSUME Here(c), Told(d, part)', ~Told(d, part)
        PROVE  Kept(tokenEntry'[k], part) = c[part]
    <3>1. c.version = v /\ ev.of = d /\ Writes(ev, part)
      BY <1>1, <1>3, <2>1, <2>2, ToldNow
    <3>2. ev.type = "QuotasUpdated"
      <4>1. ~(c.version > v)
        BY <1>12, <2>1, <3>1
      <4> QED BY <1>1, <2>1, <2>2, <3>1, <4>1, SkippedItem
    <3>3. part = "lifespan"
      BY <1>11, <3>1, <3>2 DEF Writes
    <3>4. ~StaleLifespan(e)
      BY <1>7, <2>1, <3>2, <3>3
    <3>5. e.lifespan = c.lifespan
      BY <1>7, <2>2, <3>1, <3>4 DEF StaleLifespan
    <3> QED BY <2>1, <3>3, <3>5 DEF Kept
  <2> QED BY <1>9, <1>10, <2>1, <2>2
<1>14. CASE DescriptorStore
  <2>1. /\ tokenEntry' = tokenEntry /\ Go(EService, "states") /\ pos[EService] < Len(l)
        /\ DOMAIN catalogEntry = Descriptors
    BY <1>14 DEF DescriptorStore, Takes, OfferInv
  <2>2. hand'[EService].at = "states" /\ pos' = pos
    BY <1>1, <2>1, GoStep, StreamsAreDistinct
  <2>3. CASE ev.of = d
    <3> DEFINE new == catalogEntry'[d]
    <3>1. /\ Here(new) /\ new.version = v
          /\ ev.type # "Published" => Here(c)
          /\ Here(c) => c.version \in Nat /\ c.version <= v
          /\ ev.type = "QuotasUpdated" => new.state = c.state
          /\ ev.type \in {"Suspended", "Activated"} => new.lifespan = c.lifespan
      BY <1>1, <1>14, <2>3, StoredItem
    <3>2. ev.type # "Archived" /\ ev.type \in CatalogTypes
      <4>1. ev.type = "Archived" => new = NoDescriptor
        BY <1>1, <1>14, <2>1, <2>3 DEF DescriptorStore
      <4>2. ev.type # "Archived"
        BY <3>1, <4>1 DEF Here, NoDescriptor
      <4> QED BY <1>12, <2>1, <4>2 DEF CatalogEvent
    <3>3. CASE Writes(ev, part)
      <4>1. ~(pos'[EService] >= v)
        BY <1>12, <2>1, <2>2
      <4>2. ~Told(d, part)'
        BY <1>3, <1>12, <2>1, <2>2, <2>3, <3>1, <3>3, <4>1 DEF Told
      <4> QED BY <1>0, <1>2, <4>2 DEF CopyOwed
    <3>4. CASE ~Writes(ev, part)
      <4>1. ev.type # "Published" /\ new[part] = c[part]
        BY <1>11, <3>1, <3>2, <3>4 DEF Writes, CatalogTypes
      <4>2. Told(d, part)
        <5>1. c.version = v \/ pos[EService] >= c.version
          <6> DEFINE w == c.version
                     p == pos[EService]
          <6>1. w \in Nat /\ w <= v /\ v = p + 1 /\ p \in Nat
            BY <1>12, <2>1, <3>1, <4>1
          <6> HIDE DEF w, p, v
          <6>2. w = v \/ p >= w
            BY <6>1
          <6> QED BY <6>2 DEF w, p
        <5> QED BY <1>12, <2>1, <3>4, <5>1 DEF Told
      <4> QED BY <1>9, <2>1, <3>1, <4>1, <4>2
    <3> QED BY <3>3, <3>4
  <2>4. CASE ev.of # d
    <3>1. catalogEntry'[d] = c
      BY <1>1, <1>12, <1>14, <2>1, <2>4 DEF DescriptorStore
    <3>2. Told(d, part)' => Told(d, part)
      BY <1>3, <2>2, <3>1 DEF Told
    <3> QED BY <1>9, <2>1, <3>1, <3>2
  <2> QED BY <2>3, <2>4
<1>15. CASE DescriptorStates
  <2>1. /\ catalogEntry' = catalogEntry /\ hand[EService].at = "states"
        /\ (Handled(EService) \/ Go(EService, "previous"))
        /\ pos[EService] < Len(l)
        /\ ~Closed(ev.of) => Here(catalogEntry[ev.of]) /\ catalogEntry[ev.of].version = v
    BY <1>15 DEF DescriptorStates, DescriptorDone, platform, OfferInv, CatalogAtWork
  <2>2. tokenEntry'[k] =
          IF e.descriptor = ev.of
          THEN [e EXCEPT
                 !.descriptorState = IF ev.type = "QuotasUpdated" THEN @ ELSE ItemOf(of.state),
                 !.lifespan = IF ev.type \in {"Published", "QuotasUpdated"} THEN of.lifespan ELSE @]
          ELSE e
    BY <1>8, <1>15 DEF DescriptorStates, UpdateTokens
  <2>3. CASE ev.of = d
    <3>1. Here(c) /\ c.version = v
      BY <1>1, <2>1, <2>3
    <3>2. c.state = of.state /\ c.lifespan = of.lifespan /\ ItemOf(of.state) = of.state
      <4>1. /\ c.state = l[v].descriptors[d].state /\ c.lifespan = l[v].descriptors[d].lifespan
            /\ c.state \in ItemState
        BY <1>1, <3>1, ItemFacts
      <4> QED BY <1>12, <2>1, <2>3, <4>1 DEF ItemOf, ItemState
    <3>3. DOMAIN e = Fields
      BY <1>1 DEF TokenShapes
    <3>4. /\ tokenEntry'[k].descriptorState =
               IF ev.type = "QuotasUpdated" THEN e.descriptorState ELSE c.state
          /\ tokenEntry'[k].lifespan =
               IF ev.type \in {"Published", "QuotasUpdated"} THEN c.lifespan ELSE e.lifespan
      <4> DEFINE s == ItemOf(of.state)
                 t == of.lifespan
      <4>1. tokenEntry'[k] =
              [e EXCEPT
                 !.descriptorState = IF ev.type = "QuotasUpdated" THEN @ ELSE s,
                 !.lifespan = IF ev.type \in {"Published", "QuotasUpdated"} THEN t ELSE @]
        BY <1>7, <2>2, <2>3
      <4>2. s = c.state /\ t = c.lifespan
        BY <3>2
      <4> HIDE DEF s, t, c, e, ev
      <4> QED BY <3>3, <4>1, <4>2 DEF Fields
    <3>5. CASE Writes(ev, part)
      <4>1. Kept(tokenEntry'[k], part) = c[part]
        BY <1>11, <3>4, <3>5 DEF Kept, Writes
      <4> QED BY <1>10, <2>1, <4>1
    <3>6. CASE ~Writes(ev, part)
      <4>1. Kept(tokenEntry'[k], part) = Kept(e, part)
        BY <1>11, <3>4, <3>6 DEF Kept, Writes
      <4>2. Told(d, part)
        BY <1>12, <2>1, <3>1, <3>6 DEF Told
      <4> QED BY <1>9, <2>1, <4>1, <4>2
    <3> QED BY <3>5, <3>6
  <2>4. CASE ev.of # d
    <3>1. tokenEntry'[k] = e
      BY <1>7, <2>2, <2>4
    <3>2. Here(c) /\ Told(d, part)' => Told(d, part)
      BY <1>1, <1>3, <2>1, <2>4, ToldNow
    <3> QED BY <1>9, <2>1, <3>1, <3>2
  <2> QED BY <2>3, <2>4
<1>16. CASE PreviousDelete \/ PreviousStates
  <2>1. /\ pos[EService] < Len(l) /\ Archives /\ DOMAIN catalogEntry = Descriptors
        /\ hand[EService].at \in {"previous", "previousStates"}
    BY <1>16 DEF PreviousDelete, PreviousStates, OfferInv, CatalogAtWork
  <2>2. Previous # d
    BY <1>1, <2>1, PreviousClosed DEF OfferInv
  <2>3. catalogEntry'[d] = c /\ tokenEntry'[k] = e
    <3>1. CASE PreviousDelete
      BY <1>1, <2>1, <2>2, <3>1 DEF PreviousDelete
    <3>2. CASE PreviousStates
      BY <1>7, <2>2, <3>2 DEF PreviousStates, UpdateTokens, platform
    <3> QED BY <1>16, <3>1, <3>2
  <2>4. Here(c) /\ Told(d, part)' => Told(d, part)
    <3>1. CASE PreviousDelete
      <4>1. pos' = pos /\ Version(EService)' = v
        BY <3>1 DEF PreviousDelete, Go, Version
      <4> QED BY <1>3, <2>1, <2>3, <4>1 DEF Told
    <3>2. CASE PreviousStates
      <4> SUFFICES ASSUME Here(c), Told(d, part)', ~Told(d, part) PROVE FALSE
        OBVIOUS
      <4>1. c.version = v
        BY <1>1, <1>3, <2>1, <2>3, <3>2, ToldNow DEF PreviousStates
      <4> QED BY <2>1, <4>1 DEF Told
    <3> QED BY <1>16, <3>1, <3>2
  <2> QED BY <1>9, <2>3, <2>4
<1> QED BY <1>13, <1>14, <1>15, <1>16 DEF CatalogWriter

LEMMA BeforesStep ==
  ASSUME Shapes, Befores, [Next]_vars
  PROVE  Befores'
<1>1. DOMAIN Idle.before = ReadFields /\ \A step : DOMAIN [Idle EXCEPT !.at = step].before = ReadFields
  BY DEF Idle, NothingRead, ReadFields
<1>2. ASSUME NEW s \in Streams, Handled(s) \/ Fails(s) \/ \E step : Go(s, step)
      PROVE  Befores'
  <2>1. \/ hand' = [hand EXCEPT ![s] = Idle]
        \/ \E step : hand' = [hand EXCEPT ![s] = [Idle EXCEPT !.at = step]]
    BY <1>2 DEF Handled, Fails, Go
  <2>2. DOMAIN hand'[s].before = ReadFields /\ \A t \in Streams : t # s => hand'[t] = hand[t]
    <3>1. CASE hand' = [hand EXCEPT ![s] = Idle]
      BY <1>1, <3>1 DEF Shapes
    <3>2. ASSUME NEW step, hand' = [hand EXCEPT ![s] = [Idle EXCEPT !.at = step]]
          PROVE  DOMAIN hand'[s].before = ReadFields
                 /\ \A t \in Streams : t # s => hand'[t] = hand[t]
      BY <1>1, <3>2 DEF Shapes
    <3> QED BY <2>1, <3>1, <3>2
  <2> QED BY <2>2 DEF Befores
<1>3. ASSUME \A s \in Streams : hand'[s].before = hand[s].before
      PROVE  Befores'
  BY <1>3 DEF Befores
<1>4. DOMAIN hand = Streams /\ \A s \in Streams : DOMAIN hand[s] = HandFields
  BY DEF Shapes
<1>5. CASE PurposeWriter
  <2>1. CASE PurposeQuery \/ PurposeReadAgreement \/ PurposeReadCatalog
    BY <1>3, <1>4, <2>1, StreamsAreDistinct
       DEF PurposeQuery, PurposeReadAgreement, PurposeReadCatalog, HandFields
  <2>2. CASE PurposeSkip \/ PurposeStore \/ PurposeStates \/ PurposeFill
    <3>1. Handled(Purpose) \/ Fails(Purpose) \/ \E step : Go(Purpose, step)
      BY <2>2 DEF PurposeSkip, PurposeStore, PurposeStates, PurposeFill
    <3> QED BY <1>2, <3>1, StreamsAreDistinct
  <2> QED BY <1>5, <2>1, <2>2 DEF PurposeWriter
<1>6. CASE CatalogWriter
  <2>1. Handled(EService) \/ \E step : Go(EService, step)
    BY <1>6 DEF CatalogWriter, DescriptorSkip, DescriptorStore, DescriptorStates, PreviousDelete,
                PreviousStates, DescriptorDone
  <2> QED BY <1>2, <2>1, StreamsAreDistinct
<1>7. CASE ClientWriter
  <2>1. CASE ClientReadPurpose \/ ClientReadAgreement \/ ClientReadCatalog
    BY <1>3, <1>4, <2>1, StreamsAreDistinct
       DEF ClientReadPurpose, ClientReadAgreement, ClientReadCatalog, HandFields
  <2>2. CASE ClientPut
    <3>1. hand'[Client].before = hand[Client].now
          /\ \A t \in Streams \ {Client} : hand'[t] = hand[t]
      BY <1>4, <2>2, StreamsAreDistinct DEF ClientPut, HandFields
    <3> QED BY <3>1, StreamsAreDistinct DEF Befores, Shapes
  <2>3. CASE ClientSkip \/ ClientStore \/ ClientDelete \/ ClientUpdate
    <3>1. Handled(Client) \/ \E step : Go(Client, step)
      BY <2>3 DEF ClientSkip, ClientStore, ClientDelete, ClientUpdate
    <3> QED BY <1>2, <3>1, StreamsAreDistinct
  <2> QED BY <1>7, <2>1, <2>2, <2>3 DEF ClientWriter
<1>8. ASSUME NEW a \in Agreements, AgreementWriter(a)
      PROVE  Befores'
  <2>0. a \in Streams
    BY StreamsAreDistinct
  <2>1. CASE AgreementRead(a) \/ AgreementReadCatalog(a)
    BY <1>3, <1>4, <2>0, <2>1 DEF AgreementRead, AgreementReadCatalog, HandFields
  <2>2. CASE AgreementFill(a)
    <3>1. hand'[a].before = [hand[a].before EXCEPT !.c = hand[a].now.c]
          /\ \A t \in Streams \ {a} : hand'[t] = hand[t]
      BY <1>4, <2>0, <2>2 DEF AgreementFill, HandFields
    <3>2. DOMAIN hand'[a].before = ReadFields
      BY <2>0, <3>1 DEF Befores
    <3> QED BY <2>0, <3>1, <3>2 DEF Befores
  <2>3. CASE AgreementStates(a)
    <3>1. Handled(a) \/ hand' = [hand EXCEPT ![a].at = "close"]
      BY <2>3 DEF AgreementStates
    <3> QED BY <1>2, <1>3, <1>4, <2>0, <3>1 DEF HandFields
  <2>4. CASE AgreementCheck(a)
    <3>1. \/ Handled(a)
          \/ \E x : hand' = [hand EXCEPT ![a].at = "refill", ![a].now.c = x]
      BY <2>4 DEF AgreementCheck
    <3> QED BY <1>2, <1>3, <1>4, <2>0, <3>1 DEF HandFields
  <2>5. CASE AgreementSkip(a) \/ AgreementUpsert(a) \/ AgreementUpdate(a) \/ AgreementClose(a)
             \/ AgreementRefill(a)
    <3>1. Handled(a) \/ \E step : Go(a, step)
      BY <2>5 DEF AgreementSkip, AgreementUpsert, AgreementUpdate, AgreementClose, AgreementRefill
    <3> QED BY <1>2, <2>0, <3>1
  <2> QED BY <1>8, <2>1, <2>2, <2>3, <2>4, <2>5 DEF AgreementWriter
<1>9. ASSUME NEW s \in Streams, Crash(s) \/ Redeliver(s)
      PROVE  Befores'
  BY <1>2, <1>3, <1>9 DEF Crash, Redeliver
<1>10. CASE Domain \/ UNCHANGED vars
  BY <1>3, <1>10, DomainKeeps DEF vars
<1> QED BY <1>5, <1>6, <1>7, <1>8, <1>9, <1>10 DEF Next, Consumers

\* What the fills write of the descriptor that was read.
LEMMA FilledCopies ==
  ASSUME NEW e, DOMAIN e = Fields, NEW f, NEW g, NEW c, Here(g), Here(c)
  PROVE  /\ FilledByPurpose(e, f, g, c).descriptorState = c.state
         /\ FilledByPurpose(e, f, g, c).lifespan = c.lifespan
BY DEF FilledByPurpose, Fields

LEMMA RefilledCopies ==
  ASSUME NEW e, DOMAIN e = Fields, NEW a, NEW c, Here(c)
  PROVE  /\ FilledByAgreement(e, a, c).descriptorState = c.state
         /\ FilledByAgreement(e, a, c).lifespan = c.lifespan
BY DEF FilledByAgreement, Fields

\* Two descriptors' data that are the same are so part by part.
LEMMA SameData ==
  ASSUME NEW b, NEW c, DescriptorData(b) = DescriptorData(c)
  PROVE  b.state = c.state /\ b.lifespan = c.lifespan /\ (Here(b) <=> Here(c))
<1>1. /\ DescriptorData(b).state = b.state /\ DescriptorData(b).lifespan = b.lifespan
      /\ DescriptorData(c).state = c.state /\ DescriptorData(c).lifespan = c.lifespan
  BY DEF DescriptorData
<1>2. b.state = c.state /\ b.lifespan = c.lifespan
  BY <1>1
<1> QED BY <1>2 DEF Here

LEMMA SamePair ==
  ASSUME NEW f, NEW g, AgreementData(f) = AgreementData(g)
  PROVE  f.state = g.state /\ f.id = g.id /\ f.descriptor = g.descriptor
<1>1. /\ AgreementData(f).state = f.state /\ AgreementData(f).id = f.id
      /\ AgreementData(f).descriptor = f.descriptor
      /\ AgreementData(g).state = g.state /\ AgreementData(g).id = g.id
      /\ AgreementData(g).descriptor = g.descriptor
  BY DEF AgreementData
<1> QED BY <1>1

\* The purpose's writer fills the entries that it has found from what still is so.
LEMMA PurposeLeavesCopies ==
  ASSUME LinkInv, OfferInv, PurposeWriter, "descriptor" \notin lost',
         NEW k \in Keys, DescriptorOwed(k)
  PROVE  DescriptorOwed(k)'
<1>0. PICK d : d = agreementEntry.descriptor
  OBVIOUS
<1> DEFINE g == agreementEntry
           c == catalogEntry[d]
           e == tokenEntry[k]
           h == hand[Purpose]
<1>1. PairInv /\ EntriesInv /\ Shapes /\ TokenShapes /\ g.id \in Agreements /\ Here(g)
  BY EntryFacts DEF LinkInv, PurposeInv, EntriesInv, PairInv
<1>2. Frame(Purpose) /\ UNCHANGED <<agreementEntry, catalogEntry>>
  BY <1>1, PurposeFrame
<1>3. /\ hand'[g.id] = hand[g.id] /\ pos'[g.id] = pos[g.id] /\ log' = log /\ lost \subseteq lost'
      /\ hand'[EService] = hand[EService] /\ pos'[EService] = pos[EService]
      /\ hand'[Client] = hand[Client]
      /\ (Pending(k) => Pending(k)') /\ (Again(k) => Again(k)')
  BY <1>1, <1>2, PurposeLeaves, StreamsAreDistinct DEF Frame
<1>4. \A part : Told(d, part)' => Told(d, part)
  BY <1>2, <1>3 DEF Told, Version
<1>5. ASSUME e.here = tokenEntry'[k].here, e.linked = tokenEntry'[k].linked,
             \A part \in DescriptorParts : Kept(tokenEntry'[k], part) = Kept(e, part)
      PROVE  DescriptorOwed(k)'
  BY <1>0, <1>2, <1>3, <1>4, <1>5, OthersLeaveCopies
<1>6. CASE PurposeFill
  <2>1. CASE tokenEntry'[k] = e
    BY <1>5, <2>1
  <2>2. CASE tokenEntry'[k] # e
    <3>1. /\ h.found[k].here /\ Overtaken(h.now.g, h.now.c) \subseteq lost'
          /\ Handled(Purpose)
      BY <1>1, <1>6, <2>2, FillLinks
    <3>2. tokenEntry'[k] = FilledByPurpose(e, h.found[k], h.now.g, h.now.c)
      BY <1>6, <2>2, <3>1 DEF PurposeFill
    <3>3. "descriptor" \notin Overtaken(h.now.g, h.now.c)
      BY <3>1
    <3>4. /\ AgreementData(h.now.g) = AgreementData(g)
          /\ Here(h.now.g) => DescriptorData(h.now.c) = DescriptorData(catalogEntry[h.now.g.descriptor])
      BY <3>3 DEF Overtaken
    <3>5. h.now.g.state = g.state /\ h.now.g.descriptor = d /\ Here(h.now.g)
      BY <1>0, <1>1, <3>4, SamePair DEF Here
    <3>6. h.now.c.state = c.state /\ h.now.c.lifespan = c.lifespan /\ (Here(h.now.c) <=> Here(c))
      BY <3>4, <3>5, SameData
    <3>7. Here(c) => tokenEntry'[k].descriptorState = c.state /\ tokenEntry'[k].lifespan = c.lifespan
      <4>1. DOMAIN e = Fields
        BY <1>1 DEF TokenShapes
      <4> QED BY <3>2, <3>5, <3>6, <4>1, FilledCopies
    <3>8. ASSUME NEW part \in DescriptorParts
          PROVE  CopyOwed(k, part)'
      <4>1. Here(c) => Kept(tokenEntry'[k], part) = c[part]
        BY <3>7 DEF Kept, DescriptorParts
      <4> QED BY <1>0, <1>2, <4>1 DEF CopyOwed
    <3> QED BY <3>8 DEF DescriptorOwed
  <2> QED BY <2>1, <2>2
<1>7. CASE ~PurposeFill
  <2>1. SameLink(k)
    BY <1>1, <1>7, PurposeKeepsLinks
  <2>2. tokenEntry'[k].descriptorState = e.descriptorState /\ tokenEntry'[k].lifespan = e.lifespan
    <3>1. CASE PurposeStates
      <4>1. \/ tokenEntry'[k] = e
            \/ \E s : tokenEntry'[k] = [e EXCEPT !.purposeState = s]
        BY <3>1 DEF PurposeStates, UpdateTokens
      <4>2. DOMAIN e = Fields
        BY <1>1 DEF TokenShapes
      <4> HIDE DEF e
      <4> QED BY <4>1, <4>2 DEF Fields
    <3>2. CASE ~PurposeStates
      BY <1>7, <3>2 DEF PurposeWriter, PurposeSkip, PurposeStore, PurposeQuery,
                        PurposeReadAgreement, PurposeReadCatalog
    <3> QED BY <3>1, <3>2
  <2> QED BY <1>5, <2>1, <2>2 DEF SameLink, Kept
<1> QED BY <1>6, <1>7

\* The agreements' handler reads the descriptor again after it has filled the entries.
LEMMA AgreementLeavesCopies ==
  ASSUME LinkInv, OfferInv, Befores, NEW a \in Agreements, AgreementWriter(a),
         "agreement" \notin lost', "descriptor" \notin lost', NEW k \in Keys,
         agreementEntry'.descriptor = agreementEntry.descriptor => DescriptorOwed(k)
  PROVE  DescriptorOwed(k)'
<1> DEFINE g == agreementEntry
           e == tokenEntry[k]
           h == hand[a]
<1>1. PairInv /\ EntriesInv /\ Shapes /\ TokenShapes /\ g.id \in Agreements /\ Here(g)
      /\ g.version \in Nat /\ a \in Nat /\ DOMAIN e = Fields
  BY EntryFacts, StreamsAreDistinct DEF LinkInv, PurposeInv, EntriesInv, PairInv, TokenShapes
<1>0. DOMAIN e = Fields
  BY <1>1
<1>2. Frame(a) /\ UNCHANGED <<catalogEntry, clientEntry>> /\ a \in Streams \ {EService, Client}
  BY <1>1, AgreementFrame, StreamsAreDistinct
<1>3. /\ log' = log /\ lost \subseteq lost' /\ ClientSame
      /\ hand'[EService] = hand[EService] /\ pos'[EService] = pos[EService]
      /\ hand'[Client] = hand[Client]
  BY <1>2, StreamsAreDistinct DEF Frame, ClientSame, Grows
<1>4. (Pending(k) => Pending(k)') /\ (Again(k) => Again(k)')
  BY <1>1, <1>3, ClientStays
<1>5. tokenEntry'[k].here = e.here /\ tokenEntry'[k].linked = e.linked
  BY <1>1, AgreementLinks
<1>6. SUFFICES ASSUME e.here, e.linked, NEW part \in DescriptorParts,
                      ~(part = "lifespan" /\ "lifespan" \in lost')
               PROVE  CopyOwed(k, part)'
  BY <1>5 DEF DescriptorOwed
<1>7. part \in {"state", "lifespan"}
  BY DEF DescriptorParts
<1>8. ASSUME agreementEntry'.descriptor = g.descriptor, Kept(tokenEntry'[k], part) = Kept(e, part),
             Unfilled(k, part) => Unfilled(k, part)'
      PROVE  CopyOwed(k, part)'
  <2>0. PICK d : d = g.descriptor
    OBVIOUS
  <2>1. CopyOwed(k, part)
    BY <1>3, <1>6, <1>8 DEF DescriptorOwed
  <2>2. Told(d, part)' => Told(d, part)
    BY <1>2, <1>3 DEF Told, Version
  <2> QED BY <1>2, <1>3, <1>4, <1>8, <2>0, <2>1, <2>2, KeepsCopy
<1>9. ASSUME Unfilled(k, part)'
      PROVE  CopyOwed(k, part)'
  BY <1>9 DEF CopyOwed
<1>10. ASSUME pos[a] >= 1, g.id = a
       PROVE  ~Unfilled(k, part)
  BY <1>10 DEF Unfilled
<1>11. pos[a] \in Nat /\ Version(a) = pos[a] + 1
  BY <1>1, CourseFacts DEF PairInv
<1>12. CASE AgreementRead(a) \/ AgreementSkip(a)
  <2>1. agreementEntry' = g /\ tokenEntry' = tokenEntry
    BY <1>12 DEF AgreementRead, AgreementSkip, platform
  <2>2. Unfilled(k, part) => Unfilled(k, part)'
    <3>1. CASE g.id # a
      <4>1. hand'[g.id] = hand[g.id] /\ pos'[g.id] = pos[g.id]
        BY <1>1, <1>2, <3>1, StreamsAreDistinct DEF Frame
      <4> QED BY <2>1, <4>1 DEF Unfilled
    <3>2. CASE g.id = a /\ AgreementRead(a)
      <4>1. hand'[a].at = "decide" /\ pos' = pos
        BY <1>1, <1>2, <3>2 DEF AgreementRead, Shapes, HandFields
      <4> QED BY <2>1, <3>2, <4>1 DEF Unfilled
    <3>3. CASE g.id = a /\ AgreementSkip(a)
      <4>1. h.now.g = g /\ AgreementSkips(a)
        BY <1>1, <3>3 DEF AgreementSkip, PairInv, WorkOf
      <4>2. g.version > Version(a)
        <5>1. a >= a
          BY <1>1
        <5> QED BY <1>1, <3>3, <4>1, <5>1 DEF AgreementSkips, IsLatest, NewerOfSame, Newer
      <4>3. g.version >= 2
        BY <1>1, <1>11, <4>2
      <4> QED BY <4>3 DEF Unfilled
    <3> QED BY <1>12, <3>1, <3>2, <3>3
  <2> QED BY <1>8, <2>1, <2>2
<1>13. CASE AgreementUpsert(a)
  <2>1. /\ agreementEntry'.id = a /\ agreementEntry'.version = 1 /\ pos' = pos /\ Version(a) = 1
        /\ hand'[a].at = "catalog"
    BY <1>1, <1>13, UpsertKeepsPair
  <2>2. ~(pos'[a] >= 1)
    BY <1>11, <2>1
  <2> QED BY <1>9, <2>1, <2>2 DEF Unfilled
<1>14. CASE AgreementUpdate(a) \/ AgreementStates(a) \/ AgreementClose(a)
  <2>1. /\ pos[a] >= 1 /\ g.id = a /\ agreementEntry'.descriptor = g.descriptor
    <3>1. CASE AgreementUpdate(a)
      BY <1>1, <3>1, UpdateKeepsPair
    <3>2. CASE AgreementClose(a)
      BY <1>1, <3>2, CloseKeepsPair
    <3>3. CASE AgreementStates(a)
      <4>1. g.id = a /\ agreementEntry' = g /\ Message(a).type # "Activated" /\ h.at # "idle"
        BY <1>1, <3>3, StatesKeepsPair
      <4>2. pos[a] < Len(log[a])
        BY <1>1, <4>1 DEF PairInv, WorkOf
      <4>3. Version(a) # 1
        BY <1>1, <4>1, <4>2, CourseFacts DEF PairInv
      <4> QED BY <1>11, <4>1, <4>3
    <3> QED BY <1>14, <3>1, <3>2, <3>3
  <2>2. tokenEntry'[k].descriptorState = e.descriptorState /\ tokenEntry'[k].lifespan = e.lifespan
    <3>1. CASE AgreementStates(a)
      <4>1. \/ tokenEntry'[k] = e
            \/ \E s : tokenEntry'[k] = [e EXCEPT !.agreementState = s]
        BY <3>1 DEF AgreementStates, UpdateTokens
      <4> HIDE DEF e
      <4> QED BY <1>1, <4>1 DEF Fields
    <3>2. CASE ~AgreementStates(a)
      BY <1>14, <3>2 DEF AgreementUpdate, AgreementClose
    <3> QED BY <3>1, <3>2
  <2> QED BY <1>8, <1>10, <2>1, <2>2 DEF Kept
<1>16. CASE (AgreementReadCatalog(a) \/ AgreementCheck(a)) /\ g.id # a
  <2>1. agreementEntry' = g /\ tokenEntry' = tokenEntry
    BY <1>16 DEF AgreementReadCatalog, AgreementCheck, platform
  <2>2. hand'[g.id] = hand[g.id] /\ pos'[g.id] = pos[g.id]
    BY <1>1, <1>2, <1>16, StreamsAreDistinct DEF Frame
  <2>3. Unfilled(k, part) => Unfilled(k, part)'
    BY <2>1, <2>2 DEF Unfilled
  <2> QED BY <1>8, <2>1, <2>3
<1>15. CASE /\ AgreementReadCatalog(a) \/ AgreementFill(a) \/ AgreementCheck(a) \/ AgreementRefill(a)
            /\ AgreementReadCatalog(a) \/ AgreementCheck(a) => g.id = a
  <2>0. PICK d : d = g.descriptor
    OBVIOUS
  <2> DEFINE c == catalogEntry[d]
  <2>1. /\ agreementEntry' = g /\ g.id = a /\ g.version = 1 /\ Version(a) = 1
        /\ Message(a).descriptor = d
    BY <1>1, <1>15, <2>0, FillingKeepsPair
  <2>2. ~(pos[a] >= 1) /\ ~(g.version >= 2)
    BY <1>11, <2>1
  <2>3. ASSUME pos' = pos,
               hand'[a].at = "check" => ~Here(hand'[a].before.c)
                                        \/ Kept(tokenEntry'[k], part) = hand'[a].before.c[part]
        PROVE  CopyOwed(k, part)'
    BY <1>9, <2>1, <2>2, <2>3 DEF Unfilled
  <2>4. ASSUME Here(c) => Kept(tokenEntry'[k], part) = c[part]
        PROVE  CopyOwed(k, part)'
    BY <1>2, <2>0, <2>1, <2>4 DEF CopyOwed
  <2>5. /\ DOMAIN hand[a] = HandFields /\ DOMAIN hand = Streams
        /\ DOMAIN hand[a].now = ReadFields
    BY <1>1, <1>2 DEF Shapes
  <2>6. CASE AgreementReadCatalog(a)
    <3>1. pos' = pos /\ hand'[a].at = "fill"
      BY <1>2, <2>5, <2>6 DEF AgreementReadCatalog, HandFields
    <3> QED BY <2>3, <3>1
  <2>7. CASE AgreementFill(a)
    <3>1. pos' = pos /\ hand' = [hand EXCEPT ![a].at = "check", ![a].before.c = hand[a].now.c]
          /\ tokenEntry'[k] = FilledByAgreement(e, a, h.now.c)
      BY <1>6, <2>7 DEF AgreementFill, UpdateTokens, Linked
    <3>2. hand'[a].before = [h.before EXCEPT !.c = h.now.c]
      BY <1>2, <2>5, <3>1 DEF HandFields
    <3>3. hand'[a].before.c = h.now.c
      BY <1>2, <3>2 DEF Befores, ReadFields
    <3>4. Here(h.now.c) => /\ tokenEntry'[k].descriptorState = h.now.c.state
                           /\ tokenEntry'[k].lifespan = h.now.c.lifespan
      BY <1>0, <3>1, RefilledCopies
    <3>5. ~Here(h.now.c) \/ Kept(tokenEntry'[k], part) = h.now.c[part]
      BY <1>7, <3>4 DEF Kept
    <3> QED BY <2>3, <3>1, <3>3, <3>5
  <2>8. CASE AgreementCheck(a)
    <3>1. CASE hand'[a].at = "refill" /\ pos' = pos
      BY <2>3, <3>1
    <3>2. CASE Handled(a) /\ DescriptorData(c) = DescriptorData(h.before.c)
      <4>1. h.at = "check" /\ tokenEntry' = tokenEntry
        BY <2>8 DEF AgreementCheck
      <4>2. c.state = h.before.c.state /\ c.lifespan = h.before.c.lifespan
            /\ (Here(c) <=> Here(h.before.c))
        BY <3>2, SameData
      <4>3. CASE Unfilled(k, part)
        <5>1. ~Here(h.before.c) \/ Kept(e, part) = h.before.c[part]
          BY <2>1, <4>1, <4>3 DEF Unfilled
        <5>2. h.before.c[part] = c[part]
          BY <1>7, <4>2
        <5> QED BY <2>4, <4>1, <4>2, <5>1, <5>2
      <4>4. CASE ~Unfilled(k, part)
        BY <1>8, <2>1, <4>1, <4>4
      <4> QED BY <4>3, <4>4
    <3>3. \/ hand'[a].at = "refill" /\ pos' = pos
          \/ Handled(a) /\ DescriptorData(c) = DescriptorData(h.before.c)
      <4>1. \/ hand' = [hand EXCEPT ![a].at = "refill", ![a].now.c = c] /\ pos' = pos
            \/ Handled(a) /\ DescriptorData(c) = DescriptorData(h.before.c)
        BY <2>1, <2>8 DEF AgreementCheck
      <4> QED BY <1>2, <2>5, <4>1 DEF HandFields
    <3> QED BY <3>1, <3>2, <3>3
  <2>9. CASE AgreementRefill(a)
    <3>1. /\ tokenEntry'[k] = FilledByAgreement(e, a, h.now.c)
          /\ DescriptorData(h.now.c) = DescriptorData(c)
      BY <1>6, <2>1, <2>9 DEF AgreementRefill, UpdateTokens, Linked
    <3>2. h.now.c.state = c.state /\ h.now.c.lifespan = c.lifespan /\ (Here(h.now.c) <=> Here(c))
      BY <3>1, SameData
    <3>3. Here(h.now.c) => /\ tokenEntry'[k].descriptorState = h.now.c.state
                           /\ tokenEntry'[k].lifespan = h.now.c.lifespan
      BY <1>0, <3>1, RefilledCopies
    <3>4. Here(c) => tokenEntry'[k].descriptorState = c.state /\ tokenEntry'[k].lifespan = c.lifespan
      BY <3>2, <3>3
    <3> QED BY <1>7, <2>4, <3>4 DEF Kept
  <2> QED BY <1>15, <2>6, <2>7, <2>8, <2>9
<1> QED BY <1>12, <1>13, <1>14, <1>15, <1>16 DEF AgreementWriter

\* What the authorization writer leaves of the descriptors and of the agreement's handler.
LEMMA ClientLeavesOffer ==
  ASSUME LinkInv, ClientWriter, NEW k \in Keys
  PROVE  /\ UNCHANGED <<agreementEntry, purposeEntry, catalogEntry, log>> /\ lost \subseteq lost'
         /\ hand'[agreementEntry.id] = hand[agreementEntry.id]
         /\ pos'[agreementEntry.id] = pos[agreementEntry.id]
         /\ hand'[EService] = hand[EService] /\ pos'[EService] = pos[EService]
         /\ \A d, part : Told(d, part)' => Told(d, part)
         /\ \A part : /\ Unfilled(k, part)
                      /\ Kept(tokenEntry'[k], part) = Kept(tokenEntry[k], part)
                      => Unfilled(k, part)'
<1>1. Shapes /\ EntriesInv /\ PairInv
  BY DEF LinkInv, PurposeInv, EntriesInv
<1>2. Frame(Client) /\ UNCHANGED <<agreementEntry, purposeEntry, catalogEntry>>
  BY <1>1, ClientFrame
<1>3. agreementEntry.id \in Streams \ {Client} /\ EService \in Streams \ {Client}
  BY <1>1, EntryFacts, StreamsAreDistinct DEF PairInv
<1>4. /\ hand'[agreementEntry.id] = hand[agreementEntry.id]
      /\ pos'[agreementEntry.id] = pos[agreementEntry.id]
      /\ hand'[EService] = hand[EService] /\ pos'[EService] = pos[EService]
      /\ log' = log /\ lost \subseteq lost'
  BY <1>2, <1>3 DEF Frame
<1>5. \A d, part : Told(d, part)' => Told(d, part)
  BY <1>2, <1>4 DEF Told, Version
<1>6. ASSUME NEW part, Unfilled(k, part), Kept(tokenEntry'[k], part) = Kept(tokenEntry[k], part)
      PROVE  Unfilled(k, part)'
  BY <1>2, <1>4, <1>6 DEF Unfilled
<1> QED BY <1>2, <1>4, <1>5, <1>6

\* The steps that neither make an entry nor retrieve anything for it.
LEMMA ClientRestCopies ==
  ASSUME LinkInv, ClientWriter, NEW k \in Keys, DescriptorOwed(k),
         tokenEntry'[k] = tokenEntry[k] \/ tokenEntry'[k] = NoToken,
         ~Again(k), ~(ClientPut /\ k \in MadeBy(Message(Client)))
  PROVE  DescriptorOwed(k)'
<1>1. CASE tokenEntry'[k] = NoToken
  BY <1>1 DEF DescriptorOwed, NoToken
<1>2. CASE tokenEntry'[k] = tokenEntry[k] /\ tokenEntry[k].here
  <2>0. PICK d : d = agreementEntry.descriptor
    OBVIOUS
  <2>1. Pending(k) => Pending(k)'
    BY <1>2, ClientStaysPending DEF LinkInv, PurposeInv
  <2> QED BY <1>2, <2>0, <2>1, ClientLeavesOffer, OthersLeaveCopies
<1>3. CASE tokenEntry'[k] = tokenEntry[k] /\ ~tokenEntry[k].here
  BY <1>3 DEF DescriptorOwed
<1> QED BY <1>1, <1>2, <1>3

\* What is read once more is compared with what was read before.
LEMMA ReadsLeaveCopies ==
  ASSUME LinkInv, ClientReadPurpose \/ ClientReadAgreement \/ ClientReadCatalog, Unborn,
         NEW k \in Keys, DescriptorOwed(k)
  PROVE  DescriptorOwed(k)'
<1>a. PICK d : d = agreementEntry.descriptor
  OBVIOUS
<1> DEFINE h == hand[Client]
           n == hand'[Client]
           g == agreementEntry
           c == catalogEntry[d]
<1>0. Shapes /\ EntriesInv /\ PairInv /\ ClientWriter /\ Here(g)
  BY EntryFacts DEF LinkInv, PurposeInv, EntriesInv, PairInv, ClientWriter
<1>1. /\ n.round = h.round /\ n.before = h.before
      /\ UNCHANGED <<log, pos, tokenEntry>>
  BY <1>0, StreamsAreDistinct
     DEF ClientReadPurpose, ClientReadAgreement, ClientReadCatalog, Shapes, HandFields, ReadFields
<1>2. /\ ClientReadPurpose =>
           /\ n.at = IF Here(purposeEntry) THEN "agreement" ELSE Retrieved
           /\ h.at = "purpose"
      /\ ClientReadAgreement =>
           /\ h.at = "agreement" /\ n.now.g = g /\ n.at = "catalog"
      /\ ClientReadCatalog =>
           /\ h.at = "catalog" /\ n.now.g = h.now.g /\ n.now.c = catalogEntry[h.now.g.descriptor]
           /\ n.at \in {"put", "update"}
  <2>1. ASSUME ClientReadPurpose
        PROVE  /\ n.at = IF Here(purposeEntry) THEN "agreement" ELSE Retrieved
               /\ h.at = "purpose"
    BY <1>0, <2>1, StreamsAreDistinct DEF ClientReadPurpose, Shapes, HandFields, ReadFields
  <2>2. ASSUME ClientReadAgreement
        PROVE  h.at = "agreement" /\ n.now.g = g /\ n.at = "catalog"
    BY <1>0, <2>2, StreamsAreDistinct DEF ClientReadAgreement, Shapes, HandFields, ReadFields
  <2>3. ASSUME ClientReadCatalog
        PROVE  /\ h.at = "catalog" /\ n.now.g = h.now.g
               /\ n.now.c = catalogEntry[h.now.g.descriptor] /\ n.at \in {"put", "update"}
    BY <1>0, <2>3, StreamsAreDistinct
       DEF ClientReadCatalog, Shapes, HandFields, ReadFields, Retrieved
  <2> QED BY <2>1, <2>2, <2>3
<1>3. /\ UNCHANGED <<agreementEntry, catalogEntry>> /\ lost \subseteq lost'
      /\ \A x, part : Told(x, part)' => Told(x, part)
      /\ \A part : Unfilled(k, part) => Unfilled(k, part)'
  BY <1>0, <1>1, ClientLeavesOffer
<1>4. SUFFICES ASSUME tokenEntry[k].here, tokenEntry[k].linked, NEW part \in DescriptorParts,
                      ~(part = "lifespan" /\ "lifespan" \in lost')
               PROVE  CopyOwed(k, part)'
  BY <1>1 DEF DescriptorOwed
<1>5. CopyOwed(k, part)
  BY <1>3, <1>4 DEF DescriptorOwed
<1>6. /\ Pending(k) => Pending(k)'
      /\ Again(k) => Again(k)'
  <2>1. ~ClientPut
    BY DEF ClientReadPurpose, ClientReadAgreement, ClientReadCatalog, ClientPut
  <2>2. Message(Client)' = Message(Client)
    BY <1>1 DEF Message, Version
  <2> QED BY <1>0, <1>1, <1>4, <2>1, <2>2, ClientStaysPending DEF Again
<1>7. ClientReadPurpose => n.at = "agreement"
  BY <1>2, <1>4 DEF Unborn
<1>8. CASE ~Here(c) \/ ~Told(d, part) \/ Kept(tokenEntry[k], part) = c[part]
  BY <1>a, <1>1, <1>3, <1>8 DEF CopyOwed
<1>9. CASE Unfilled(k, part) \/ Pending(k)
  BY <1>3, <1>6, <1>9 DEF CopyOwed
<1>10. CASE Again(k) /\ Moved
  <2>1. Moved'
    <3>1. CASE ClientReadPurpose
      BY <1>1, <1>2, <1>3, <1>7, <1>10, <3>1 DEF Moved
    <3>2. CASE ClientReadAgreement
      <4>1. h.before.g.descriptor # g.descriptor
        BY <1>2, <1>10, <3>2 DEF Moved
      <4> QED BY <1>1, <1>2, <1>3, <3>2, <4>1 DEF Moved
    <3>3. CASE ClientReadCatalog
      BY <1>1, <1>2, <1>3, <1>10, <3>3 DEF Moved
    <3> QED BY <3>1, <3>2, <3>3
  <2> QED BY <1>6, <1>10, <2>1 DEF CopyOwed
<1>11. CASE Again(k) /\ Rereading /\ Kept(tokenEntry[k], part) = h.before.c[part]
  <2>1. ASSUME Rereading'
        PROVE  CopyOwed(k, part)'
    BY <1>1, <1>6, <1>11, <2>1 DEF CopyOwed
  <2>2. CASE ClientReadPurpose
    BY <1>7, <2>1, <2>2 DEF Rereading
  <2>3. CASE ClientReadAgreement
    BY <1>2, <1>3, <2>1, <2>3 DEF Rereading
  <2>4. CASE ClientReadCatalog /\ n.now # h.before
    BY <1>1, <1>2, <2>1, <2>4 DEF Rereading
  <2>5. CASE ClientReadCatalog /\ n.now = h.before
    <3>1. h.now.g = h.before.g
      BY <1>2, <2>5
    <3>2. h.now.g.descriptor = d
      BY <1>a, <1>2, <1>11, <2>5, <3>1 DEF Rereading
    <3>3. h.before.c = c
      BY <1>2, <2>5, <3>2
    <3>4. Kept(tokenEntry'[k], part) = catalogEntry'[d][part]
      BY <1>1, <1>3, <1>11, <3>3
    <3> QED BY <1>a, <1>3, <3>4 DEF CopyOwed
  <2> QED BY <2>2, <2>3, <2>4, <2>5
<1> QED BY <1>a, <1>5, <1>8, <1>9, <1>10, <1>11 DEF CopyOwed

\* An entry that is put is read for again.
LEMMA PutLeavesCopies ==
  ASSUME LinkInv, ClientPut, NEW k \in Keys, k \in MadeBy(Message(Client))
  PROVE  DescriptorOwed(k)'
<1> DEFINE h == hand[Client]
           ev == Message(Client)
<1>1. Shapes
  BY DEF LinkInv, PurposeInv, EntriesInv
<1>2. /\ hand'[Client].at = "purpose" /\ hand'[Client].round = 2
      /\ hand'[Client].before = h.now /\ UNCHANGED <<log, pos>>
      /\ tokenEntry' = [x \in Keys |-> IF x \in MadeBy(ev) THEN Made(h.now) ELSE tokenEntry[x]]
  BY <1>1, StreamsAreDistinct DEF ClientPut, Shapes, HandFields
<1>3. Message(Client)' = ev
  BY <1>2 DEF Message, Version
<1>4. tokenEntry'[k] = Made(h.now)
  BY <1>2
<1>5. Again(k)' /\ Rereading'
  BY <1>2, <1>3 DEF Again, Rereading
<1>6. ASSUME NEW part \in DescriptorParts
      PROVE  CopyOwed(k, part)'
  <2>1. Kept(Made(h.now), part) = h.now.c[part]
    BY DEF Made, Kept, DescriptorParts
  <2> QED BY <1>2, <1>4, <1>5, <2>1 DEF CopyOwed
<1> QED BY <1>6 DEF DescriptorOwed

\* What the second retrieval leaves of the descriptor in an entry.
LEMMA UpdateCopies ==
  ASSUME TokenShapes, ClientUpdate, NEW k \in Keys, k \in MadeBy(Message(Client)),
         NEW part \in DescriptorParts
  PROVE  LET h == hand[Client] IN
         Kept(tokenEntry'[k], part) =
           IF Here(h.now.c) /\ h.now.c[part] # h.before.c[part] THEN h.now.c[part]
           ELSE Kept(tokenEntry[k], part)
<1> DEFINE h == hand[Client]
           e == tokenEntry[k]
<1>1. DOMAIN e = Fields /\ tokenEntry'[k] = SecondRetrieval(e, Made(h.before), h.now)
  BY DEF TokenShapes, ClientUpdate
<1>2. /\ Made(h.before).descriptorState = h.before.c.state
      /\ Made(h.before).lifespan = h.before.c.lifespan
  BY DEF Made
<1> DEFINE put == Made(h.before)
           r == h.now
<1>3. put.descriptorState = h.before.c.state /\ put.lifespan = h.before.c.lifespan
  BY <1>2
<1>4. /\ tokenEntry'[k].descriptorState =
           IF Here(r.c) /\ r.c.state # put.descriptorState THEN r.c.state ELSE e.descriptorState
      /\ tokenEntry'[k].lifespan =
           IF Here(r.c) /\ r.c.lifespan # put.lifespan THEN r.c.lifespan ELSE e.lifespan
  <2>1. tokenEntry'[k] = SecondRetrieval(e, put, r)
    BY <1>1
  <2> HIDE DEF e, put, r
  <2> DEFINE withPurpose ==
        IF ~Here(r.p) THEN e
        ELSE [e EXCEPT !.linked = TRUE,
                !.purposeState = IF r.p.state = put.purposeState THEN @ ELSE r.p.state]
             withAgreement ==
        IF ~Here(r.g) THEN withPurpose
        ELSE [withPurpose EXCEPT
                !.descriptor = IF r.g.descriptor = put.descriptor THEN @ ELSE r.g.descriptor,
                !.agreementState = IF r.g.state = put.agreementState THEN @ ELSE r.g.state]
  <2>2. /\ DOMAIN withPurpose = Fields
        /\ withPurpose.descriptorState = e.descriptorState /\ withPurpose.lifespan = e.lifespan
    BY <1>1 DEF Fields
  <2>3. tokenEntry'[k] =
          IF ~Here(r.c) THEN withAgreement
          ELSE [withAgreement EXCEPT
             !.lifespan = IF r.c.lifespan = put.lifespan THEN @ ELSE r.c.lifespan,
             !.descriptorState = IF r.c.state = put.descriptorState THEN @ ELSE r.c.state]
    BY <2>1 DEF SecondRetrieval
  <2> HIDE DEF withPurpose
  <2>4. /\ DOMAIN withAgreement = Fields
        /\ withAgreement.descriptorState = e.descriptorState
        /\ withAgreement.lifespan = e.lifespan
    BY <2>2 DEF Fields
  <2> HIDE DEF withAgreement
  <2> QED BY <2>3, <2>4 DEF Fields
<1> QED BY <1>3, <1>4 DEF Kept, DescriptorParts

\* What was put, read again and changed, is what the descriptor's entry says now.
LEMMA UpdateLeavesCopies ==
  ASSUME LinkInv, OfferInv, InUse, ClientUpdate,
         "agreement" \notin lost', "descriptor" \notin lost', NEW k \in Keys,
         k \in MadeBy(Message(Client)), DescriptorOwed(k)
  PROVE  DescriptorOwed(k)'
<1>a. PICK d : d = agreementEntry.descriptor
  OBVIOUS
<1> DEFINE h == hand[Client]
           g == agreementEntry
           e == tokenEntry[k]
           n == tokenEntry'[k]
           c == catalogEntry[d]
<1>0. /\ Shapes /\ TokenShapes /\ EntriesInv /\ PairInv /\ ClientReads /\ ClientWriter
      /\ Here(g) /\ d \in Descriptors
  BY <1>a, EntryFacts, PairDescriptor DEF LinkInv, PurposeInv, EntriesInv, PairInv, ClientWriter
<1>1. n.here = e.here /\ n.linked = IF Here(h.now.p) THEN TRUE ELSE e.linked
  BY <1>0, UpdateLinks
<1>2. /\ UNCHANGED <<agreementEntry, catalogEntry>> /\ lost \subseteq lost'
      /\ \A x, part : Told(x, part)' => Told(x, part)
      /\ \A part : Unfilled(k, part) /\ Kept(n, part) = Kept(e, part) => Unfilled(k, part)'
  BY <1>0, ClientLeavesOffer
<1>3. /\ h.at = "update" /\ h.round # 1 /\ OvertakenRetrieval(h.before, h.now) \subseteq lost'
      /\ LeftOfBefore(h.before, h.now, n) \subseteq lost'
  <2>1. h.at = "update" /\ h.round # 1
    BY <1>0 DEF ClientUpdate, EntriesInv, AtWork
  <2>2. /\ OvertakenRetrieval(h.before, h.now) \subseteq lost'
        /\ UNION {LeftOfBefore(h.before, h.now, tokenEntry'[x]) : x \in MadeBy(Message(Client))}
             \subseteq lost'
    BY DEF ClientUpdate
  <2> QED BY <2>1, <2>2
<1>4. SUFFICES ASSUME n.here, n.linked, NEW part \in DescriptorParts,
                      ~(part = "lifespan" /\ "lifespan" \in lost')
               PROVE  CopyOwed(k, part)'
  BY DEF DescriptorOwed
<1>5. Pending(k) => Pending(k)'
  <2>1. ~ClientPut
    BY <1>3 DEF ClientPut
  <2> QED BY <1>0, <1>1, <1>4, <2>1, ClientStaysPending
<1>6. Kept(n, part) = IF Here(h.now.c) /\ h.now.c[part] # h.before.c[part] THEN h.now.c[part]
                      ELSE Kept(e, part)
  BY <1>0, UpdateCopies
<1>7. ASSUME ~e.linked
      PROVE  Here(h.now.p) /\ ~Here(h.before.p) /\ h.before.g.descriptor = 0
  <2>1. Here(h.now.p) /\ ~Here(h.before.p) /\ h.before.g = NoAgreement
    BY <1>0, <1>1, <1>3, <1>4, <1>7 DEF ClientReads, Retrieval
  <2> QED BY <2>1 DEF NoAgreement
<1>8. ASSUME e.linked
      PROVE  CopyOwed(k, part)
  BY <1>1, <1>2, <1>4, <1>8 DEF DescriptorOwed
<1>9. ASSUME ~Here(c) \/ Kept(n, part) = c[part]
      PROVE  CopyOwed(k, part)'
  BY <1>a, <1>2, <1>9 DEF CopyOwed
\* What is left as it was, when nothing more is to be found.
<1>10. ASSUME Kept(n, part) = Kept(e, part), e.linked, ~Moved,
              Rereading /\ Kept(e, part) = h.before.c[part] => Kept(e, part) = c[part]
       PROVE  CopyOwed(k, part)'
  <2>1. CASE ~Here(c) \/ Kept(e, part) = c[part]
    BY <1>9, <1>10, <2>1
  <2>2. CASE ~Told(d, part) \/ Unfilled(k, part) \/ Pending(k)
    BY <1>a, <1>2, <1>5, <1>10, <2>2 DEF CopyOwed
  <2>3. \/ ~Here(c) \/ ~Told(d, part) \/ Kept(e, part) = c[part]
        \/ Unfilled(k, part) \/ Pending(k)
    BY <1>a, <1>8, <1>10 DEF CopyOwed
  <2> QED BY <2>1, <2>2, <2>3
<1>11. CASE h.now = h.before
  <2>1. e.linked
    BY <1>7, <1>11
  <2>2. Kept(n, part) = Kept(e, part)
    BY <1>6, <1>11
  <2>3. ~Moved /\ ~Rereading
    BY <1>3, <1>11 DEF Moved, Rereading
  <2> QED BY <1>10, <2>1, <2>2, <2>3
<1>12. CASE h.now # h.before
  <2>1. Overtaken(h.now.g, h.now.c) \subseteq lost'
    BY <1>3, <1>12 DEF OvertakenRetrieval
  <2>2. "descriptor" \notin Overtaken(h.now.g, h.now.c)
    BY <2>1
  <2>3. /\ AgreementData(h.now.g) = AgreementData(g)
        /\ Here(h.now.g) => DescriptorData(h.now.c) = DescriptorData(catalogEntry[h.now.g.descriptor])
    BY <2>2 DEF Overtaken
  <2>4. h.now.g.state = g.state /\ h.now.g.descriptor = d /\ Here(h.now.g)
    BY <1>a, <1>0, <2>3, SamePair DEF Here
  <2>5. h.now.c.state = c.state /\ h.now.c.lifespan = c.lifespan /\ (Here(h.now.c) <=> Here(c))
    BY <2>3, <2>4, SameData
  <2>6. h.now.c[part] = c[part]
    BY <2>5 DEF DescriptorParts
  <2>7. CASE h.before.g.descriptor # d /\ Here(c)
    <3>1. "descriptor" \notin LeftOfBefore(h.before, h.now, n)
      BY <1>3
    <3>2. n.descriptorState = h.now.c.state /\ n.lifespan = h.now.c.lifespan
      BY <2>4, <2>5, <2>7, <3>1 DEF LeftOfBefore
    <3> QED BY <1>9, <2>5, <3>2 DEF Kept, DescriptorParts
  <2>8. CASE h.before.g.descriptor = d /\ Here(c)
    <3>1. e.linked
      <4>1. d # 0
        BY <1>0 DEF Descriptors
      <4> QED BY <1>7, <2>8, <4>1
    <3>2. CASE h.now.c[part] # h.before.c[part]
      BY <1>6, <1>9, <2>5, <2>6, <2>8, <3>2
    <3>3. CASE h.now.c[part] = h.before.c[part]
      <4>1. Kept(n, part) = Kept(e, part)
        BY <1>6, <3>3
      <4>2. ~Moved
        BY <1>a, <1>3, <2>4, <2>8 DEF Moved
      <4> QED BY <1>10, <2>6, <3>1, <3>3, <4>1, <4>2
    <3> QED BY <3>2, <3>3
  <2> QED BY <1>9, <2>7, <2>8
<1> QED BY <1>11, <1>12

\* The entries that the authorization writer makes, retrieves again and deletes.
LEMMA ClientLeavesCopies ==
  ASSUME LinkInv, OfferInv, InUse, ClientWriter, Unborn,
         "agreement" \notin lost', "descriptor" \notin lost', NEW k \in Keys, DescriptorOwed(k)
  PROVE  DescriptorOwed(k)'
<1>0. EntriesInv /\ TokenShapes
  BY DEF LinkInv, PurposeInv, EntriesInv
<1>1. CASE ClientReadPurpose \/ ClientReadAgreement \/ ClientReadCatalog
  BY <1>1, ReadsLeaveCopies
<1>2. CASE (ClientPut \/ ClientUpdate) /\ k \in MadeBy(Message(Client))
  BY <1>2, PutLeavesCopies, UpdateLeavesCopies
<1>3. CASE (ClientPut \/ ClientUpdate) /\ k \notin MadeBy(Message(Client))
  <2>1. tokenEntry'[k] = tokenEntry[k] /\ ~Again(k)
    BY <1>0, <1>3, UpdateLinks DEF ClientPut, Again
  <2> QED BY <1>3, <2>1, ClientRestCopies
<1>4. CASE ClientSkip \/ ClientStore \/ ClientDelete
  <2>1. tokenEntry'[k] = tokenEntry[k] \/ tokenEntry'[k] = NoToken
    BY <1>4 DEF ClientSkip, ClientStore, ClientDelete
  <2>2. ~Again(k)
    <3>1. hand[Client].at \in {"idle", "delete"}
      BY <1>4 DEF ClientSkip, ClientStore, ClientDelete, Takes
    <3>2. hand[Client].at = "idle" => hand[Client].round = 1
      BY <1>0 DEF EntriesInv, AtWork
    <3>3. ASSUME hand[Client].at = "delete", Again(k) PROVE FALSE
      BY <1>0, <3>3, ClientAtWork DEF Again, EntriesInv, AtWork
    <3> QED BY <3>1, <3>2, <3>3 DEF Again
  <2>3. ~ClientPut
    <3>1. hand[Client].at \in {"idle", "delete"}
      BY <1>4 DEF ClientSkip, ClientStore, ClientDelete, Takes
    <3> QED BY <3>1 DEF ClientPut
  <2> QED BY <2>1, <2>2, <2>3, ClientRestCopies
<1> QED BY <1>1, <1>2, <1>3, <1>4 DEF ClientWriter

LEMMA DescriptorStep ==
  ASSUME DescriptorInv, "agreement" \notin lost', [Next]_vars
  PROVE  DescriptorInv'
<1>1. /\ AgreementInv /\ AgreementInv' /\ LinkInv /\ PairInv /\ PairInv' /\ Shapes /\ EntriesInv
      /\ OfferInv /\ InUse /\ Befores
  BY AgreementStep DEF DescriptorInv, AgreementInv, LinkInv, PurposeInv, EntriesInv
<1>2. OfferInv' /\ InUse' /\ Befores' /\ \A d \in Descriptors : Closed(d) => Closed(d)'
  BY <1>1, OfferStep, InUseStep, BeforesStep
<1>3. lost \subseteq lost'
  BY <1>1, KeepsShapes
<1>4. agreementEntry'.descriptor \in Descriptors
  <2> DEFINE g == agreementEntry'
             l == log'[g.id]
  <2>1. g.id \in Agreements /\ g.version \in DOMAIN l /\ g.descriptor = l[1].descriptor
    BY <1>1 DEF PairInv, PairShown
  <2>2. l # <<>>
    <3> HIDE DEF l
    <3> QED BY <2>1
  <2> QED BY <1>2, <2>1, <2>2 DEF InUse
<1>5. PICK d : d = agreementEntry'.descriptor
  OBVIOUS
<1> SUFFICES ASSUME Alive', lost' \cap {"agreement", "descriptor"} = {},
                    ~Closed(d)', NEW k \in Keys
             PROVE  DescriptorOwed(k)'
  BY <1>1, <1>2, <1>5 DEF DescriptorInv
<1>6. Alive /\ Unborn
  BY <1>1, AliveBefore DEF AgreementInv
<1>7. "agreement" \notin lost' /\ "descriptor" \notin lost'
  OBVIOUS
<1>8. ~Closed(d)
  BY <1>2, <1>4, <1>5
<1>9. AgreementOwed(k)'
  BY <1>1, <1>7 DEF AgreementInv
<1>10. agreementEntry'.descriptor = agreementEntry.descriptor =>
         ~Closed(agreementEntry.descriptor) /\ DescriptorOwed(k)
  BY <1>3, <1>5, <1>6, <1>8 DEF DescriptorInv
<1>11. CASE Domain
  BY <1>1, <1>10, <1>11, DomainKeeps, DomainLeavesCopies DEF platform
<1>12. CASE PurposeWriter
  BY <1>1, <1>7, <1>10, <1>12, PurposeFrame, PurposeLeavesCopies
<1>13. CASE CatalogWriter
  BY <1>1, <1>9, <1>10, <1>13, CatalogFrame, CatalogLeavesCopies
<1>14. CASE ClientWriter
  BY <1>1, <1>6, <1>7, <1>10, <1>14, ClientFrame, ClientLeavesCopies
<1>15. ASSUME NEW a \in Agreements, AgreementWriter(a)
       PROVE  DescriptorOwed(k)'
  BY <1>1, <1>7, <1>10, <1>15, AgreementLeavesCopies
<1>16. ASSUME NEW s \in Streams, Crash(s) \/ Redeliver(s)
       PROVE  DescriptorOwed(k)'
  <2>1. agreementEntry' = agreementEntry
    BY <1>16 DEF Crash, Redeliver, platform
  <2> QED BY <1>1, <1>10, <1>16, <2>1, FaultsLeaveCopies
<1>17. CASE UNCHANGED vars
  <2>1. UNCHANGED <<log, pos, agreementEntry, catalogEntry, clientEntry, tokenEntry, hand, lost>>
    BY <1>17 DEF vars, platform
  <2>2. (Pending(k) => Pending(k)') /\ (Again(k) => Again(k)')
    BY <1>1, <2>1, ClientStays DEF ClientSame, Grows
  <2>3. \A part : Told(d, part)' => Told(d, part)
    BY <2>1 DEF Told, Version
  <2> QED BY <1>5, <1>10, <2>1, <2>2, <2>3, OthersLeaveCopies
<1> QED BY <1>11, <1>12, <1>13, <1>14, <1>15, <1>16, <1>17 DEF Next, Consumers

LEMMA DescriptorInit == Init => DescriptorInv
<1> SUFFICES ASSUME Init PROVE DescriptorInv
  OBVIOUS
<1>1. /\ tokenEntry = [k \in Keys |-> NoToken] /\ hand = [s \in Streams |-> Idle]
  BY DEF Init
<1>2. Befores
  BY <1>1 DEF Befores, Idle, NothingRead, ReadFields
<1>3. \A k \in Keys : DescriptorOwed(k)
  BY <1>1 DEF DescriptorOwed, NoToken
<1> QED BY <1>2, <1>3, AgreementInit, OfferInit, InUseInit DEF DescriptorInv

\* The descriptor of the agreement in force, when its agreement's writers are done.
LEMMA DescriptorInForce ==
  ASSUME DescriptorInv, InForce, NEW d, d = AgreementTruth.descriptor
  PROVE  d \in Descriptors /\ DescriptorTruth[d].state \in ItemState /\ ~Closed(d)
<1>1. Courses
  BY DEF DescriptorInv, AgreementInv, LinkInv, PairInv
<1>2. PICK n \in Agreements : Begun(n)
  BY <1>1 DEF Courses
<1>3. /\ AgreementTruth.descriptor = log[n][1].descriptor
      /\ log[n][Len(log[n])].type # "Archived"
  BY <1>1, <1>2, LatestIs
<1>4. log[n] # <<>>
  <2>1. n <= n
    BY StreamsAreDistinct
  <2> QED BY <1>2, <2>1 DEF Begun
<1>5. d \in Descriptors /\ DescriptorTruth[d].state \in ItemState
  BY <1>2, <1>3, <1>4 DEF DescriptorInv, InUse
<1> QED BY <1>5 DEF Closed, ItemState

\* When the e-service's writer is done, the entry of a descriptor in use says what is so.
LEMMA ItemSettled ==
  ASSUME OfferInv, NEW d \in Descriptors, ~Closed(d), DescriptorTruth[d].state \in ItemState,
         hand[EService].at = "idle", pos[EService] = Len(log[EService])
  PROVE  LET c == catalogEntry[d] IN
         /\ Here(c) /\ c.state = DescriptorTruth[d].state /\ c.lifespan = DescriptorTruth[d].lifespan
         /\ c.lifespan \in {1, 2} /\ \A part : Told(d, part)
<1> DEFINE c == catalogEntry[d]
           l == log[EService]
<1>1. /\ Len(l) \in DOMAIN l /\ Len(l) \in Nat \ {0} /\ DOMAIN l = 1..Len(l)
      /\ DescriptorTruth = l[Len(l)].descriptors
  BY OfferedNow DEF OfferInv
<1>2. ItemShown(d) /\ Catalogue(l)
  BY DEF OfferInv
<1>3. Here(c)
  <2>1. \A j \in DOMAIN l : ~(j > pos[EService])
    BY <1>1
  <2>2. DescriptorTruth[d].state # "absent"
    BY DEF ItemState
  <2> QED BY <1>2, <2>1, <2>2 DEF ItemShown
<1>4. \A j \in DOMAIN l : c.version < j /\ j <= Len(l) => l[j].of # d
  BY <1>2, <1>3 DEF ItemShown
<1>5. /\ c.version \in DOMAIN l /\ c.lifespan \in {1, 2}
      /\ \A j \in DOMAIN l :
           /\ c.version <= j
           /\ \A m \in DOMAIN l : c.version < m /\ m <= j => l[m].of # d
           => l[j].descriptors[d].state = c.state /\ l[j].descriptors[d].lifespan = c.lifespan
  BY <1>2, <1>3, ItemFacts
<1>6. c.version <= Len(l)
  BY <1>1, <1>5
<1>7. c.state = l[Len(l)].descriptors[d].state /\ c.lifespan = l[Len(l)].descriptors[d].lifespan
  BY <1>1, <1>4, <1>5, <1>6
<1>8. \A part : Told(d, part)
  <2>1. pos[EService] >= c.version
    BY <1>1, <1>5
  <2> QED BY <2>1 DEF Told
<1> QED BY <1>1, <1>3, <1>5, <1>7, <1>8

\* When all writers are done, the entries show the descriptor of the agreement in force.
LEMMA QuietCopied ==
  ASSUME DescriptorInv, Quiet(Streams), Alive, InForce, lost \cap {"agreement", "descriptor"} = {},
         NEW k \in Keys, tokenEntry[k].here, NEW d, d = AgreementTruth.descriptor
  PROVE  /\ tokenEntry[k].descriptorState = DescriptorTruth[d].state
         /\ DescriptorTruth[d].state \in ItemState
         /\ "lifespan" \in lost \/ tokenEntry[k].lifespan = DescriptorTruth[d].lifespan
         /\ DescriptorTruth[d].lifespan \in {1, 2}
<1> DEFINE c == catalogEntry[d]
           g == agreementEntry
           e == tokenEntry[k]
<1>1. AgreementInv /\ PairInv /\ EntriesInv /\ OfferInv
  BY DEF DescriptorInv, AgreementInv, LinkInv, PurposeInv
<1>2. /\ Quiet({Purpose, Client} \cup Agreements)
      /\ hand[EService].at = "idle" /\ pos[EService] = Len(log[EService])
      /\ hand[Client].at = "idle" /\ pos[Client] = Len(log[Client])
      /\ \A a \in Agreements : pos[a] = Len(log[a])
  BY StreamsAreDistinct DEF Quiet
<1>3. e.linked /\ g.descriptor = d
  <2>1. "agreement" \notin lost
    OBVIOUS
  <2> QED BY <1>1, <1>2, <2>1, QuietShown
<1>4. d \in Descriptors /\ DescriptorTruth[d].state \in ItemState /\ ~Closed(d)
  BY DescriptorInForce
<1>5. /\ Here(c) /\ c.state = DescriptorTruth[d].state /\ c.lifespan = DescriptorTruth[d].lifespan
      /\ c.lifespan \in {1, 2} /\ \A part : Told(d, part)
  BY <1>1, <1>2, <1>4, ItemSettled
<1>6. pos[g.id] >= 1
  <2>1. g.id \in Agreements /\ g.version \in Nat \ {0} /\ g.version <= Len(log[g.id])
    BY <1>1, EntryFacts DEF PairInv
  <2>2. Len(log[g.id]) \in Nat
    BY <1>1, <2>1, CourseFacts DEF PairInv
  <2> QED BY <1>2, <2>1, <2>2
<1>7. ~Pending(k) /\ ~Again(k)
  <2>1. DOMAIN log[Client] = 1..Len(log[Client]) /\ Len(log[Client]) \in Nat
    BY <1>1, StreamFacts
  <2>2. \A j \in DOMAIN log[Client] : ~(j > pos[Client])
    BY <1>2, <2>1
  <2>3. hand[Client].round = 1
    BY <1>1, <1>2 DEF EntriesInv, AtWork
  <2> QED BY <2>2, <2>3 DEF Pending, Ahead, Again
<1>8. ASSUME NEW part \in DescriptorParts, ~(part = "lifespan" /\ "lifespan" \in lost)
      PROVE  Kept(e, part) = c[part]
  <2>1. DescriptorOwed(k)
    BY <1>3, <1>4 DEF DescriptorInv
  <2>2. CopyOwed(k, part)
    BY <1>3, <1>8, <2>1 DEF DescriptorOwed
  <2>3. ~Unfilled(k, part)
    BY <1>6 DEF Unfilled
  <2> QED BY <1>3, <1>5, <1>7, <2>2, <2>3 DEF CopyOwed
<1>9. /\ e.descriptorState = c.state
      /\ "lifespan" \in lost \/ e.lifespan = c.lifespan
  <2>1. e.descriptorState = c.state
    <3>1. "state" \in DescriptorParts /\ "state" # "lifespan"
      BY DEF DescriptorParts
    <3>2. Kept(e, "state") = c["state"]
      BY <1>8, <3>1
    <3> QED BY <3>2 DEF Kept
  <2>2. ASSUME "lifespan" \notin lost
        PROVE  e.lifespan = c.lifespan
    <3>1. "lifespan" \in DescriptorParts
      BY DEF DescriptorParts
    <3>2. Kept(e, "lifespan") = c["lifespan"]
      BY <1>8, <2>2, <3>1
    <3> QED BY <3>2 DEF Kept
  <2> QED BY <2>1, <2>2
<1> QED BY <1>4, <1>5, <1>9

LEMMA DescriptorIsSettled == DescriptorInv => DescriptorSettled
<1> SUFFICES ASSUME DescriptorInv, Quiet(Streams), lost \cap {"agreement", "descriptor"} = {},
                    PurposeTruth \in ItemState, InForce, NEW k \in Keys, tokenEntry[k].here,
                    NEW d, d = AgreementTruth.descriptor
             PROVE  /\ tokenEntry[k].descriptorState = ItemOf(DescriptorTruth[d].state)
                    /\ "lifespan" \in lost \/ tokenEntry[k].lifespan = DescriptorTruth[d].lifespan
  BY DEF DescriptorSettled, Tokens
<1>1. Alive
  BY DEF Alive, ItemState
<1>2. \A x \in ItemState : ItemOf(x) = x
  BY DEF ItemOf, ItemState
<1> QED BY <1>1, <1>2, QuietCopied

\* A token is granted when the purpose, the agreement and its descriptor are active.
LEMMA GrantIsSettled == DescriptorInv /\ PurposeSettled => GrantSettled
<1> SUFFICES ASSUME DescriptorInv, PurposeSettled, Quiet(Streams), lost = {},
                    NEW k \in Keys, tokenEntry[k].here,
                    NEW d, d = AgreementTruth.descriptor
             PROVE  Granted(tokenEntry[k]) <=>
                      /\ PurposeTruth = "active" /\ AgreementTruth.state = "active"
                      /\ DescriptorTruth[d].state = "active"
  BY DEF GrantSettled, Tokens
<1> DEFINE e == tokenEntry[k]
<1>1. (e.purposeState = "active") <=> (PurposeTruth = "active")
  <2>1. Quiet({Purpose, Client}) /\ "purpose" \notin lost
    BY StreamsAreDistinct DEF Quiet
  <2> QED BY <2>1 DEF PurposeSettled, Tokens
<1>2. CASE PurposeTruth # "active"
  BY <1>1, <1>2 DEF Granted
<1>3. CASE PurposeTruth = "active"
  <2>1. Alive
    BY <1>3 DEF Alive
  <2>2. Quiet({Purpose, Client} \cup Agreements) /\ AgreementInv /\ "agreement" \notin lost
        /\ "agreementId" \notin lost
    BY StreamsAreDistinct DEF Quiet, DescriptorInv
  <2>3. /\ \A part \in AgreementParts : Held(e, part) = agreementEntry[part]
        /\ e.linked /\ agreementEntry.state = ItemOf(AgreementTruth.state)
    BY <2>1, <2>2, QuietShown
  <2>4. agreementEntry.id \in Agreements
    BY EntryFacts DEF DescriptorInv, AgreementInv, LinkInv, PairInv
  <2>5. e.agreementState = ItemOf(AgreementTruth.state) /\ e.agreementId # 0
    <3>1. e.agreementState = agreementEntry.state /\ e.agreementId = agreementEntry.id
      BY <2>3 DEF Held, AgreementParts
    <3> QED BY <2>3, <2>4, <3>1 DEF Agreements
  <2>6. (e.agreementState = "active") <=> (AgreementTruth.state = "active")
    BY <2>5 DEF ItemOf
  <2>7. CASE AgreementTruth.state # "active"
    BY <2>6, <2>7 DEF Granted
  <2>8. CASE AgreementTruth.state = "active"
    <3>1. InForce
      BY <2>8 DEF InForce, ItemState
    <3>2. /\ e.descriptorState = DescriptorTruth[d].state
          /\ e.lifespan \in {1, 2}
      BY <2>1, <3>1, QuietCopied
    <3> QED BY <1>1, <1>3, <2>3, <2>5, <2>6, <2>8, <3>2 DEF Granted
  <2> QED BY <2>7, <2>8
<1> QED BY <1>2, <1>3

\* Once the consumers have handled every event, however the calls of the four were interleaved,
\* and however often they stopped or were given old events again, the entries are those of the
\* client's keys, their copies are the states of the purpose, of the latest agreement and of its
\* descriptor, and a token is granted exactly when the three are active, but for the parts that
\* an overtaken copy has left stale.
THEOREM PlatformSettles == Spec => []Settled
<1> DEFINE Inv == Shapes /\ ("agreement" \in lost \/ DescriptorInv)
<1>1. Init => Inv
  BY DescriptorInit DEF DescriptorInv, AgreementInv, LinkInv, PairInv, LatestInv
<1>2. Inv /\ [Next]_vars => Inv'
  BY DescriptorStep, KeepsShapes DEF DescriptorInv
<1>3. EntriesSettled /\ PurposeSettled /\ AgreementSettled /\ Inv => Settled
  <2>1. "agreement" \in lost => DescriptorSettled /\ GrantSettled
    BY DEF DescriptorSettled, GrantSettled
  <2> QED BY <2>1, DescriptorIsSettled, GrantIsSettled DEF Settled
<1> QED
  BY <1>1, <1>2, <1>3, EntriesAreTheKeys, PurposeReachesEntries, AgreementReachesEntries, PTL
     DEF Spec

=============================================================================
