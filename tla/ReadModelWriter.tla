--------------------------- MODULE ReadModelWriter ---------------------------
(***************************************************************************)
(* From the event store to the read model: the Debezium connector          *)
(* publishes every row of the events table to Kafka, and the consumers of  *)
(* packages/*-readmodel-writer, run by runConsumer of                      *)
(* packages/kafka-iam-auth, apply them to MongoDB.                         *)
(*                                                                         *)
(* One stream is modelled, since a stream is published to one partition    *)
(* and writers of different streams touch different documents.  Most       *)
(* streams have one document, with the aggregate's identifier; a client's  *)
(* keys are several documents of its stream.                               *)
(***************************************************************************)
EXTENDS Naturals, Sequences, FiniteSets, Bags

CONSTANTS
  Docs,       \* identifiers of the stream's documents
  Consumers,  \* processes of the consumer group
  MaxEvents,  \* bound on the events of the stream
  MaxFaults   \* bound on crashes, rebalances and restarts of the connector

ASSUME BoundsAssumption == MaxEvents \in Nat /\ MaxFaults \in Nat

None == 0

VARIABLES
  log,        \* the stream's events; the version of one is its index
  sent,       \* how far the connector has read the events table
  topic,      \* the partition: versions, as they were published
  committed,  \* the consumer group's offset: the last message it is done with
  owner,      \* the consumer the partition is assigned to
  inHand,     \* consumer -> offset of the message it is handling, or None
  written,    \* consumer -> has it applied the message in hand?
  docs,       \* the collection: document -> the versions of its copies
  faults,     \* how many faults there have been
  disturbed   \* was a message delivered after a later one?

kafka == <<sent, topic, committed, owner>>
vars == <<log, sent, topic, committed, owner, inHand, written, docs, faults, disturbed>>

\* ClientDeleted ends the stream and deletes all of its documents.
Event == [kind: {"upsert", "delete"}, doc: Docs] \cup [kind: {"deleteAll"}]

Touches(ev, d) == ev.kind = "deleteAll" \/ ev.doc = d

\* The documents after the first k events: document -> its version, if it exists.
State(k) ==
  [d \in Docs |->
     {i \in 1..k : /\ log[i].kind = "upsert" /\ log[i].doc = d
                   /\ \A j \in (i + 1)..k : ~Touches(log[j], d)}]

-----------------------------------------------------------------------------
(* The services: events in any order that makes sense (EventLog). *)
StoreEvent(ev) ==
  /\ Len(log) < MaxEvents
  /\ \A i \in DOMAIN log : log[i].kind # "deleteAll"
  /\ ev.kind = "delete" => State(Len(log))[ev.doc] # {}
  /\ log' = Append(log, ev)
  /\ UNCHANGED <<kafka, inHand, written, docs, faults, disturbed>>

(* The connector publishes the next row of the stream. *)
Publish ==
  /\ sent < Len(log)
  /\ sent' = sent + 1
  /\ topic' = Append(topic, sent + 1)
  /\ UNCHANGED <<log, committed, owner, inHand, written, docs, faults, disturbed>>

(* It restarts from an earlier row, because the last ones it published are  *)
(* not yet recorded as such.                                                *)
RestartConnector ==
  /\ faults < MaxFaults
  /\ \E n \in 0..(sent - 1) : sent' = n
  /\ faults' = faults + 1 /\ disturbed' = TRUE
  /\ UNCHANGED <<log, topic, committed, owner, inHand, written, docs>>

-----------------------------------------------------------------------------
(* runConsumer: eachMessage hands over a message, applies it and commits.    *)
EachMessage(c) ==
  /\ c = owner /\ inHand[c] = None
  /\ committed < Len(topic)
  /\ inHand' = [inHand EXCEPT ![c] = committed + 1]
  /\ written' = [written EXCEPT ![c] = FALSE]
  /\ UNCHANGED <<log, kafka, docs, faults, disturbed>>

Upto(v, bag) == {w \in BagToSet(bag) : w <= v}
One(v) == SetToBag({v})

\* Slip: no look at metadata.version.
UpsertAny(d, v) ==
  IF docs[d] = EmptyBag THEN docs' = [docs EXCEPT ![d] = One(v)]
  ELSE \E w \in BagToSet(docs[d]) : docs' = [docs EXCEPT ![d] = (@ (-) One(w)) (+) One(v)]

\* Slip: the version must be newer than the document's.
UpsertNewer(d, v) ==
  IF {w \in BagToSet(docs[d]) : w < v} = {} THEN docs' = [docs EXCEPT ![d] = @ (+) One(v)]
  ELSE \E w \in {w \in BagToSet(docs[d]) : w < v} :
         docs' = [docs EXCEPT ![d] = (@ (-) One(w)) (+) One(v)]

\* updateOne with version <= v and upsert: one match is replaced, or one inserted.
Upsert(d, v) ==
  IF Upto(v, docs[d]) = {} THEN docs' = [docs EXCEPT ![d] = @ (+) One(v)]
  ELSE \E w \in Upto(v, docs[d]) : docs' = [docs EXCEPT ![d] = (@ (-) One(w)) (+) One(v)]

\* Slip: only the event's own version is deleted.
DeleteExact(d, v) == docs' = [docs EXCEPT ![d] = @ (-) One(v)]

\* deleteOne with version <= v.
Delete(d, v) ==
  IF Upto(v, docs[d]) = {} THEN UNCHANGED docs
  ELSE \E w \in Upto(v, docs[d]) : docs' = [docs EXCEPT ![d] = @ (-) One(w)]

\* deleteMany with version <= v.
DeleteAll(v) ==
  docs' = [d \in Docs |-> [w \in BagToSet(docs[d]) \ Upto(v, docs[d]) |-> docs[d][w]]]

(* handleMessageV2 of the writer *)
HandleMessage(c) ==
  /\ inHand[c] # None /\ ~written[c]
  /\ LET v == topic[inHand[c]]
         ev == log[v]
     IN \/ ev.kind = "upsert" /\ Upsert(ev.doc, v)
        \/ ev.kind = "delete" /\ Delete(ev.doc, v)
        \/ ev.kind = "deleteAll" /\ DeleteAll(v)
  /\ written' = [written EXCEPT ![c] = TRUE]
  /\ UNCHANGED <<log, kafka, inHand, faults, disturbed>>

\* Slip: the offset is committed before the message is handled.
CommitOffsetEarly(c) ==
  /\ inHand[c] # None
  /\ committed' = IF c = owner THEN inHand[c] ELSE committed
  /\ inHand' = IF written[c] THEN [inHand EXCEPT ![c] = None] ELSE inHand
  /\ UNCHANGED <<log, sent, topic, owner, written, docs, faults, disturbed>>

(* kafkaCommitMessageOffsets, refused to a consumer that lost the partition. *)
CommitOffset(c) ==
  /\ inHand[c] # None /\ written[c]
  /\ committed' = IF c = owner THEN inHand[c] ELSE committed
  /\ inHand' = [inHand EXCEPT ![c] = None]
  /\ UNCHANGED <<log, sent, topic, owner, written, docs, faults, disturbed>>

(* A handler that fails, or a crash: the process exits and starts again.     *)
Crash(c) ==
  /\ faults < MaxFaults
  /\ inHand[c] # None
  /\ inHand' = [inHand EXCEPT ![c] = None]
  /\ faults' = faults + 1
  /\ UNCHANGED <<log, kafka, written, docs, disturbed>>

(* resetConsumerOffsets: the service starts again from the first message     *)
(* (committed is also where the consumer reads on).                          *)
ResetOffsets ==
  /\ faults < MaxFaults
  /\ \A c \in Consumers : inHand[c] = None
  /\ committed > 0 /\ committed' = 0
  /\ faults' = faults + 1 /\ disturbed' = TRUE
  /\ UNCHANGED <<log, sent, topic, owner, inHand, written, docs>>

(* The partition goes to another consumer, while the previous owner may      *)
(* still be handling a message.                                              *)
Rebalance(c) ==
  /\ faults < MaxFaults
  /\ c # owner /\ inHand[c] = None
  /\ owner' = c
  /\ faults' = faults + 1
  /\ disturbed' = (disturbed \/ (inHand[owner] # None /\ ~written[owner]))
  /\ UNCHANGED <<log, sent, topic, committed, inHand, written, docs>>

-----------------------------------------------------------------------------
Init ==
  /\ log = <<>> /\ sent = 0 /\ topic = <<>> /\ committed = 0
  /\ owner \in Consumers
  /\ inHand = [c \in Consumers |-> None] /\ written = [c \in Consumers |-> FALSE]
  /\ docs = [d \in Docs |-> EmptyBag]
  /\ faults = 0 /\ disturbed = FALSE

Consumer(c) == EachMessage(c) \/ HandleMessage(c) \/ CommitOffset(c) \/ Crash(c) \/ Rebalance(c)

Next ==
  \/ \E ev \in Event : StoreEvent(ev)
  \/ Publish \/ RestartConnector \/ ResetOffsets
  \/ \E c \in Consumers : Consumer(c)

Spec == Init /\ [][Next]_vars

\* The connector and the consumers keep polling.
FairSpec ==
  /\ Spec /\ WF_vars(Publish)
  /\ \A c \in Consumers : WF_vars(EachMessage(c) \/ HandleMessage(c) \/ CommitOffset(c))

-----------------------------------------------------------------------------
(* Type invariant: every message is an event that was stored, and a consumer *)
(* has a message in hand that was published.                                 *)
TypeOK ==
  /\ log \in Seq(Event) /\ Len(log) <= MaxEvents
  /\ sent \in 0..Len(log)
  /\ topic \in Seq(1..Len(log))
  /\ committed \in 0..Len(topic)
  /\ owner \in Consumers
  /\ inHand \in [Consumers -> 0..Len(topic)]
  /\ written \in [Consumers -> BOOLEAN]
  /\ \A d \in Docs : IsABag(docs[d]) /\ BagToSet(docs[d]) \subseteq 1..Len(log)
  /\ faults \in 0..MaxFaults /\ disturbed \in BOOLEAN

(* As long as messages are only delivered again by crashes, whatever the     *)
(* point between handling and commit, the read model is a past state of the  *)
(* stream, with one copy of each document: the lag the services reckon with  *)
(* (StaleReads of CatalogProcess and AgreementProcess) is their only worry.  *)
ReadsAPastState ==
  ~disturbed => \E k \in 0..Len(log) : docs = [d \in Docs |-> SetToBag(State(k)[d])]

(* Whatever is delivered late, again or by a consumer that lost its          *)
(* partition, the newest version of a document is not overwritten by an      *)
(* older one; it only goes with an event that deletes it.                    *)
NewestKept ==
  [][\A d \in Docs : \A v \in BagToSet(docs[d]) :
       \/ \E w \in BagToSet(docs'[d]) : w >= v
       \/ \E i \in v..Len(log) : log[i].kind # "upsert" /\ Touches(log[i], d)]_vars

(* Everything that is stored gets to the read model: undisturbed, it shows   *)
(* the stream's last state in the end; otherwise at least the newest version *)
(* of each document that was not deleted.                                    *)
Converges ==
  <>[](\A d \in Docs : /\ State(Len(log))[d] \subseteq BagToSet(docs[d])
                       /\ ~disturbed => State(Len(log))[d] = BagToSet(docs[d]))
=============================================================================
