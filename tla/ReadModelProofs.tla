---------------------------- MODULE ReadModelProofs ----------------------------
(* Proofs about the documents a read-model writer keeps, for any number of     *)
(* documents, consumers, events and faults.                                    *)
EXTENDS ReadModelWriter, TLAPS

\* The collection is what the first k events make, with one copy of each.
Shows(k) == docs = [d \in Docs |-> SetToBag(State(k)[d])]

\* Nothing has been published twice, only the owner still has to write, and
\* the documents show the offset committed or the message after it.
InOrder ==
  /\ sent = Len(topic)
  /\ \A i \in DOMAIN topic : topic[i] = i
  /\ inHand[owner] # None => inHand[owner] = committed + 1
  /\ \A c \in Consumers : inHand[c] # None /\ ~written[c] => c = owner
  /\ \E k \in {committed, committed + 1} :
       /\ k <= Len(topic) /\ Shows(k)
       /\ inHand[owner] # None /\ written[owner] => k = committed + 1

Inv ==
  /\ TypeOK
  /\ docs = [d \in Docs |-> docs[d]]
  /\ ~disturbed => InOrder

\* No step loses the newest version of a document but for an event that
\* deletes it.
Kept ==
  \A d \in Docs : \A v \in BagToSet(docs[d]) :
    \/ \E w \in BagToSet(docs'[d]) : w >= v
    \/ \E i \in v..Len(log) : log[i].kind # "upsert" /\ Touches(log[i], d)

-----------------------------------------------------------------------------
(* Bags of versions *)

LEMMA OneCopy == \A v : IsABag(One(v)) /\ BagToSet(One(v)) = {v}
BY DEF One, SetToBag, BagToSet, IsABag

LEMMA NoCopy == IsABag(EmptyBag) /\ BagToSet(EmptyBag) = {}
BY DEF EmptyBag, SetToBag, BagToSet, IsABag

LEMMA OneMore ==
  ASSUME NEW B, IsABag(B), NEW v
  PROVE  IsABag(B (+) One(v)) /\ BagToSet(B (+) One(v)) = BagToSet(B) \cup {v}
BY DEF One, SetToBag, BagToSet, IsABag, (+)

LEMMA OneLess ==
  ASSUME NEW B, IsABag(B), NEW w \in BagToSet(B)
  PROVE  /\ IsABag(B (-) One(w))
         /\ BagToSet(B (-) One(w)) \subseteq BagToSet(B)
         /\ BagToSet(B) \ {w} \subseteq BagToSet(B (-) One(w))
BY DEF One, SetToBag, BagToSet, IsABag, (-)

\* A single copy that is taken away leaves none.
LEMMA NoneLeft == \A w : One(w) (-) One(w) = EmptyBag
BY DEF One, EmptyBag, SetToBag, (-)

LEMMA OnlyOne == \A v : EmptyBag (+) One(v) = One(v)
BY DEF One, EmptyBag, SetToBag, (+)

-----------------------------------------------------------------------------
(* The state of the stream *)

\* A document exists in one version at most.
LEMMA SingleVersion ==
  ASSUME NEW k \in Nat, NEW d \in Docs, NEW v \in State(k)[d], NEW w \in State(k)[d]
  PROVE  v = w
<1>1. \A i \in {v, w} : i \in 1..k /\ log[i].kind = "upsert" /\ log[i].doc = d
  BY DEF State
<1>2. \A i \in {v, w} : \A j \in (i + 1)..k : ~Touches(log[j], d)
  BY DEF State
<1>3. ~(v < w) /\ ~(w < v)
  BY <1>1, <1>2 DEF Touches
<1> QED BY <1>1, <1>3

\* What an event makes of the state before it.
LEMMA NextState ==
  ASSUME NEW v \in Nat \ {0}, NEW d \in Docs
  PROVE  /\ log[v].kind = "upsert" /\ log[v].doc = d => State(v)[d] = {v}
         /\ log[v].kind # "upsert" /\ Touches(log[v], d) => State(v)[d] = {}
         /\ ~Touches(log[v], d) => State(v)[d] = State(v - 1)[d]
<1>1. v - 1 \in Nat /\ 1..v = (1..(v - 1)) \cup {v} /\ (v + 1)..v = {}
  OBVIOUS
<1>2. \A i \in 1..(v - 1) : (i + 1)..v = ((i + 1)..(v - 1)) \cup {v} /\ v \in (i + 1)..v
  OBVIOUS
<1>3. CASE log[v].kind = "upsert" /\ log[v].doc = d
  <2>1. Touches(log[v], d) /\ v \in 1..v
    BY <1>3 DEF Touches
  <2> QED BY <1>1, <1>2, <1>3, <2>1 DEF State
<1>4. CASE log[v].kind # "upsert" /\ Touches(log[v], d)
  BY <1>1, <1>2, <1>4 DEF State
<1>5. CASE ~Touches(log[v], d)
  <2>1. ~(log[v].kind = "upsert" /\ log[v].doc = d)
    BY <1>5 DEF Touches
  <2> QED BY <1>1, <1>2, <1>5, <2>1 DEF State
<1> QED BY <1>3, <1>4, <1>5

LEMMA StateShape ==
  ASSUME NEW k \in Nat, NEW d \in Docs
  PROVE  /\ State(k)[d] \subseteq 1..k
         /\ State(k)[d] = {} \/ \E v \in 1..k : State(k)[d] = {v}
<1>1. State(k)[d] \subseteq 1..k
  BY DEF State
<1> QED BY <1>1, SingleVersion

\* So a document that is shown has one copy, of one version.
LEMMA Copies ==
  ASSUME NEW k \in Nat, NEW d \in Docs, Shows(k)
  PROVE  \/ docs[d] = EmptyBag /\ State(k)[d] = {}
         \/ \E w \in 1..k : docs[d] = One(w) /\ State(k)[d] = {w}
<1>1. docs[d] = SetToBag(State(k)[d])
  BY DEF Shows
<1> QED BY <1>1, StateShape DEF One, EmptyBag

\* A later event is no part of the state before it.
LEMMA StateOfLonger ==
  ASSUME NEW k \in 0..Len(log), NEW ev, log' = Append(log, ev), log \in Seq(Event)
  PROVE  State(k)' = State(k)
<1>1. \A i \in 1..k : log'[i] = log[i]
  OBVIOUS
<1>2. \A i \in 1..k : \A j \in (i + 1)..k : j \in 1..k
  OBVIOUS
<1> QED BY <1>1, <1>2 DEF State, Touches

-----------------------------------------------------------------------------
(* Writing a document.  The three operators are applied to d and v as          *)
(* HandleMessage does.                                                         *)

LEMMA UpsertKeeps ==
  ASSUME TypeOK, docs = [d \in Docs |-> docs[d]],
         NEW d \in Docs, NEW v \in 1..Len(log), Upsert(d, v)
  PROVE  /\ docs' = [e \in Docs |-> docs'[e]]
         /\ \A e \in Docs : IsABag(docs'[e]) /\ BagToSet(docs'[e]) \subseteq 1..Len(log)
         /\ \A e \in Docs : \A u \in BagToSet(docs[e]) : \E w \in BagToSet(docs'[e]) : w >= u
<1> DEFINE B == docs[d]
<1>1. IsABag(B) /\ \A e \in Docs : IsABag(docs[e]) /\ BagToSet(docs[e]) \subseteq 1..Len(log)
  BY DEF TypeOK
<1>2. CASE Upto(v, B) = {}
  <2>1. docs' = [docs EXCEPT ![d] = B (+) One(v)]
    BY <1>2 DEF Upsert
  <2>2. IsABag(B (+) One(v)) /\ BagToSet(B (+) One(v)) = BagToSet(B) \cup {v}
    BY <1>1, OneMore
  <2> QED BY <1>1, <2>1, <2>2
<1>3. CASE Upto(v, B) # {}
  <2>1. PICK w \in Upto(v, B) : docs' = [docs EXCEPT ![d] = (B (-) One(w)) (+) One(v)]
    BY <1>3 DEF Upsert
  <2>2. w \in BagToSet(B) /\ w <= v
    BY DEF Upto
  <2> DEFINE L == B (-) One(w)
  <2>3. IsABag(L) /\ BagToSet(L) \subseteq BagToSet(B) /\ BagToSet(B) \ {w} \subseteq BagToSet(L)
    BY <1>1, <2>2, OneLess
  <2> HIDE DEF L
  <2>4. IsABag(L (+) One(v)) /\ BagToSet(L (+) One(v)) = BagToSet(L) \cup {v}
    BY <2>3, OneMore
  <2>5. docs' = [docs EXCEPT ![d] = L (+) One(v)]
    BY <2>1 DEF L
  <2> QED BY <1>1, <2>2, <2>3, <2>4, <2>5
<1> QED BY <1>2, <1>3

LEMMA DeleteKeeps ==
  ASSUME TypeOK, docs = [d \in Docs |-> docs[d]],
         NEW d \in Docs, NEW v \in 1..Len(log), Delete(d, v)
  PROVE  /\ docs' = [e \in Docs |-> docs'[e]]
         /\ \A e \in Docs : IsABag(docs'[e]) /\ BagToSet(docs'[e]) \subseteq 1..Len(log)
         /\ \A e \in Docs : \A u \in BagToSet(docs[e]) :
              u \in BagToSet(docs'[e]) \/ (e = d /\ u <= v)
<1> DEFINE B == docs[d]
<1>1. IsABag(B) /\ \A e \in Docs : IsABag(docs[e]) /\ BagToSet(docs[e]) \subseteq 1..Len(log)
  BY DEF TypeOK
<1>2. CASE Upto(v, B) = {}
  <2>1. docs' = docs
    BY <1>2 DEF Delete
  <2> QED BY <1>1, <2>1
<1>3. CASE Upto(v, B) # {}
  <2>1. PICK w \in Upto(v, B) : docs' = [docs EXCEPT ![d] = B (-) One(w)]
    BY <1>3 DEF Delete
  <2>2. w \in BagToSet(B) /\ w <= v
    BY DEF Upto
  <2>3. /\ IsABag(B (-) One(w)) /\ BagToSet(B (-) One(w)) \subseteq BagToSet(B)
        /\ BagToSet(B) \ {w} \subseteq BagToSet(B (-) One(w))
    BY <1>1, <2>2, OneLess
  <2> QED BY <1>1, <2>1, <2>2, <2>3
<1> QED BY <1>2, <1>3

LEMMA DeleteAllKeeps ==
  ASSUME TypeOK, NEW v \in 1..Len(log), DeleteAll(v)
  PROVE  /\ docs' = [e \in Docs |-> docs'[e]]
         /\ \A e \in Docs : IsABag(docs'[e]) /\ BagToSet(docs'[e]) \subseteq 1..Len(log)
         /\ \A e \in Docs : \A u \in BagToSet(docs[e]) : u \in BagToSet(docs'[e]) \/ u <= v
<1>1. \A e \in Docs : IsABag(docs[e]) /\ BagToSet(docs[e]) \subseteq 1..Len(log)
  BY DEF TypeOK
<1>2. \A e \in Docs : docs'[e] = [w \in BagToSet(docs[e]) \ Upto(v, docs[e]) |-> docs[e][w]]
  BY DEF DeleteAll
<1>3. \A e \in Docs : BagToSet(docs'[e]) = BagToSet(docs[e]) \ Upto(v, docs[e])
  BY <1>2 DEF BagToSet
<1>4. \A e \in Docs : IsABag(docs'[e])
  BY <1>1, <1>2, <1>3 DEF IsABag, BagToSet
<1>5. docs' = [e \in Docs |-> docs'[e]]
  BY DEF DeleteAll
<1> QED BY <1>1, <1>3, <1>4, <1>5 DEF Upto

-----------------------------------------------------------------------------
(* Writing what the documents should show next, or show already *)

LEMMA UpsertShows ==
  ASSUME docs = [d \in Docs |-> docs[d]], NEW k \in Nat, Shows(k),
         NEW v \in {k, k + 1} \ {0}, NEW d \in Docs,
         log[v].kind = "upsert", log[v].doc = d, Upsert(d, v)
  PROVE  docs' = [e \in Docs |-> SetToBag(State(v)[e])]
<1>0. v \in Nat \ {0}
  OBVIOUS
<1>1. State(v)[d] = {v} /\ SetToBag(State(v)[d]) = One(v)
  <2>1. State(v)[d] = {v}
    BY <1>0, NextState
  <2> QED BY <2>1 DEF One
<1>2. \A e \in Docs \ {d} : State(v)[e] = State(k)[e]
  <2>1. \A e \in Docs \ {d} : ~Touches(log[v], e)
    BY DEF Touches
  <2>2. CASE v = k
    BY <2>2
  <2>3. CASE v = k + 1
    <3>1. v - 1 = k
      BY <2>3
    <3> QED BY <1>0, <2>1, <3>1, NextState
  <2> QED BY <2>2, <2>3
<1>3. docs' = [docs EXCEPT ![d] = One(v)]
  <2>1. CASE docs[d] = EmptyBag
    <3>1. Upto(v, docs[d]) = {}
      BY <2>1, NoCopy DEF Upto
    <3> QED BY <2>1, <3>1, OnlyOne DEF Upsert
  <2>2. ASSUME NEW w \in 1..k, docs[d] = One(w) PROVE docs' = [docs EXCEPT ![d] = One(v)]
    <3>1. Upto(v, docs[d]) = {w}
      BY <2>2, OneCopy DEF Upto
    <3> QED BY <2>2, <3>1, NoneLeft, OnlyOne DEF Upsert
  <2> QED BY <2>1, <2>2, Copies
<1> QED BY <1>1, <1>2, <1>3 DEF Shows

LEMMA DeleteShows ==
  ASSUME docs = [d \in Docs |-> docs[d]], NEW k \in Nat, Shows(k),
         NEW v \in {k, k + 1} \ {0}, NEW d \in Docs,
         log[v].kind = "delete", log[v].doc = d, Delete(d, v)
  PROVE  docs' = [e \in Docs |-> SetToBag(State(v)[e])]
<1>0. v \in Nat \ {0}
  OBVIOUS
<1>1. State(v)[d] = {} /\ SetToBag(State(v)[d]) = EmptyBag
  <2>1. State(v)[d] = {}
    BY <1>0, NextState DEF Touches
  <2> QED BY <2>1 DEF EmptyBag
<1>2. \A e \in Docs \ {d} : State(v)[e] = State(k)[e]
  <2>1. \A e \in Docs \ {d} : ~Touches(log[v], e)
    BY DEF Touches
  <2>2. CASE v = k
    BY <2>2
  <2>3. CASE v = k + 1
    <3>1. v - 1 = k
      BY <2>3
    <3> QED BY <1>0, <2>1, <3>1, NextState
  <2> QED BY <2>2, <2>3
<1>3. docs' = [docs EXCEPT ![d] = EmptyBag]
  <2>1. CASE docs[d] = EmptyBag
    <3>1. Upto(v, docs[d]) = {}
      BY <2>1, NoCopy DEF Upto
    <3> QED BY <2>1, <3>1 DEF Delete
  <2>2. ASSUME NEW w \in 1..k, docs[d] = One(w) PROVE docs' = [docs EXCEPT ![d] = EmptyBag]
    <3>1. Upto(v, docs[d]) = {w}
      BY <2>2, OneCopy DEF Upto
    <3> QED BY <2>2, <3>1, NoneLeft DEF Delete
  <2> QED BY <2>1, <2>2, Copies
<1> QED BY <1>1, <1>2, <1>3 DEF Shows

LEMMA DeleteAllShows ==
  ASSUME NEW k \in Nat, Shows(k), NEW v \in {k, k + 1} \ {0},
         log[v].kind = "deleteAll", DeleteAll(v)
  PROVE  docs' = [e \in Docs |-> SetToBag(State(v)[e])]
<1>1. \A e \in Docs : SetToBag(State(v)[e]) = EmptyBag
  <2>1. v \in Nat \ {0} /\ \A e \in Docs : Touches(log[v], e)
    BY DEF Touches
  <2>2. \A e \in Docs : State(v)[e] = {}
    BY <2>1, NextState
  <2> QED BY <2>2 DEF EmptyBag
<1>2. ASSUME NEW e \in Docs PROVE docs'[e] = EmptyBag
  <2>1. BagToSet(docs[e]) \subseteq 1..k
    <3>1. CASE docs[e] = EmptyBag
      BY <3>1, NoCopy
    <3>2. ASSUME NEW w \in 1..k, docs[e] = One(w) PROVE BagToSet(docs[e]) \subseteq 1..k
      BY <3>2, OneCopy
    <3> QED BY <3>1, <3>2, Copies
  <2>2. BagToSet(docs[e]) \ Upto(v, docs[e]) = {}
    BY <2>1 DEF Upto
  <2> QED BY <2>2 DEF DeleteAll, EmptyBag, SetToBag
<1> QED BY <1>1, <1>2 DEF DeleteAll

-----------------------------------------------------------------------------
(* The steps.  What is handed over is next to be committed, as long as         *)
(* messages are in order.                                                      *)

LEMMA StoreEventStep ==
  ASSUME Inv, NEW ev \in Event, StoreEvent(ev)
  PROVE  Inv'
<1>1. /\ log \in Seq(Event) /\ log' = Append(log, ev) /\ Len(log) < MaxEvents
      /\ MaxEvents \in Nat
  BY BoundsAssumption DEF Inv, TypeOK, StoreEvent
<1>2. log' \in Seq(Event) /\ Len(log') = Len(log) + 1 /\ Len(log) \in Nat
  BY <1>1
<1>3. 1..Len(log) \subseteq 1..Len(log')
  BY <1>2
<1>4. TypeOK'
  <2>1. topic' \in Seq(1..Len(log'))
    BY <1>3 DEF Inv, TypeOK, StoreEvent, kafka
  <2>2. \A d \in Docs : IsABag(docs'[d]) /\ BagToSet(docs'[d]) \subseteq 1..Len(log')
    BY <1>3 DEF Inv, TypeOK, StoreEvent
  <2> QED BY <1>1, <1>2, <2>1, <2>2 DEF Inv, TypeOK, StoreEvent, kafka
<1>5. ~disturbed' => InOrder'
  <2> SUFFICES ASSUME ~disturbed' PROVE InOrder'
    OBVIOUS
  <2>1. InOrder /\ TypeOK
    BY DEF Inv, StoreEvent
  <2>2. PICK k \in {committed, committed + 1} :
          /\ k <= Len(topic) /\ Shows(k)
          /\ inHand[owner] # None /\ written[owner] => k = committed + 1
    BY <2>1 DEF InOrder
  <2>3. k \in 0..Len(log) /\ Len(topic) = sent
    BY <2>1, <2>2 DEF InOrder, TypeOK
  <2>4. State(k)' = State(k)
    BY <1>1, <2>3, StateOfLonger
  <2>5. Shows(k)'
    BY <2>2, <2>4 DEF Shows, StoreEvent
  <2> QED BY <2>1, <2>2, <2>5 DEF InOrder, StoreEvent, kafka
<1> QED BY <1>4, <1>5 DEF Inv, StoreEvent

LEMMA PublishStep ==
  ASSUME Inv, Publish
  PROVE  Inv'
<1>1. /\ TypeOK /\ sent + 1 \in 1..Len(log) /\ topic \in Seq(1..Len(log))
      /\ topic' = Append(topic, sent + 1)
  BY DEF Inv, TypeOK, Publish
<1>2. topic' \in Seq(1..Len(log)) /\ Len(topic') = Len(topic) + 1 /\ Len(topic) \in Nat
  BY <1>1
<1>3. TypeOK'
  <2>1. committed' \in 0..Len(topic') /\ inHand' \in [Consumers -> 0..Len(topic')]
    BY <1>1, <1>2 DEF TypeOK, Publish
  <2> QED BY <1>1, <1>2, <2>1 DEF TypeOK, Publish
<1>4. ~disturbed' => InOrder'
  <2> SUFFICES ASSUME ~disturbed' PROVE InOrder'
    OBVIOUS
  <2>1. InOrder
    BY DEF Inv, Publish
  <2>2. \A i \in DOMAIN topic' : topic'[i] = i
    BY <1>1, <1>2, <2>1 DEF InOrder
  <2>3. PICK k \in {committed, committed + 1} :
          /\ k <= Len(topic) /\ Shows(k)
          /\ inHand[owner] # None /\ written[owner] => k = committed + 1
    BY <2>1 DEF InOrder
  <2>4. k <= Len(topic') /\ Shows(k)'
    BY <1>1, <1>2, <2>3 DEF Shows, State, Publish, TypeOK
  <2>5. sent' = Len(topic')
    BY <1>2, <2>1 DEF Publish, InOrder
  <2> QED BY <2>1, <2>2, <2>3, <2>4, <2>5 DEF InOrder, Publish
<1> QED BY <1>3, <1>4 DEF Inv, Publish

LEMMA RestartConnectorStep ==
  ASSUME Inv, RestartConnector
  PROVE  Inv'
<1>1. TypeOK'
  BY BoundsAssumption DEF Inv, TypeOK, RestartConnector
<1> QED BY <1>1 DEF Inv, RestartConnector

LEMMA ResetOffsetsStep ==
  ASSUME Inv, ResetOffsets
  PROVE  Inv'
<1>1. TypeOK'
  BY BoundsAssumption DEF Inv, TypeOK, ResetOffsets
<1> QED BY <1>1 DEF Inv, ResetOffsets

\* What is left to show of a step that neither stores, publishes nor writes.
LEMMA StillShown ==
  ASSUME NEW k, Shows(k), log' = log, docs' = docs
  PROVE  Shows(k)'
BY DEF Shows, State

LEMMA EachMessageStep ==
  ASSUME Inv, NEW c \in Consumers, EachMessage(c)
  PROVE  Inv'
<1>1. /\ TypeOK /\ committed \in Nat /\ committed + 1 \in 1..Len(topic)
      /\ inHand' = [inHand EXCEPT ![c] = committed + 1]
      /\ written' = [written EXCEPT ![c] = FALSE]
  BY DEF Inv, TypeOK, EachMessage
<1>2. TypeOK'
  <2>1. inHand' \in [Consumers -> 0..Len(topic)] /\ written' \in [Consumers -> BOOLEAN]
    BY <1>1 DEF TypeOK
  <2> QED BY <1>1, <2>1 DEF TypeOK, EachMessage, kafka
<1>3. ~disturbed' => InOrder'
  <2> SUFFICES ASSUME ~disturbed' PROVE InOrder'
    OBVIOUS
  <2>1. InOrder /\ owner = c
    BY DEF Inv, EachMessage
  <2>2. PICK k \in {committed, committed + 1} : k <= Len(topic) /\ Shows(k)
    BY <2>1 DEF InOrder
  <2>3. Shows(k)'
    BY <2>2, StillShown DEF EachMessage
  <2>4. inHand'[c] = committed + 1 /\ ~written'[c]
    BY <1>1 DEF TypeOK
  <2>5. \A d \in Consumers \ {c} : inHand'[d] = inHand[d] /\ written'[d] = written[d]
    BY <1>1 DEF TypeOK
  <2> QED BY <2>1, <2>2, <2>3, <2>4, <2>5 DEF InOrder, EachMessage, kafka
<1> QED BY <1>2, <1>3 DEF Inv, EachMessage

\* The message in hand is an event that was stored.
LEMMA InHandIsEvent ==
  ASSUME TypeOK, NEW c \in Consumers, inHand[c] # None
  PROVE  topic[inHand[c]] \in 1..Len(log) /\ log[topic[inHand[c]]] \in Event
BY DEF TypeOK, None

LEMMA HandleMessageStep ==
  ASSUME Inv, NEW c \in Consumers, HandleMessage(c)
  PROVE  Inv' /\ Kept
<1> DEFINE v == topic[inHand[c]]
           ev == log[v]
<1>1. /\ TypeOK /\ inHand[c] # None /\ ~written[c]
      /\ written' = [written EXCEPT ![c] = TRUE]
      /\ \/ ev.kind = "upsert" /\ Upsert(ev.doc, v)
         \/ ev.kind = "delete" /\ Delete(ev.doc, v)
         \/ ev.kind = "deleteAll" /\ DeleteAll(v)
      /\ log' = log /\ topic' = topic
  BY DEF Inv, HandleMessage, kafka
<1>2. v \in 1..Len(log) /\ ev \in Event
  BY <1>1, InHandIsEvent
<1>3. docs = [d \in Docs |-> docs[d]]
  BY DEF Inv
<1> HIDE DEF v
<1>4. ev.kind # "deleteAll" => ev.doc \in Docs
  BY <1>2 DEF Event
<1>5. /\ docs' = [d \in Docs |-> docs'[d]] /\ Kept
      /\ \A d \in Docs : IsABag(docs'[d]) /\ BagToSet(docs'[d]) \subseteq 1..Len(log)
  <2>0. \A d \in Docs : BagToSet(docs[d]) \subseteq 1..Len(log)
    BY <1>1 DEF TypeOK
  <2>1. CASE ev.kind = "upsert" /\ Upsert(ev.doc, v)
    BY <1>1, <1>2, <1>3, <1>4, <2>1, UpsertKeeps DEF Kept
  <2>2. CASE ev.kind = "delete" /\ Delete(ev.doc, v)
    <3>1. /\ docs' = [d \in Docs |-> docs'[d]]
          /\ \A d \in Docs : IsABag(docs'[d]) /\ BagToSet(docs'[d]) \subseteq 1..Len(log)
          /\ \A d \in Docs : \A u \in BagToSet(docs[d]) :
               u \in BagToSet(docs'[d]) \/ (d = ev.doc /\ u <= v)
      BY <1>1, <1>2, <1>3, <1>4, <2>2, DeleteKeeps
    <3>2. ASSUME NEW d \in Docs, NEW u \in BagToSet(docs[d])
          PROVE  \/ \E w \in BagToSet(docs'[d]) : w >= u
                 \/ \E i \in u..Len(log) : log[i].kind # "upsert" /\ Touches(log[i], d)
      <4>1. CASE u \in BagToSet(docs'[d])
        BY <2>0, <4>1
      <4>2. CASE d = ev.doc /\ u <= v
        <5>1. v \in u..Len(log)
          BY <1>2, <2>0, <4>2
        <5> QED BY <2>2, <4>2, <5>1 DEF Touches
      <4> QED BY <3>1, <4>1, <4>2
    <3> QED BY <3>1, <3>2 DEF Kept
  <2>3. CASE ev.kind = "deleteAll" /\ DeleteAll(v)
    <3>1. /\ docs' = [d \in Docs |-> docs'[d]]
          /\ \A d \in Docs : IsABag(docs'[d]) /\ BagToSet(docs'[d]) \subseteq 1..Len(log)
          /\ \A d \in Docs : \A u \in BagToSet(docs[d]) : u \in BagToSet(docs'[d]) \/ u <= v
      BY <1>1, <1>2, <2>3, DeleteAllKeeps
    <3>2. ASSUME NEW d \in Docs, NEW u \in BagToSet(docs[d])
          PROVE  \/ \E w \in BagToSet(docs'[d]) : w >= u
                 \/ \E i \in u..Len(log) : log[i].kind # "upsert" /\ Touches(log[i], d)
      <4>1. CASE u \in BagToSet(docs'[d])
        BY <2>0, <4>1
      <4>2. CASE u <= v
        <5>1. v \in u..Len(log)
          BY <1>2, <2>0, <4>2
        <5> QED BY <2>3, <5>1 DEF Touches
      <4> QED BY <3>1, <4>1, <4>2
    <3> QED BY <3>1, <3>2 DEF Kept
  <2> QED BY <1>1, <2>1, <2>2, <2>3
<1>6. TypeOK'
  <2>1. written' \in [Consumers -> BOOLEAN]
    BY <1>1 DEF TypeOK
  <2> QED BY <1>1, <1>5, <2>1 DEF TypeOK, HandleMessage, kafka
<1>7. ~disturbed' => InOrder'
  <2> SUFFICES ASSUME ~disturbed' PROVE InOrder'
    OBVIOUS
  <2>1. InOrder
    BY DEF Inv, HandleMessage
  <2>2. c = owner /\ inHand[c] = committed + 1 /\ committed + 1 \in 1..Len(topic)
    BY <1>1, <2>1 DEF InOrder, TypeOK
  <2>3. v = committed + 1
    BY <1>1, <2>1, <2>2 DEF InOrder, TypeOK, v
  <2>4. PICK k \in {committed, committed + 1} : k <= Len(topic) /\ Shows(k)
    BY <2>1 DEF InOrder
  <2>5. k \in Nat /\ v \in {k, k + 1} \ {0}
    BY <1>1, <2>3, <2>4 DEF TypeOK
  <2>6. docs' = [e \in Docs |-> SetToBag(State(v)[e])]
    <3>1. CASE ev.kind = "upsert" /\ Upsert(ev.doc, v)
      BY <1>3, <1>4, <2>4, <2>5, <3>1, UpsertShows
    <3>2. CASE ev.kind = "delete" /\ Delete(ev.doc, v)
      BY <1>3, <1>4, <2>4, <2>5, <3>2, DeleteShows
    <3>3. CASE ev.kind = "deleteAll" /\ DeleteAll(v)
      BY <2>4, <2>5, <3>3, DeleteAllShows
    <3> QED BY <1>1, <3>1, <3>2, <3>3
  <2>7. (docs = [e \in Docs |-> SetToBag(State(committed + 1)[e])])'
    BY <1>1, <2>3, <2>6 DEF State, HandleMessage, kafka
  <2>8. Shows(committed + 1)'
    BY <2>7 DEF Shows
  <2>9. \A d \in Consumers : d # c => written'[d] = written[d]
    BY <1>1 DEF TypeOK
  <2>10. committed' = committed /\ inHand' = inHand /\ owner' = owner /\ sent' = sent /\ topic' = topic
    BY DEF HandleMessage, kafka
  <2> QED BY <2>1, <2>2, <2>8, <2>9, <2>10 DEF InOrder
<1> QED BY <1>5, <1>6, <1>7 DEF Inv

LEMMA CommitOffsetStep ==
  ASSUME Inv, NEW c \in Consumers, CommitOffset(c)
  PROVE  Inv'
<1>1. /\ TypeOK /\ inHand[c] # None /\ written[c]
      /\ inHand' = [inHand EXCEPT ![c] = None]
      /\ committed' = IF c = owner THEN inHand[c] ELSE committed
      /\ UNCHANGED <<log, sent, topic, owner, written, docs, faults, disturbed>>
  BY DEF Inv, CommitOffset
<1>2. TypeOK'
  <2>1. inHand' \in [Consumers -> 0..Len(topic)] /\ committed' \in 0..Len(topic)
    BY <1>1 DEF TypeOK, None
  <2> QED BY <1>1, <2>1 DEF TypeOK
<1>3. \A d \in Consumers : inHand'[d] = IF d = c THEN None ELSE inHand[d]
  BY <1>1 DEF TypeOK
<1>4. ~disturbed' => InOrder'
  <2> SUFFICES ASSUME ~disturbed' PROVE InOrder'
    OBVIOUS
  <2>1. InOrder /\ owner \in Consumers
    BY <1>1 DEF Inv, TypeOK
  <2>2. PICK k \in {committed, committed + 1} :
          /\ k <= Len(topic) /\ Shows(k)
          /\ inHand[owner] # None /\ written[owner] => k = committed + 1
    BY <2>1 DEF InOrder
  <2>3. Shows(k)'
    BY <1>1, <2>2, StillShown
  <2>4. CASE c = owner
    <3>1. committed' = committed + 1 /\ k = committed'
      BY <1>1, <2>1, <2>2, <2>4 DEF InOrder
    <3> QED BY <1>1, <1>3, <2>1, <2>2, <2>3, <2>4, <3>1 DEF InOrder
  <2>5. CASE c # owner
    BY <1>1, <1>3, <2>1, <2>2, <2>3, <2>5 DEF InOrder
  <2> QED BY <2>4, <2>5
<1> QED BY <1>1, <1>2, <1>4 DEF Inv

LEMMA CrashStep ==
  ASSUME Inv, NEW c \in Consumers, Crash(c)
  PROVE  Inv'
<1>1. TypeOK /\ inHand' = [inHand EXCEPT ![c] = None] /\ log' = log /\ docs' = docs
  BY DEF Inv, Crash
<1>2. TypeOK'
  <2>1. inHand' \in [Consumers -> 0..Len(topic)]
    BY <1>1 DEF TypeOK, None
  <2> QED BY <1>1, <2>1, BoundsAssumption DEF TypeOK, Crash, kafka
<1>3. \A d \in Consumers : inHand'[d] = IF d = c THEN None ELSE inHand[d]
  BY <1>1 DEF TypeOK
<1>4. ~disturbed' => InOrder'
  <2> SUFFICES ASSUME ~disturbed' PROVE InOrder'
    OBVIOUS
  <2>1. InOrder /\ owner \in Consumers
    BY <1>1 DEF Inv, TypeOK, Crash
  <2>2. PICK k \in {committed, committed + 1} :
          /\ k <= Len(topic) /\ Shows(k)
          /\ inHand[owner] # None /\ written[owner] => k = committed + 1
    BY <2>1 DEF InOrder
  <2>3. Shows(k)'
    BY <1>1, <2>2, StillShown
  <2> QED BY <1>1, <1>3, <2>1, <2>2, <2>3 DEF InOrder, Crash, kafka
<1> QED BY <1>1, <1>2, <1>4 DEF Inv, Crash

\* The partition is lost with a message applied at most, and whoever gets it
\* has nothing in hand.
LEMMA RebalanceStep ==
  ASSUME Inv, NEW c \in Consumers, Rebalance(c)
  PROVE  Inv'
<1>1. TypeOK /\ log' = log /\ docs' = docs
  BY DEF Inv, Rebalance
<1>2. TypeOK'
  BY <1>1, BoundsAssumption DEF TypeOK, Rebalance
<1>3. ~disturbed' => InOrder'
  <2> SUFFICES ASSUME ~disturbed' PROVE InOrder'
    OBVIOUS
  <2>1. InOrder /\ ~(inHand[owner] # None /\ ~written[owner])
    BY <1>1 DEF Inv, TypeOK, Rebalance
  <2>2. PICK k \in {committed, committed + 1} : k <= Len(topic) /\ Shows(k)
    BY <2>1 DEF InOrder
  <2>3. Shows(k)'
    BY <1>1, <2>2, StillShown
  <2>4. inHand'[owner'] = None
    BY DEF Rebalance
  <2> QED BY <1>1, <2>1, <2>2, <2>3, <2>4 DEF InOrder, Rebalance
<1> QED BY <1>1, <1>2, <1>3 DEF Inv, Rebalance

-----------------------------------------------------------------------------
(* The invariant *)

LEMMA InitInv == Init => Inv
<1> SUFFICES ASSUME Init PROVE Inv
  OBVIOUS
<1>1. TypeOK
  <2>1. log = <<>> /\ topic = <<>> /\ log \in Seq(Event) /\ topic \in Seq(1..Len(log))
    BY DEF Init
  <2>2. Len(log) = 0 /\ Len(topic) = 0
    BY <2>1
  <2>3. \A d \in Docs : IsABag(docs[d]) /\ BagToSet(docs[d]) = {}
    BY NoCopy DEF Init
  <2>4. inHand \in [Consumers -> 0..Len(topic)] /\ written \in [Consumers -> BOOLEAN]
    BY <2>2 DEF Init, None
  <2>5. sent \in 0..Len(log) /\ committed \in 0..Len(topic)
    BY <2>2 DEF Init
  <2>6. owner \in Consumers /\ disturbed \in BOOLEAN
    BY DEF Init
  <2>7. Len(log) <= MaxEvents /\ faults \in 0..MaxFaults
    BY <2>2, BoundsAssumption DEF Init
  <2>8. \A d \in Docs : BagToSet(docs[d]) \subseteq 1..Len(log)
    BY <2>3
  <2> QED BY <2>1, <2>3, <2>4, <2>5, <2>6, <2>7, <2>8 DEF TypeOK
<1>2. docs = [d \in Docs |-> docs[d]]
  BY DEF Init
<1>3. Shows(0)
  <2>1. \A d \in Docs : State(0)[d] = {}
    BY DEF State
  <2> QED BY <2>1 DEF Init, Shows, EmptyBag
<1>4. InOrder
  BY <1>3 DEF Init, InOrder, None
<1> QED BY <1>1, <1>2, <1>4 DEF Inv

LEMMA NextInv == Inv /\ [Next]_vars => Inv' /\ (Kept \/ UNCHANGED docs)
<1> SUFFICES ASSUME Inv, [Next]_vars PROVE Inv' /\ (Kept \/ UNCHANGED docs)
  OBVIOUS
<1>1. ASSUME NEW ev \in Event, StoreEvent(ev) PROVE Inv' /\ UNCHANGED docs
  BY <1>1, StoreEventStep DEF StoreEvent
<1>2. CASE Publish
  BY <1>2, PublishStep DEF Publish
<1>3. CASE RestartConnector
  BY <1>3, RestartConnectorStep DEF RestartConnector
<1>4. CASE ResetOffsets
  BY <1>4, ResetOffsetsStep DEF ResetOffsets
<1>5. ASSUME NEW c \in Consumers, EachMessage(c) PROVE Inv' /\ UNCHANGED docs
  BY <1>5, EachMessageStep DEF EachMessage
<1>6. ASSUME NEW c \in Consumers, HandleMessage(c) PROVE Inv' /\ Kept
  BY <1>6, HandleMessageStep
<1>7. ASSUME NEW c \in Consumers, CommitOffset(c) PROVE Inv' /\ UNCHANGED docs
  BY <1>7, CommitOffsetStep DEF CommitOffset
<1>8. ASSUME NEW c \in Consumers, Crash(c) PROVE Inv' /\ UNCHANGED docs
  BY <1>8, CrashStep DEF Crash
<1>9. ASSUME NEW c \in Consumers, Rebalance(c) PROVE Inv' /\ UNCHANGED docs
  BY <1>9, RebalanceStep DEF Rebalance
<1>10. CASE UNCHANGED vars
  <2>1. TypeOK'
    BY <1>10 DEF vars, Inv, TypeOK
  <2>2. ASSUME NEW k, Shows(k) PROVE Shows(k)'
    BY <1>10, <2>2, StillShown DEF vars
  <2>3. InOrder => InOrder'
    BY <1>10, <2>2 DEF vars, InOrder
  <2> QED BY <1>10, <2>1, <2>3 DEF vars, Inv
<1> QED BY <1>1, <1>2, <1>3, <1>4, <1>5, <1>6, <1>7, <1>8, <1>9, <1>10 DEF Next, Consumer

LEMMA Invariance == Spec => []Inv
<1>1. Init => Inv
  BY InitInv
<1>2. Inv /\ [Next]_vars => Inv'
  BY NextInv
<1> QED BY <1>1, <1>2, PTL DEF Spec

-----------------------------------------------------------------------------
(* Every message is an event that was stored, and documents are bags of their *)
(* versions.                                                                   *)
THEOREM TypeCorrect == Spec => []TypeOK
<1>1. Inv => TypeOK
  BY DEF Inv
<1> QED BY <1>1, Invariance, PTL

(* Through crashes and rebalances between any two steps of runConsumer, as long *)
(* as no message overtakes another, the collection is what the first events of *)
(* the stream make, with one copy of each document.                            *)
THEOREM PastStateShown == Spec => []ReadsAPastState
<1>1. Inv => ReadsAPastState
  <2> SUFFICES ASSUME Inv, ~disturbed
               PROVE  \E k \in 0..Len(log) : docs = [d \in Docs |-> SetToBag(State(k)[d])]
    BY DEF ReadsAPastState
  <2>1. TypeOK /\ InOrder
    BY DEF Inv
  <2>2. PICK k \in {committed, committed + 1} : k <= Len(topic) /\ Shows(k)
    BY <2>1 DEF InOrder
  <2>3. k \in 0..Len(log)
    BY <2>1, <2>2 DEF InOrder, TypeOK
  <2> QED BY <2>2, <2>3 DEF Shows
<1> QED BY <1>1, Invariance, PTL

(* However late, often or by whom a message is handled, the guard on the       *)
(* version in the writers' upserts and deletions keeps the newest version.     *)
THEOREM NewestNeverOverwritten == Spec => NewestKept
<1>1. Inv /\ [Next]_vars =>
        [\A d \in Docs : \A v \in BagToSet(docs[d]) :
           \/ \E w \in BagToSet(docs'[d]) : w >= v
           \/ \E i \in v..Len(log) : log[i].kind # "upsert" /\ Touches(log[i], d)]_vars
  <2> SUFFICES ASSUME Inv, [Next]_vars PROVE Kept \/ UNCHANGED vars
    BY DEF Kept
  <2>1. CASE UNCHANGED docs
    <3>1. \A d \in Docs : \A v \in BagToSet(docs[d]) : v >= v
      BY DEF Inv, TypeOK
    <3> QED BY <2>1, <3>1 DEF Kept
  <2> QED BY <2>1, NextInv
<1> QED BY <1>1, Invariance, PTL DEF Spec, NewestKept
=============================================================================
