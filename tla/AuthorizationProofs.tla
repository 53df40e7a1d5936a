------------------------ MODULE AuthorizationProofs ------------------------
(* Proofs about the clients and keychains, for any number of them and of     *)
(* users, keys and requests, however far the read model lags and however     *)
(* often the removal of an archived purpose breaks off.                      *)
EXTENDS AuthorizationProcess, FiniteSetTheorems, TLAPS

EventRecord == [type: EventType, item: Users \cup Kids \cup {None}, after: Holder]

\* The holder before its i-th event that is not shown yet.
Before(h, i) == IF i = 1 THEN shown[h] ELSE pending[h][i - 1].after

\* What is stored of h is what its events make, one by one, of what is shown.
Chained(h) ==
  /\ \A i \in DOMAIN pending[h] :
       /\ Tells(Before(h, i), pending[h][i])
       /\ Named(Before(h, i), pending[h], i)
       /\ pending[h][i].after.version = shown[h].version + i
  /\ holder[h] = Before(h, Len(pending[h]) + 1)

\* A client whose purpose is to be removed, and what it was when it was listed.
Item == [client: Clients, read: Holder]

\* A client that was read to have the purpose removed is at the version it was
\* read at only if it is still what was read.
AsRead(item) ==
  LET now == holder[item.client] IN
  /\ item.read.present
  /\ item.read.version <= now.version
  /\ item.read.version = now.version => item.read = now

ToUpdate == {removing.todo[i].client : i \in DOMAIN removing.todo}

\* The archived purpose is on its way out of every client that is not late.
Unlinking ==
  /\ removing.running => archival
  /\ archival => purpose = "archived"
  /\ purpose = "archived" /\ ~archival =>
       \A c \in Clients : holder[c].linked => c \in late
  /\ removing.running =>
       \A c \in Clients : holder[c].linked => c \in late \cup ToUpdate

Inv ==
  /\ TypeOK
  /\ \A h \in Holders : Chained(h)
  /\ \A h \in Holders : IsFiniteSet(holder[h].keys) /\ Cardinality(holder[h].keys) <= MaxKeys
  /\ \A i \in DOMAIN removing.todo : AsRead(removing.todo[i])
  /\ Unlinking

-----------------------------------------------------------------------------
(* The streams of events *)

\* A holder's version counts its events.
LEMMA Versions ==
  ASSUME Inv, NEW h \in Holders
  PROVE  /\ pending[h] \in Seq(EventRecord) /\ Len(pending[h]) \in Nat
         /\ DOMAIN pending[h] = 1..Len(pending[h])
         /\ holder[h] \in Holder /\ holder[h].version \in Nat
         /\ shown[h] \in Holder /\ shown[h].version \in Nat
         /\ holder[h] = IF Len(pending[h]) = 0 THEN shown[h] ELSE pending[h][Len(pending[h])].after
         /\ holder[h].version = shown[h].version + Len(pending[h])
<1>1. /\ pending[h] \in Seq(EventRecord)
      /\ holder[h] \in Holder /\ holder[h].version \in Nat
      /\ shown[h] \in Holder /\ shown[h].version \in Nat /\ Chained(h)
  BY DEF Inv, TypeOK, EventRecord, Holder
<1>2. Len(pending[h]) \in Nat /\ DOMAIN pending[h] = 1..Len(pending[h])
  BY <1>1
<1>3. holder[h] = IF Len(pending[h]) = 0 THEN shown[h] ELSE pending[h][Len(pending[h])].after
  BY <1>1, <1>2 DEF Chained, Before
<1>4. CASE Len(pending[h]) > 0
  <2>1. Len(pending[h]) \in DOMAIN pending[h]
    BY <1>2, <1>4
  <2> QED BY <1>1, <1>2, <1>3, <1>4, <2>1 DEF Chained
<1>5. CASE Len(pending[h]) = 0
  BY <1>1, <1>3, <1>5
<1> QED BY <1>1, <1>2, <1>3, <1>4, <1>5

\* A holder that is shown at its version is shown as it is.
LEMMA UpToDate ==
  ASSUME Inv, NEW h \in Holders, shown[h].version = holder[h].version
  PROVE  shown[h] = holder[h]
<1>1. Len(pending[h]) = 0
  BY Versions
<1> QED BY <1>1, Versions

\* Events that follow one another and the holder as it is stored.
Follow(h, events) ==
  /\ events \in Seq(EventRecord) /\ events # <<>>
  /\ \A i \in DOMAIN events :
       /\ Tells(IF i = 1 THEN holder[h] ELSE events[i - 1].after, events[i])
       /\ Named(IF i = 1 THEN holder[h] ELSE events[i - 1].after, events, i)
       /\ events[i].after.version = holder[h].version + i
  /\ IsFiniteSet(Last(events).after.keys)
  /\ Cardinality(Last(events).after.keys) <= MaxKeys

\* Whom an event names does not change with the events stored after it,
LEMMA NamedBefore ==
  ASSUME NEW events \in Seq(EventRecord), NEW more \in Seq(EventRecord), NEW before,
         NEW i \in 1..Len(events), Named(before, events, i)
  PROVE  Named(before, events \o more, i)
<1> DEFINE new == events \o more
<1>1. /\ Len(events) \in Nat /\ Len(more) \in Nat /\ Len(new) = Len(events) + Len(more)
      /\ \A k \in 1..Len(events) : new[k] = events[k]
  OBVIOUS
<1> HIDE DEF new
<1>2. new[i] = events[i]
  BY <1>1
<1> SUFFICES ASSUME events[i].type = "UserAdded",
                    NEW user \in events[i].after.users \ before.users
             PROVE  \E j \in i..Len(new) : new[j].item = user /\ OneBatch(new, i, j)
  BY <1>2 DEF Named, new
<1>3. PICK j \in i..Len(events) : events[j].item = user /\ OneBatch(events, i, j)
  BY DEF Named
<1>4. j \in i..Len(new) /\ j \in 1..Len(events) /\ \A k \in i..j : k \in 1..Len(events)
  BY <1>1
<1>5. OneBatch(new, i, j)
  BY <1>1, <1>2, <1>3, <1>4 DEF OneBatch
<1> QED BY <1>1, <1>3, <1>4, <1>5

\* nor with those before it,
LEMMA NamedAfter ==
  ASSUME NEW events \in Seq(EventRecord), NEW more \in Seq(EventRecord), NEW before,
         NEW i \in 1..Len(more), Named(before, more, i)
  PROVE  Named(before, events \o more, Len(events) + i)
<1> DEFINE new == events \o more
           n == Len(events)
<1>1. /\ n \in Nat /\ Len(more) \in Nat /\ Len(new) = n + Len(more)
      /\ \A k \in 1..Len(more) : new[n + k] = more[k]
  OBVIOUS
<1> HIDE DEF new, n
<1>2. new[n + i] = more[i]
  BY <1>1
<1> SUFFICES ASSUME more[i].type = "UserAdded",
                    NEW user \in more[i].after.users \ before.users
             PROVE  \E j \in (n + i)..Len(new) : new[j].item = user /\ OneBatch(new, n + i, j)
  BY <1>2 DEF Named, new, n
<1>3. PICK j \in i..Len(more) : more[j].item = user /\ OneBatch(more, i, j)
  BY DEF Named
<1>4. n + j \in (n + i)..Len(new) /\ j \in 1..Len(more)
  BY <1>1
<1>5. \A k \in (n + i)..(n + j) : k - n \in i..j /\ k - n \in 1..Len(more) /\ k = n + (k - n)
  BY <1>1, <1>4
<1>6. \A k \in (n + i)..(n + j) : new[k] = more[k - n]
  BY <1>1, <1>5
<1>7. OneBatch(new, n + i, n + j)
  BY <1>2, <1>3, <1>5, <1>6 DEF OneBatch
<1> QED BY <1>1, <1>3, <1>4, <1>7

\* nor when the first event is shown.
LEMMA NamedInTail ==
  ASSUME NEW events \in Seq(EventRecord), NEW before,
         NEW i \in 1..(Len(events) - 1), Named(before, events, i + 1)
  PROVE  Named(before, Tail(events), i)
<1> DEFINE rest == Tail(events)
<1>1. /\ Len(events) \in Nat /\ Len(rest) = Len(events) - 1
      /\ \A k \in 1..(Len(events) - 1) : rest[k] = events[k + 1]
  OBVIOUS
<1> HIDE DEF rest
<1>2. rest[i] = events[i + 1]
  BY <1>1
<1> SUFFICES ASSUME events[i + 1].type = "UserAdded",
                    NEW user \in events[i + 1].after.users \ before.users
             PROVE  \E j \in i..Len(rest) : rest[j].item = user /\ OneBatch(rest, i, j)
  BY <1>2 DEF Named, rest
<1>3. PICK j \in (i + 1)..Len(events) : events[j].item = user /\ OneBatch(events, i + 1, j)
  BY DEF Named
<1>4. j - 1 \in i..Len(rest) /\ j - 1 \in 1..(Len(events) - 1) /\ (j - 1) + 1 = j
  BY <1>1
<1>5. \A k \in i..(j - 1) : k + 1 \in (i + 1)..j /\ k \in 1..(Len(events) - 1)
  BY <1>1, <1>4
<1>6. OneBatch(rest, i, j - 1)
  BY <1>1, <1>2, <1>3, <1>5 DEF OneBatch
<1>7. rest[j - 1] = events[j]
  BY <1>1, <1>4
<1> QED BY <1>3, <1>4, <1>6, <1>7

\* A batch that follows what is stored keeps the stream in order.
LEMMA StoreStep ==
  ASSUME Inv, NEW h \in Holders, NEW events, Follow(h, events),
         NEW readVersion, Store(h, readVersion, events)
  PROVE  /\ holder' \in [Holders -> Holder] /\ shown' \in [Holders -> Holder]
         /\ pending' \in [Holders -> Seq(EventRecord)]
         /\ \A g \in Holders : Chained(g)'
         /\ \A g \in Holders : IsFiniteSet(holder'[g].keys) /\ Cardinality(holder'[g].keys) <= MaxKeys
         /\ \A g \in Holders \ {h} : holder'[g] = holder[g]
         /\ holder'[h] = Last(events).after /\ holder'[h].version > holder[h].version
<1> DEFINE m == Len(events)
           n == Len(pending[h])
           new == pending[h] \o events
<1>1. /\ holder \in [Holders -> Holder] /\ shown \in [Holders -> Holder]
      /\ pending \in [Holders -> Seq(EventRecord)]
  BY DEF Inv, TypeOK, EventRecord
<1>2. /\ events \in Seq(EventRecord) /\ m \in Nat /\ m >= 1 /\ DOMAIN events = 1..m
      /\ pending[h] \in Seq(EventRecord) /\ n \in Nat /\ DOMAIN pending[h] = 1..n
  BY <1>1 DEF Follow
<1>3. /\ new \in Seq(EventRecord) /\ Len(new) = n + m /\ DOMAIN new = 1..(n + m)
      /\ \A i \in 1..n : new[i] = pending[h][i]
      /\ \A i \in 1..m : new[n + i] = events[i]
  BY <1>2
<1>4. /\ holder' = [holder EXCEPT ![h] = events[m].after]
      /\ pending' = [pending EXCEPT ![h] = new]
      /\ shown' = shown
  BY DEF Store, Last
<1> HIDE DEF new
<1>5. events[m] \in EventRecord /\ events[m].after \in Holder
  <2>1. events[m] \in EventRecord
    BY <1>2
  <2> QED BY <2>1 DEF EventRecord
<1>6. /\ holder' \in [Holders -> Holder] /\ shown' \in [Holders -> Holder]
      /\ pending' \in [Holders -> Seq(EventRecord)]
  BY <1>1, <1>3, <1>4, <1>5
<1>7. /\ holder'[h] = events[m].after /\ pending'[h] = new /\ shown'[h] = shown[h]
      /\ \A g \in Holders \ {h} : /\ holder'[g] = holder[g] /\ pending'[g] = pending[g]
                                   /\ shown'[g] = shown[g]
  BY <1>1, <1>4
<1>8. \A g \in Holders \ {h} : Chained(g)'
  <2>1. \A g \in Holders : Chained(g)
    BY DEF Inv
  <2> QED BY <1>7, <2>1 DEF Chained, Before
<1>9. /\ shown[h].version \in Nat /\ holder[h].version \in Nat
      /\ holder[h] = IF n = 0 THEN shown[h] ELSE pending[h][n].after
      /\ holder[h].version = shown[h].version + n
  BY Versions
<1> HIDE DEF n
<1>10. Chained(h)'
  <2>1. ASSUME NEW i \in 1..(n + m)
        PROVE  /\ Tells(IF i = 1 THEN shown[h] ELSE new[i - 1].after, new[i])
               /\ Named(IF i = 1 THEN shown[h] ELSE new[i - 1].after, new, i)
               /\ new[i].after.version = shown[h].version + i
    <3>1. CASE i \in 1..n
      <4>1. i # 1 => new[i - 1] = pending[h][i - 1]
        <5>1. i # 1 => i - 1 \in 1..n
          BY <1>2, <3>1
        <5> QED BY <1>3, <5>1
      <4>2. new[i] = pending[h][i]
        BY <1>3, <3>1
      <4>3. /\ Tells(IF i = 1 THEN shown[h] ELSE pending[h][i - 1].after, pending[h][i])
            /\ Named(IF i = 1 THEN shown[h] ELSE pending[h][i - 1].after, pending[h], i)
            /\ pending[h][i].after.version = shown[h].version + i
        BY <1>2, <3>1 DEF Chained, Before, Inv
      <4> DEFINE b == IF i = 1 THEN shown[h] ELSE pending[h][i - 1].after
      <4>4. b = IF i = 1 THEN shown[h] ELSE new[i - 1].after
        BY <4>1
      <4>5. Named(b, pending[h], i) /\ i \in 1..Len(pending[h])
        BY <1>2, <3>1, <4>3 DEF n
      <4> HIDE DEF b
      <4>6. Named(b, new, i)
        BY <1>2, <4>5, NamedBefore DEF new
      <4> QED BY <4>2, <4>3, <4>4, <4>6 DEF b
    <3>2. CASE i \notin 1..n
      <4>1. PICK j \in 1..m : i = n + j
        <5>1. i - n \in 1..m /\ i = n + (i - n)
          BY <1>2, <3>2
        <5> QED BY <5>1
      <4>2. /\ Tells(IF j = 1 THEN holder[h] ELSE events[j - 1].after, events[j])
            /\ Named(IF j = 1 THEN holder[h] ELSE events[j - 1].after, events, j)
            /\ events[j].after.version = holder[h].version + j
        BY <1>2 DEF Follow
      <4>3. new[i] = events[j]
        BY <1>3, <4>1
      <4>4. (IF i = 1 THEN shown[h] ELSE new[i - 1].after)
              = IF j = 1 THEN holder[h] ELSE events[j - 1].after
        <5>1. CASE j = 1
          <6>1. n = 0 => i = 1
            BY <4>1, <5>1
          <6>2. n # 0 => i # 1 /\ i - 1 = n /\ n \in 1..n
            BY <1>2, <4>1, <5>1
          <6> QED BY <1>2, <1>3, <1>9, <5>1, <6>1, <6>2
        <5>2. CASE j # 1
          <6>1. j - 1 \in 1..m /\ i - 1 = n + (j - 1) /\ i # 1
            BY <1>2, <4>1, <5>2
          <6> QED BY <1>3, <5>2, <6>1
        <5> QED BY <5>1, <5>2
      <4>5. new[i].after.version = shown[h].version + i
        <5>1. events[j].after.version = shown[h].version + n + j
          BY <1>9, <4>2
        <5>2. shown[h].version + n + j = shown[h].version + i
          BY <1>2, <1>9, <4>1
        <5> QED BY <4>3, <5>1, <5>2
      <4> DEFINE b == IF j = 1 THEN holder[h] ELSE events[j - 1].after
      <4>6. b = IF i = 1 THEN shown[h] ELSE new[i - 1].after
        BY <4>4
      <4>7. Named(b, events, j) /\ j \in 1..Len(events) /\ i = Len(pending[h]) + j
        BY <1>2, <4>1, <4>2 DEF n
      <4> HIDE DEF b
      <4>8. Named(b, new, i)
        BY <1>2, <4>7, NamedAfter DEF new
      <4> QED BY <4>2, <4>3, <4>4, <4>5, <4>6, <4>8 DEF b
    <3> QED BY <3>1, <3>2
  <2>2. events[m].after = IF n + m + 1 = 1 THEN shown[h] ELSE new[n + m].after
    BY <1>2, <1>3
  <2>3. (n + m + 1) - 1 = n + m
    BY <1>2
  <2> QED BY <1>3, <1>7, <2>1, <2>2, <2>3 DEF Chained, Before
<1>11. holder'[h].version > holder[h].version
  BY <1>2, <1>7, <1>9 DEF Follow
<1>12. \A g \in Holders : IsFiniteSet(holder'[g].keys) /\ Cardinality(holder'[g].keys) <= MaxKeys
  BY <1>7 DEF Inv, Follow, Last
<1> QED BY <1>6, <1>7, <1>8, <1>10, <1>11, <1>12 DEF Last

LEMMA TodoType ==
  ASSUME Inv
  PROVE  /\ removing \in [running: BOOLEAN, todo: Seq(Item)]
         /\ removing.todo \in Seq(Item)
         /\ \A i \in DOMAIN removing.todo : removing.todo[i] \in Item
<1>1. removing \in [running: BOOLEAN, todo: Seq(Item)]
  BY DEF Inv, TypeOK, Item
<1>2. removing.todo \in Seq(Item)
  BY <1>1
<1> QED BY <1>1, <1>2

\* What was read stays old when a holder gets a new version.
LEMMA ReadsStay ==
  ASSUME Inv, NEW h \in Holders, NEW item \in Item, AsRead(item),
         \A g \in Holders \ {h} : holder'[g] = holder[g],
         holder'[h].version \in Nat, holder'[h].version > holder[h].version
  PROVE  LET now == holder'[item.client] IN
         /\ item.read.present
         /\ item.read.version <= now.version
         /\ item.read.version = now.version => item.read = now
<1>1. item.client \in Holders /\ item.read.version \in Nat
  BY DEF Holders, Holder, Item
<1>2. CASE item.client # h
  BY <1>1, <1>2 DEF AsRead
<1>3. CASE item.client = h
  <2>1. holder[h].version \in Nat
    BY Versions
  <2> QED BY <1>1, <1>3, <2>1 DEF AsRead
<1> QED BY <1>2, <1>3

-----------------------------------------------------------------------------
(* Requests *)

\* A request that makes events follow keeps the invariant, if a client it links
\* to the archived purpose is late.
LEMMA RequestStep ==
  ASSUME Inv, NEW h \in Holders, NEW events, Follow(h, events),
         NEW readVersion, Request(h, readVersion, events),
         late' \subseteq Clients, \A c \in Clients \ {h} : c \in late => c \in late',
         Last(events).after.linked /\ purpose = "archived" /\ h \in Clients
           => h \in late' \/ (holder[h].linked /\ h \notin late)
  PROVE  Inv'
<1>1. /\ Store(h, readVersion, events) /\ requests' = requests + 1
      /\ UNCHANGED <<purpose, purposeShown, agreed, archival, removing, failures>>
  BY DEF Request, surroundings
<1>2. /\ holder' \in [Holders -> Holder] /\ shown' \in [Holders -> Holder]
      /\ pending' \in [Holders -> Seq(EventRecord)]
      /\ \A g \in Holders : Chained(g)'
      /\ \A g \in Holders : IsFiniteSet(holder'[g].keys) /\ Cardinality(holder'[g].keys) <= MaxKeys
      /\ \A g \in Holders \ {h} : holder'[g] = holder[g]
      /\ holder'[h] = Last(events).after /\ holder'[h].version > holder[h].version
  BY <1>1, StoreStep
<1>3. TypeOK'
  <2>1. TypeOK
    BY DEF Inv
  <2>2. requests' \in Nat
    BY <1>1, <2>1 DEF TypeOK
  <2>3. /\ purpose' \in {"draft", "usable", "archived"}
        /\ purposeShown' \in {"draft", "usable", "archived"}
        /\ agreed' \in BOOLEAN /\ archival' \in BOOLEAN /\ failures' \in Nat
        /\ removing' \in [running: BOOLEAN, todo: Seq(Item)]
    BY <1>1, <2>1 DEF TypeOK, Item
  <2> QED BY <1>2, <2>2, <2>3 DEF TypeOK, EventRecord, Item
<1>4. \A i \in DOMAIN removing.todo : AsRead(removing.todo[i])'
  <2>2. \A i \in DOMAIN removing.todo : removing.todo[i] \in Item /\ AsRead(removing.todo[i])
    BY TodoType DEF Inv
  <2>3. holder'[h].version \in Nat
    BY <1>2 DEF Holder
  <2>4. \A i \in DOMAIN removing.todo : AsRead(removing.todo[i])'
    <3> SUFFICES ASSUME NEW i \in DOMAIN removing.todo PROVE AsRead(removing.todo[i])'
      OBVIOUS
    <3> DEFINE item == removing.todo[i]
    <3>1. item \in Item /\ AsRead(item) /\ item' = item
      BY <1>1, <2>2
    <3> HIDE DEF item
    <3>2. LET now == holder'[item.client] IN
          /\ item.read.present /\ item.read.version <= now.version
          /\ item.read.version = now.version => item.read = now
      BY <1>2, <2>3, <3>1, ReadsStay
    <3> QED BY <1>1, <3>2 DEF AsRead, item
  <2> QED BY <2>4
<1>5. Unlinking'
  <2>1. \A c \in Clients : holder'[c].linked /\ purpose = "archived" =>
          c \in late' \/ (holder[c].linked /\ c \notin late)
    <3>1. Clients \subseteq Holders
      BY DEF Holders
    <3> QED BY <1>2, <3>1
  <2>2. ToUpdate' = ToUpdate
    BY <1>1 DEF ToUpdate
  <2> QED BY <1>1, <2>1, <2>2 DEF Inv, Unlinking
<1> QED BY <1>1, <1>2, <1>3, <1>4, <1>5 DEF Inv

\* The requests that store one event: what they read is the holder as it is.
LEMMA UpdateStep ==
  ASSUME Inv, NEW h \in Holders, NEW type \in EventType \ {"Added", "UserAdded"},
         NEW item \in Users \cup Kids \cup {None}, NEW after \in Holder,
         Update(h, type, item, after),
         shown[h] = holder[h] /\ shown[h].present =>
           /\ Tells(holder[h], Event(type, item, after))
           /\ IsFiniteSet(after.keys) /\ Cardinality(after.keys) <= MaxKeys,
         late' \subseteq Clients, \A c \in Clients \ {h} : c \in late => c \in late',
         shown[h] = holder[h] /\ after.linked /\ purpose = "archived" /\ h \in Clients
           => h \in late' \/ (holder[h].linked /\ h \notin late)
  PROVE  Inv'
<1> DEFINE event == Event(type, item, after)
<1>1. event \in EventRecord /\ event.after = after
  BY DEF Event, EventRecord
<1>2. Request(h, shown[h].version, <<event>>) /\ shown[h].present
  BY DEF Update
<1>3. shown[h] = holder[h]
  BY <1>2, UpToDate DEF Request, Store
<1>4. Tells(holder[h], event)
  BY <1>2, <1>3
<1>8. event.type # "UserAdded"
  BY DEF Event
<1> HIDE DEF event
<1>5. /\ <<event>> \in Seq(EventRecord) /\ DOMAIN <<event>> = {1} /\ <<event>>[1] = event
      /\ <<event>> # <<>> /\ Last(<<event>>) = event
  BY <1>1 DEF Last
<1>6. event.after.version = holder[h].version + 1
  BY <1>4 DEF Tells
<1>7. Follow(h, <<event>>)
  BY <1>1, <1>2, <1>3, <1>4, <1>5, <1>6, <1>8 DEF Follow, Named
<1> QED BY <1>1, <1>2, <1>3, <1>5, <1>7, RequestStep

\* A holder with one part of it replaced.
LEMMA HolderWith ==
  ASSUME NEW x \in Holder, NEW v
  PROVE  /\ [x EXCEPT !.version = v]
              = [version |-> v, present |-> x.present, users |-> x.users, keys |-> x.keys,
                 linked |-> x.linked]
         /\ [x EXCEPT !.users = v]
              = [version |-> x.version, present |-> x.present, users |-> v, keys |-> x.keys,
                 linked |-> x.linked]
         /\ [x EXCEPT !.keys = v]
              = [version |-> x.version, present |-> x.present, users |-> x.users, keys |-> v,
                 linked |-> x.linked]
         /\ [x EXCEPT !.linked = v]
              = [version |-> x.version, present |-> x.present, users |-> x.users, keys |-> x.keys,
                 linked |-> v]
  BY DEF Holder

\* What is shown of a holder, with its next version and some of it replaced.
LEMMA SuccessorShape ==
  ASSUME Inv, NEW h \in Holders, NEW v
  PROVE  LET r == shown[h] IN
         /\ [Successor(h) EXCEPT !.users = v]
              = [version |-> r.version + 1, present |-> r.present, users |-> v,
                 keys |-> r.keys, linked |-> r.linked]
         /\ [Successor(h) EXCEPT !.keys = v]
              = [version |-> r.version + 1, present |-> r.present, users |-> r.users,
                 keys |-> v, linked |-> r.linked]
         /\ [Successor(h) EXCEPT !.linked = v]
              = [version |-> r.version + 1, present |-> r.present, users |-> r.users,
                 keys |-> r.keys, linked |-> v]
         /\ Successor(h).users = r.users /\ Successor(h).keys = r.keys
<1>1. shown[h] \in Holder /\ shown[h].version + 1 \in Nat
  BY Versions
<1>2. Successor(h) = [version |-> shown[h].version + 1, present |-> shown[h].present,
                      users |-> shown[h].users, keys |-> shown[h].keys, linked |-> shown[h].linked]
  BY <1>1, HolderWith DEF Successor
<1>3. /\ Successor(h) \in Holder
      /\ Successor(h).version = shown[h].version + 1 /\ Successor(h).present = shown[h].present
      /\ Successor(h).users = shown[h].users /\ Successor(h).keys = shown[h].keys
      /\ Successor(h).linked = shown[h].linked
  BY <1>1, <1>2 DEF Holder
<1> DEFINE x == Successor(h)
<1>4. /\ x \in Holder /\ x.version = shown[h].version + 1 /\ x.present = shown[h].present
      /\ x.users = shown[h].users /\ x.keys = shown[h].keys /\ x.linked = shown[h].linked
  BY <1>3
<1> HIDE DEF x
<1>5. /\ [x EXCEPT !.users = v]
           = [version |-> x.version, present |-> x.present, users |-> v, keys |-> x.keys,
              linked |-> x.linked]
      /\ [x EXCEPT !.keys = v]
           = [version |-> x.version, present |-> x.present, users |-> x.users, keys |-> v,
              linked |-> x.linked]
      /\ [x EXCEPT !.linked = v]
           = [version |-> x.version, present |-> x.present, users |-> x.users, keys |-> x.keys,
              linked |-> v]
  BY <1>4, HolderWith
<1> QED BY <1>3, <1>4, <1>5 DEF x

LEMMA ShownShape ==
  ASSUME Inv, NEW h \in Holders
  PROVE  /\ shown[h].version \in Nat /\ shown[h].present \in BOOLEAN
         /\ shown[h].users \in SUBSET Users /\ shown[h].keys \in SUBSET Key
         /\ shown[h].linked \in BOOLEAN
         /\ late \subseteq Clients
         /\ shown[h] = holder[h] =>
              IsFiniteSet(shown[h].keys) /\ Cardinality(shown[h].keys) <= MaxKeys
<1>1. shown[h] \in Holder /\ late \subseteq Clients
  BY Versions DEF Inv, TypeOK
<1> QED BY <1>1 DEF Holder, Inv

LEMMA CreateStep ==
  ASSUME Inv, NEW h \in Holders, NEW members \in SUBSET Users, Create(h, members)
  PROVE  Inv'
<1> DEFINE after == Created(members)
           event == Event("Added", None, after)
<1>1. after \in Holder /\ after.version = 1 /\ after.keys = {} /\ after.linked = FALSE
  BY DEF Created, Holder
<1> HIDE DEF after
<1>2. event \in EventRecord /\ event.type = "Added" /\ event.after = after
  BY <1>1 DEF Event, EventRecord, EventType
<1>3. holder[h].version = 0 /\ Request(h, 0, <<event>>) /\ late' = late
  BY DEF Create, after
<1> HIDE DEF event
<1>4. Tells(holder[h], event) /\ event.after.version = holder[h].version + 1
  BY <1>1, <1>2, <1>3 DEF Tells
<1>5. /\ <<event>> \in Seq(EventRecord) /\ DOMAIN <<event>> = {1} /\ <<event>>[1] = event
      /\ <<event>> # <<>> /\ Last(<<event>>) = event
  BY <1>2 DEF Last
<1>6. IsFiniteSet(after.keys) /\ Cardinality(after.keys) <= MaxKeys
  BY <1>1, FS_EmptySet, ConstantsAssumption
<1>7. Follow(h, <<event>>)
  BY <1>2, <1>4, <1>5, <1>6 DEF Follow, Named
<1>8. late \subseteq Clients
  BY DEF Inv, TypeOK
<1> QED BY <1>1, <1>2, <1>3, <1>5, <1>7, <1>8, RequestStep

LEMMA DeleteStep ==
  ASSUME Inv, NEW h \in Holders, Delete(h)
  PROVE  Inv'
<1> DEFINE after == [Absent EXCEPT !.version = shown[h].version + 1]
<1>1. after = [version |-> shown[h].version + 1, present |-> FALSE, users |-> {}, keys |-> {},
               linked |-> FALSE]
  <2>1. Absent \in Holder
    BY DEF Absent, Holder
  <2>2. Absent.present = FALSE /\ Absent.users = {} /\ Absent.keys = {} /\ Absent.linked = FALSE
    BY DEF Absent
  <2> DEFINE x == Absent
             v == shown[h].version + 1
  <2>3. x \in Holder /\ x.present = FALSE /\ x.users = {} /\ x.keys = {} /\ x.linked = FALSE
    BY <2>1, <2>2
  <2> HIDE DEF x, v
  <2>4. [x EXCEPT !.version = v]
          = [version |-> v, present |-> x.present, users |-> x.users, keys |-> x.keys,
             linked |-> x.linked]
    BY <2>3, HolderWith
  <2> QED BY <2>3, <2>4 DEF x, v
<1>2. Update(h, "Deleted", None, after) /\ late' = late \ {h} /\ late \subseteq Clients
  BY ShownShape DEF Delete
<1> HIDE DEF after
<1>3. after \in Holder /\ ~after.linked
  BY <1>1, ShownShape DEF Holder
<1>4. IsFiniteSet(after.keys) /\ Cardinality(after.keys) <= MaxKeys
  BY <1>1, FS_EmptySet, ConstantsAssumption
<1>5. shown[h] = holder[h] /\ shown[h].present => Tells(holder[h], Event("Deleted", None, after))
  BY <1>1 DEF Tells, Event
<1>6. "Deleted" \in EventType \ {"Added"}
  BY DEF EventType
<1> QED BY <1>2, <1>3, <1>4, <1>5, <1>6, UpdateStep

LEMMA RemoveUserStep ==
  ASSUME Inv, NEW h \in Holders, NEW user \in Users, RemoveUser(h, user)
  PROVE  Inv'
<1> DEFINE after == [Successor(h) EXCEPT !.users = @ \ {user}]
<1>1. after = [version |-> shown[h].version + 1, present |-> shown[h].present,
               users |-> shown[h].users \ {user}, keys |-> shown[h].keys, linked |-> shown[h].linked]
  <2> DEFINE v == Successor(h).users \ {user}
  <2>1. v = shown[h].users \ {user}
    BY SuccessorShape
  <2>2. after = [Successor(h) EXCEPT !.users = v]
    OBVIOUS
  <2> HIDE DEF v, after
  <2> QED BY <2>1, <2>2, SuccessorShape
<1>2. Update(h, "UserDeleted", user, after) /\ late' = late
  BY DEF RemoveUser
<1> HIDE DEF after
<1>3. after \in Holder
  BY <1>1, ShownShape DEF Holder
<1>4. shown[h] = holder[h] => IsFiniteSet(after.keys) /\ Cardinality(after.keys) <= MaxKeys
  BY <1>1, ShownShape
<1>5. shown[h] = holder[h] /\ shown[h].present => Tells(holder[h], Event("UserDeleted", user, after))
  BY <1>1 DEF Tells, Event
<1>6. "UserDeleted" \in EventType \ {"Added"}
  BY DEF EventType
<1>7. shown[h] = holder[h] /\ after.linked => h \in late \/ (holder[h].linked /\ h \notin late)
  BY <1>1
<1> QED BY <1>2, <1>3, <1>4, <1>5, <1>6, <1>7, ShownShape, UpdateStep

LEMMA LinkStep ==
  ASSUME Inv, NEW h \in Holders, NEW type \in {"LinkAdded", "LinkRemoved"},
         Update(h, type, None, [Successor(h) EXCEPT !.linked = (type = "LinkAdded")]),
         late' \subseteq Clients, \A c \in Clients \ {h} : c \in late => c \in late',
         type = "LinkAdded" /\ purpose = "archived" /\ h \in Clients => h \in late'
  PROVE  Inv'
<1> DEFINE linked == (type = "LinkAdded")
           after == [Successor(h) EXCEPT !.linked = linked]
<1>0. linked \in BOOLEAN
  OBVIOUS
<1>1. after = [version |-> shown[h].version + 1, present |-> shown[h].present,
               users |-> shown[h].users, keys |-> shown[h].keys, linked |-> linked]
  <2> HIDE DEF linked
  <2> QED BY SuccessorShape
<1>2. Update(h, type, None, after)
  OBVIOUS
<1> HIDE DEF after
<1>3. after \in Holder /\ after.linked = linked
  BY <1>0, <1>1, ShownShape DEF Holder
<1>4. shown[h] = holder[h] => IsFiniteSet(after.keys) /\ Cardinality(after.keys) <= MaxKeys
  BY <1>1, ShownShape
<1>5. shown[h] = holder[h] /\ shown[h].present => Tells(holder[h], Event(type, None, after))
  BY <1>1 DEF Tells, Event
<1>6. type \in EventType \ {"Added"}
  BY DEF EventType
<1> QED BY <1>2, <1>3, <1>4, <1>5, <1>6, UpdateStep

LEMMA CreateKeyStep ==
  ASSUME Inv, NEW h \in Holders, NEW kid \in Kids, NEW user \in Users, CreateKey(h, kid, user)
  PROVE  Inv'
<1> DEFINE key == [kid |-> kid, user |-> user]
           keys == shown[h].keys \cup {key}
           after == [Successor(h) EXCEPT !.keys = @ \cup {key}]
<1>0. key \in Key /\ key.kid = kid
  BY DEF Key
<1>2. Update(h, "KeyAdded", kid, after) /\ late' = late
  BY DEF CreateKey
<1> HIDE DEF key
<1>1. after = [version |-> shown[h].version + 1, present |-> shown[h].present,
               users |-> shown[h].users, keys |-> keys, linked |-> shown[h].linked]
  BY SuccessorShape
<1> HIDE DEF after
<1>3. after \in Holder
  BY <1>0, <1>1, ShownShape DEF Holder
<1>4. shown[h] = holder[h] => IsFiniteSet(after.keys) /\ Cardinality(after.keys) <= MaxKeys
  <2>1. SUFFICES ASSUME shown[h] = holder[h]
                 PROVE  IsFiniteSet(keys) /\ Cardinality(keys) <= MaxKeys
    BY <1>1
  <2>2. IsFiniteSet(shown[h].keys) /\ Cardinality(shown[h].keys) + 1 <= MaxKeys
    BY <2>1, ShownShape DEF CreateKey, BelowThreshold
  <2>3. /\ IsFiniteSet(keys)
        /\ Cardinality(keys) = Cardinality(shown[h].keys) \/ Cardinality(keys) = Cardinality(shown[h].keys) + 1
    BY <2>2, FS_AddElement
  <2>4. Cardinality(shown[h].keys) \in Nat /\ MaxKeys \in Nat
    BY <2>2, FS_CardinalityType, ConstantsAssumption
  <2> HIDE DEF keys
  <2> QED BY <2>2, <2>3, <2>4
<1>5. shown[h] = holder[h] /\ shown[h].present => Tells(holder[h], Event("KeyAdded", kid, after))
  <2>1. \A k \in shown[h].keys : k.kid # kid
    BY DEF CreateKey, KeyExists
  <2>2. {k \in keys : k.kid # kid} = shown[h].keys
    BY <1>0, <2>1
  <2> QED BY <1>1, <2>1, <2>2 DEF Tells, Event
<1>6. "KeyAdded" \in EventType \ {"Added"}
  BY DEF EventType
<1>7. shown[h] = holder[h] /\ after.linked => h \in late \/ (holder[h].linked /\ h \notin late)
  BY <1>1
<1> QED BY <1>2, <1>3, <1>4, <1>5, <1>6, <1>7, ShownShape, UpdateStep

LEMMA DeleteKeyStep ==
  ASSUME Inv, NEW h \in Holders, NEW kid \in Kids, NEW user \in Users, NEW security \in BOOLEAN,
         DeleteKey(h, kid, user, security)
  PROVE  Inv'
<1> DEFINE keys == {key \in shown[h].keys : key.kid # kid}
           after == [Successor(h) EXCEPT !.keys = {key \in @ : key.kid # kid}]
<1>1. after = [version |-> shown[h].version + 1, present |-> shown[h].present,
               users |-> shown[h].users, keys |-> keys, linked |-> shown[h].linked]
  BY SuccessorShape
<1>2. Update(h, "KeyDeleted", kid, after) /\ late' = late
  BY DEF DeleteKey
<1> HIDE DEF after
<1>3. after \in Holder
  BY <1>1, ShownShape DEF Holder
<1>4. shown[h] = holder[h] => IsFiniteSet(after.keys) /\ Cardinality(after.keys) <= MaxKeys
  <2>1. SUFFICES ASSUME shown[h] = holder[h]
                 PROVE  IsFiniteSet(keys) /\ Cardinality(keys) <= MaxKeys
    BY <1>1
  <2>2. IsFiniteSet(shown[h].keys) /\ Cardinality(shown[h].keys) <= MaxKeys
    BY <2>1, ShownShape
  <2>3. IsFiniteSet(keys) /\ Cardinality(keys) <= Cardinality(shown[h].keys)
    BY <2>2, FS_Subset
  <2>4. Cardinality(shown[h].keys) \in Nat /\ Cardinality(keys) \in Nat /\ MaxKeys \in Nat
    BY <2>2, <2>3, FS_CardinalityType, ConstantsAssumption
  <2> HIDE DEF keys
  <2> QED BY <2>2, <2>3, <2>4
<1>5. shown[h] = holder[h] /\ shown[h].present => Tells(holder[h], Event("KeyDeleted", kid, after))
  BY <1>1 DEF Tells, Event
<1>6. "KeyDeleted" \in EventType \ {"Added"}
  BY DEF EventType
<1>7. shown[h] = holder[h] /\ after.linked => h \in late \/ (holder[h].linked /\ h \notin late)
  BY <1>1
<1> QED BY <1>2, <1>3, <1>4, <1>5, <1>6, <1>7, ShownShape, UpdateStep

LEMMA UserAddedTells ==
  ASSUME NEW before, NEW event, event.type = "UserAdded", before.present,
         event.after.version = before.version + 1,
         before.users \cup {event.item} \subseteq event.after.users,
         event.after.keys = before.keys, event.after.linked = before.linked
  PROVE  Tells(before, event)
BY DEF Tells

\* The events of a batch follow one another, one user each, in any order.
LEMMA AddUsersStep ==
  ASSUME Inv, NEW h \in Holders, NEW users \in SUBSET Users, AddUsers(h, users)
  PROVE  Inv'
<1> DEFINE r == shown[h]
           n == Cardinality(users)
<1>1. PICK order \in SetToSeqs(users) : Request(h, r.version, UserAddedEvents(h, order))
  BY DEF AddUsers
<1>2. n \in Nat /\ n >= 1
  <2>1. IsFiniteSet(users)
    BY ConstantsAssumption, FS_Subset
  <2>2. n \in Nat /\ n # 0
    BY <2>1, FS_CardinalityType, FS_EmptySet DEF AddUsers
  <2> QED BY <2>2
<1>3. order \in [1..n -> users] /\ DOMAIN order = 1..n
  BY DEF SetToSeqs
<1>4. r = holder[h] /\ r \in Holder /\ r.present /\ late' = late
  BY <1>1, UpToDate, Versions DEF Request, Store, AddUsers
<1> HIDE DEF n, r
<1> DEFINE all == r.users \cup {order[j] : j \in 1..n}
           After(i) == [version |-> r.version + i, present |-> r.present, users |-> all,
                        keys |-> r.keys, linked |-> r.linked]
           events == UserAddedEvents(h, order)
<1>6. /\ all \subseteq Users /\ r.users \subseteq all /\ \A i \in 1..n : order[i] \in all
      /\ \A i \in 1..n : r.version + i \in Nat
      /\ \A user \in all \ r.users : \E j \in 1..n : order[j] = user
  BY <1>2, <1>3, <1>4 DEF Holder
<1> HIDE DEF all
<1>5. events = [i \in 1..n |-> Event("UserAdded", order[i], After(i))]
  <2>1. \A i \in 1..n : [r EXCEPT !.version = @ + i, !.users = all] = After(i)
    <3> SUFFICES ASSUME NEW i \in 1..n
                 PROVE  [r EXCEPT !.version = @ + i, !.users = all] = After(i)
      OBVIOUS
    <3> DEFINE v == r.version + i
    <3>0. v \in Nat
      BY <1>2, <1>4 DEF Holder
    <3>1. After(i) = [version |-> v, present |-> r.present, users |-> all, keys |-> r.keys,
                      linked |-> r.linked]
      OBVIOUS
    <3> HIDE DEF v, After
    <3>2. [r EXCEPT !.version = v, !.users = all] = After(i)
      <4> DEFINE y == [r EXCEPT !.version = v]
      <4>1. y = [version |-> v, present |-> r.present, users |-> r.users, keys |-> r.keys,
                 linked |-> r.linked]
        BY <1>4, HolderWith
      <4>2. [r EXCEPT !.version = v, !.users = all] = [y EXCEPT !.users = all]
        OBVIOUS
      <4> HIDE DEF y
      <4>3. /\ y \in Holder /\ y.version = v /\ y.present = r.present /\ y.keys = r.keys
            /\ y.linked = r.linked
        BY <1>4, <3>0, <4>1 DEF Holder
      <4>4. [y EXCEPT !.users = all]
              = [version |-> y.version, present |-> y.present, users |-> all, keys |-> y.keys,
                 linked |-> y.linked]
        BY <4>3, HolderWith
      <4> QED BY <3>1, <4>2, <4>3, <4>4
    <3> QED BY <3>2 DEF v
  <2>2. events = [i \in 1..n |->
                   Event("UserAdded", order[i], [r EXCEPT !.version = @ + i, !.users = all])]
    <3>1. \A i \in 1..n : [r EXCEPT !.version = @ + i, !.users = @ \cup {order[j] : j \in 1..n}]
                         = [r EXCEPT !.version = @ + i, !.users = all]
      BY DEF all
    <3>2. events = [i \in 1..n |->
                     Event("UserAdded", order[i],
                           [r EXCEPT !.version = @ + i, !.users = @ \cup {order[j] : j \in 1..n}])]
      BY <1>3 DEF UserAddedEvents, r
    <3> HIDE DEF events
    <3> QED BY <3>1, <3>2
  <2> HIDE DEF After, events
  <2> QED BY <2>1, <2>2
<1> HIDE DEF events
<1>7. \A i \in 1..n : After(i) \in Holder
  BY <1>4, <1>6 DEF Holder
<1>8. \A i \in 1..n : /\ events[i].type = "UserAdded" /\ events[i].item = order[i]
                      /\ events[i].after = After(i) /\ events[i].after.users = all
  <2>1. \A i \in 1..n : After(i).users = all
    OBVIOUS
  <2> HIDE DEF After
  <2> QED BY <1>5, <2>1 DEF Event
<1>12. /\ events \in Seq(EventRecord) /\ Len(events) = n /\ DOMAIN events = 1..n /\ events # <<>>
       /\ Last(events) = Event("UserAdded", order[n], After(n))
  <2>1. \A i \in 1..n : Event("UserAdded", order[i], After(i)) \in EventRecord
    <3> HIDE DEF After
    <3> QED BY <1>3, <1>7 DEF EventRecord, Event, EventType
  <2> HIDE DEF After
  <2>2. events \in [1..n -> EventRecord]
    BY <1>5, <2>1
  <2>3. events \in Seq(EventRecord) /\ Len(events) = n /\ n \in 1..n
    BY <1>2, <2>2
  <2>4. Last(events) = events[n]
    BY <2>3 DEF Last
  <2> QED BY <1>2, <1>5, <2>2, <2>3, <2>4
<1>9. ASSUME NEW b, b.users = r.users
      PROVE  Named(b, events, 1)
  <2> SUFFICES ASSUME NEW user \in all \ b.users
               PROVE  \E j \in 1..n : events[j].item = user /\ OneBatch(events, 1, j)
    <3>1. 1 \in 1..n
      BY <1>2
    <3> HIDE DEF After
    <3> QED BY <1>8, <1>12, <3>1 DEF Named
  <2>1. PICK j \in 1..n : order[j] = user
    BY <1>6, <1>9
  <2>2. \A k \in 1..j : k \in 1..n
    BY <1>2
  <2>3. OneBatch(events, 1, j)
    <3>1. 1 \in 1..n
      BY <1>2
    <3> HIDE DEF After
    <3> QED BY <1>8, <2>2, <3>1 DEF OneBatch
  <2> QED BY <1>8, <2>1, <2>3
<1>10. ASSUME NEW i \in 1..n, NEW b, b.users = all
       PROVE  Named(b, events, i)
  BY <1>8, <1>10 DEF Named
<1>11. ASSUME NEW i \in 1..n
       PROVE  /\ Tells(IF i = 1 THEN holder[h] ELSE events[i - 1].after, events[i])
              /\ Named(IF i = 1 THEN holder[h] ELSE events[i - 1].after, events, i)
              /\ events[i].after.version = holder[h].version + i
  <2>1. /\ After(i).version = r.version + i /\ After(i).users = all /\ After(i).present = r.present
        /\ After(i).keys = r.keys /\ After(i).linked = r.linked
        /\ After(i - 1).version = r.version + (i - 1) /\ After(i - 1).users = all
        /\ After(i - 1).present = r.present
        /\ After(i - 1).keys = r.keys /\ After(i - 1).linked = r.linked
    OBVIOUS
  <2>2. events[i].type = "UserAdded" /\ events[i].item = order[i] /\ events[i].after = After(i)
    <3> HIDE DEF After
    <3> QED BY <1>8
  <2> HIDE DEF After
  <2>3. CASE i = 1
    <3>1. holder[h].users \cup {events[i].item} \subseteq events[i].after.users
      BY <1>4, <1>6, <2>1, <2>2
    <3>2. Tells(holder[h], events[i])
      BY <1>4, <2>1, <2>2, <2>3, <3>1, UserAddedTells
    <3>3. Named(holder[h], events, 1)
      BY <1>4, <1>9
    <3> QED BY <1>4, <2>1, <2>2, <2>3, <3>2, <3>3
  <2>4. CASE i # 1
    <3>1. i - 1 \in 1..n
      BY <1>2, <2>4
    <3>2. events[i - 1].after = After(i - 1)
      BY <1>8, <3>1
    <3>3. r.version + i = (r.version + (i - 1)) + 1
      BY <1>2, <1>4 DEF Holder
    <3>4. all \cup {order[i]} \subseteq all
      BY <1>6
    <3>5. Tells(events[i - 1].after, events[i])
      BY <1>4, <2>1, <2>2, <3>2, <3>3, <3>4, UserAddedTells
    <3>6. Named(events[i - 1].after, events, i)
      BY <1>10, <2>1, <3>2
    <3> QED BY <1>4, <2>1, <2>2, <2>4, <3>5, <3>6
  <2> QED BY <2>3, <2>4
<1>13. Last(events).after.keys = r.keys /\ Last(events).after.linked = r.linked
  <2>1. Last(events).after = After(n)
    <3> HIDE DEF After
    <3> QED BY <1>12 DEF Event
  <2> QED BY <2>1
<1>14. IsFiniteSet(r.keys) /\ Cardinality(r.keys) <= MaxKeys /\ late \subseteq Clients
  BY <1>4, ShownShape DEF r
<1>15. Follow(h, events)
  BY <1>11, <1>12, <1>13, <1>14 DEF Follow
<1>16. Request(h, r.version, events)
  BY <1>1 DEF events, r
<1> QED BY <1>4, <1>13, <1>14, <1>15, <1>16, RequestStep

LEMMA ClientRequestStep ==
  ASSUME Inv, NEW c \in Clients, ClientRequest(c)
  PROVE  Inv'
<1>0. c \in Holders /\ late \subseteq Clients
  BY DEF Holders, Inv, TypeOK
<1>1. CASE CreateClient(c)
  BY <1>0, <1>1, CreateStep DEF CreateClient
<1>2. CASE DeleteClient(c)
  BY <1>0, <1>2, DeleteStep DEF DeleteClient
<1>3. CASE AddClientUsers(c)
  BY <1>0, <1>3, AddUsersStep DEF AddClientUsers
<1>4. CASE RemoveClientUser(c)
  BY <1>0, <1>4, RemoveUserStep DEF RemoveClientUser
<1>5. CASE CreateKeys(c)
  BY <1>0, <1>5, CreateKeyStep DEF CreateKeys
<1>6. CASE DeleteClientKeyById(c)
  BY <1>0, <1>6, DeleteKeyStep DEF DeleteClientKeyById
<1>7. CASE AddClientPurpose(c)
  <2> DEFINE type == "LinkAdded"
  <2>1. type \in {"LinkAdded", "LinkRemoved"} /\ (type = "LinkAdded") = TRUE
    OBVIOUS
  <2>2. Update(c, type, None, [Successor(c) EXCEPT !.linked = (type = "LinkAdded")])
    BY <1>7 DEF AddClientPurpose
  <2>3. /\ late' \subseteq Clients /\ \A d \in Clients \ {c} : d \in late => d \in late'
        /\ purpose = "archived" => c \in late'
    BY <1>0, <1>7 DEF AddClientPurpose
  <2> HIDE DEF type
  <2> QED BY <1>0, <2>1, <2>2, <2>3, LinkStep
<1>8. CASE RemoveClientPurpose(c)
  <2> DEFINE type == "LinkRemoved"
  <2>1. type \in {"LinkAdded", "LinkRemoved"} /\ (type = "LinkAdded") = FALSE /\ type # "LinkAdded"
    OBVIOUS
  <2>2. Update(c, type, None, [Successor(c) EXCEPT !.linked = (type = "LinkAdded")])
    BY <1>8 DEF RemoveClientPurpose
  <2>3. late' \subseteq Clients /\ \A d \in Clients \ {c} : d \in late => d \in late'
    BY <1>0, <1>8 DEF RemoveClientPurpose
  <2> HIDE DEF type
  <2> QED BY <1>0, <2>1, <2>2, <2>3, LinkStep
<1> QED BY <1>1, <1>2, <1>3, <1>4, <1>5, <1>6, <1>7, <1>8 DEF ClientRequest

LEMMA KeychainRequestStep ==
  ASSUME Inv, NEW k \in Keychains, KeychainRequest(k)
  PROVE  Inv'
<1>0. k \in Holders /\ k \notin Clients /\ late \subseteq Clients
  BY ConstantsAssumption DEF Holders, Inv, TypeOK
<1>1. CASE CreateProducerKeychain(k)
  BY <1>0, <1>1, CreateStep DEF CreateProducerKeychain
<1>2. CASE DeleteProducerKeychain(k)
  BY <1>0, <1>2, DeleteStep DEF DeleteProducerKeychain
<1>3. CASE AddProducerKeychainUsers(k)
  BY <1>0, <1>3, AddUsersStep DEF AddProducerKeychainUsers
<1>4. CASE RemoveProducerKeychainUser(k)
  BY <1>0, <1>4, RemoveUserStep DEF RemoveProducerKeychainUser
<1>5. CASE CreateProducerKeychainKey(k)
  BY <1>0, <1>5, CreateKeyStep DEF CreateProducerKeychainKey
<1>6. CASE RemoveProducerKeychainKeyById(k)
  BY <1>0, <1>6, DeleteKeyStep DEF RemoveProducerKeychainKeyById
<1>7. CASE AddProducerKeychainEService(k)
  <2> DEFINE type == "LinkAdded"
  <2>1. type \in {"LinkAdded", "LinkRemoved"} /\ (type = "LinkAdded") = TRUE
    OBVIOUS
  <2>2. /\ Update(k, type, None, [Successor(k) EXCEPT !.linked = (type = "LinkAdded")])
        /\ late' = late
    BY <1>7 DEF AddProducerKeychainEService
  <2> HIDE DEF type
  <2> QED BY <1>0, <2>1, <2>2, LinkStep
<1>8. CASE RemoveProducerKeychainEService(k)
  <2> DEFINE type == "LinkRemoved"
  <2>1. type \in {"LinkAdded", "LinkRemoved"} /\ (type = "LinkAdded") = FALSE
    OBVIOUS
  <2>2. /\ Update(k, type, None, [Successor(k) EXCEPT !.linked = (type = "LinkAdded")])
        /\ late' = late
    BY <1>8 DEF RemoveProducerKeychainEService
  <2> HIDE DEF type
  <2> QED BY <1>0, <2>1, <2>2, LinkStep
<1> QED BY <1>1, <1>2, <1>3, <1>4, <1>5, <1>6, <1>7, <1>8 DEF KeychainRequest

-----------------------------------------------------------------------------
(* The read model and the removal of the archived purpose *)

\* What is shown next is what the next event of the holder carries.
LEMMA ShowStep ==
  ASSUME Inv, NEW h \in Holders, Show(h)
  PROVE  Inv'
<1> DEFINE p == pending[h]
           n == Len(p)
<1>1. /\ p \in Seq(EventRecord) /\ n \in Nat /\ n >= 1 /\ DOMAIN p = 1..n
      /\ shown[h].version \in Nat /\ Chained(h) /\ p[1].after \in Holder
  <2>1. p \in Seq(EventRecord) /\ n \in Nat /\ DOMAIN p = 1..n /\ p # <<>>
        /\ shown[h].version \in Nat /\ Chained(h)
    BY Versions DEF Inv, Show
  <2>2. n >= 1 /\ p[1] \in EventRecord
    BY <2>1
  <2> QED BY <2>1, <2>2 DEF EventRecord
<1>2. /\ shown' = [shown EXCEPT ![h] = p[1].after]
      /\ pending' = [pending EXCEPT ![h] = Tail(p)]
      /\ UNCHANGED <<holder, late, requests, surroundings>>
  <2>1. Head(p) = p[1]
    BY <1>1
  <2> QED BY <2>1 DEF Show
<1>3. /\ Tail(p) \in Seq(EventRecord) /\ Len(Tail(p)) = n - 1 /\ DOMAIN Tail(p) = 1..(n - 1)
      /\ \A i \in 1..(n - 1) : Tail(p)[i] = p[i + 1]
  BY <1>1
<1> DEFINE t == Tail(p)
<1>4. TypeOK /\ pending \in [Holders -> Seq(EventRecord)] /\ shown \in [Holders -> Holder]
  BY DEF Inv, TypeOK, EventRecord
<1> HIDE DEF t
<1>5. /\ shown' \in [Holders -> Holder] /\ pending' \in [Holders -> Seq(EventRecord)]
      /\ shown'[h] = p[1].after /\ pending'[h] = t
      /\ \A g \in Holders \ {h} : shown'[g] = shown[g] /\ pending'[g] = pending[g]
  <2> HIDE DEF p
  <2> QED BY <1>1, <1>2, <1>3, <1>4 DEF t
<1>6. TypeOK'
  BY <1>2, <1>4, <1>5 DEF TypeOK, EventRecord, surroundings
<1>7. \A g \in Holders \ {h} : Chained(g)'
  <2>1. \A g \in Holders : Chained(g)
    BY DEF Inv
  <2> QED BY <1>2, <1>5, <2>1 DEF Chained, Before
<1>8. Chained(h)'
  <2>0. /\ \A i \in 1..n : /\ Tells(IF i = 1 THEN shown[h] ELSE p[i - 1].after, p[i])
                           /\ Named(IF i = 1 THEN shown[h] ELSE p[i - 1].after, p, i)
                           /\ p[i].after.version = shown[h].version + i
        /\ holder[h] = IF n + 1 = 1 THEN shown[h] ELSE p[(n + 1) - 1].after
    BY <1>1 DEF Chained, Before
  <2> HIDE DEF p, n
  <2>1. ASSUME NEW i \in 1..(n - 1)
        PROVE  /\ Tells(IF i = 1 THEN shown'[h] ELSE t[i - 1].after, t[i])
               /\ Named(IF i = 1 THEN shown'[h] ELSE t[i - 1].after, t, i)
               /\ t[i].after.version = shown'[h].version + i
    <3>1. i + 1 \in 1..n /\ i + 1 # 1 /\ (i + 1) - 1 = i
      BY <1>1
    <3>2. /\ Tells(p[i].after, p[i + 1]) /\ p[i + 1].after.version = shown[h].version + (i + 1)
          /\ Named(p[i].after, p, i + 1)
      BY <2>0, <3>1
    <3>3. i # 1 => i - 1 \in 1..(n - 1) /\ t[i - 1] = p[i]
      <4>1. i # 1 => i - 1 \in 1..(n - 1) /\ (i - 1) + 1 = i
        BY <1>1
      <4> QED BY <1>3, <4>1 DEF t
    <3>4. t[i] = p[i + 1]
      BY <1>3 DEF t
    <3>5. (IF i = 1 THEN shown'[h] ELSE t[i - 1].after) = p[i].after
      BY <1>5, <3>3
    <3>6. shown'[h].version = shown[h].version + 1
      <4>1. 1 \in 1..n
        BY <1>1
      <4> QED BY <1>5, <2>0, <4>1
    <3>7. shown[h].version + (i + 1) = (shown[h].version + 1) + i
      BY <1>1
    <3>8. Named(p[i].after, t, i)
      BY <1>1, <2>1, <3>2, NamedInTail DEF t, n
    <3> QED BY <3>2, <3>4, <3>5, <3>6, <3>7, <3>8
  <2>2. holder[h] = IF (n - 1) + 1 = 1 THEN shown'[h] ELSE t[((n - 1) + 1) - 1].after
    <3>1. holder[h] = p[n].after
      BY <1>1, <2>0
    <3>2. CASE n = 1
      BY <1>5, <3>1, <3>2
    <3>3. CASE n # 1
      <4>1. n - 1 \in 1..(n - 1) /\ (n - 1) + 1 = n /\ ((n - 1) + 1) - 1 = n - 1
        BY <1>1, <3>3
      <4>2. t[n - 1] = p[n]
        BY <1>3, <4>1 DEF t
      <4> QED BY <3>1, <3>3, <4>1, <4>2
    <3> QED BY <3>2, <3>3
  <2>3. pending'[h] = t /\ DOMAIN t = 1..(n - 1) /\ Len(t) = n - 1 /\ holder' = holder
    BY <1>2, <1>3, <1>5 DEF t
  <2> QED BY <2>1, <2>2, <2>3 DEF Chained, Before
<1>9. /\ \A i \in DOMAIN removing.todo : AsRead(removing.todo[i])'
      /\ Unlinking'
      /\ \A g \in Holders : IsFiniteSet(holder'[g].keys) /\ Cardinality(holder'[g].keys) <= MaxKeys
  BY <1>2 DEF Inv, AsRead, Unlinking, ToUpdate, surroundings
<1>10. removing' = removing
  BY <1>2 DEF surroundings
<1> QED BY <1>6, <1>7, <1>8, <1>9, <1>10 DEF Inv

\* Every client with the purpose is listed as it is shown, or is late.
LEMMA ListStep ==
  ASSUME Inv, GetClientsRelatedToPurpose
  PROVE  Inv'
<1> DEFINE related == {c \in Clients : shown[c].present /\ shown[c].linked}
           n == Cardinality(related)
<1>1. PICK order \in SetToSeqs(related) :
        removing' = [running |-> TRUE,
                     todo |-> [i \in DOMAIN order |-> [client |-> order[i], read |-> shown[order[i]]]]]
  BY DEF GetClientsRelatedToPurpose
<1>2. /\ archival /\ ~removing.running
      /\ late' = {c \in Clients : holder[c].linked /\ c \notin related}
      /\ UNCHANGED <<holder, pending, shown, purpose, purposeShown, agreed, archival, failures, requests>>
  BY DEF GetClientsRelatedToPurpose
<1>3. IsFiniteSet(related) /\ n \in Nat
  BY ConstantsAssumption, FS_Subset, FS_CardinalityType
<1>4. related \subseteq Clients /\ \A c \in related : shown[c].present /\ c \in Holders
  BY DEF Holders
<1>5. /\ order \in [1..n -> related]
      /\ \A i, j \in 1..n : i # j => order[i] # order[j]
  BY DEF SetToSeqs
<1> HIDE DEF related
<1>6. \A c \in related : \E i \in 1..n : order[i] = c
  <2>1. order \in Injection(1..n, related)
    BY <1>5 DEF Injection, IsInjective
  <2>2. Cardinality(1..n) = n
    BY <1>3, FS_Interval
  <2>3. order \in Surjection(1..n, related)
    BY <1>3, <2>1, <2>2, FS_Injection
  <2> QED BY <2>3 DEF Surjection
<1> HIDE DEF n
<1> DEFINE todo == [i \in 1..n |-> [client |-> order[i], read |-> shown[order[i]]]]
<1>7. removing' = [running |-> TRUE, todo |-> todo]
  BY <1>1, <1>5
<1>8. \A i \in 1..n : /\ todo[i] \in Item /\ todo[i].client = order[i]
                      /\ todo[i].read = shown[order[i]]
  <2>1. \A i \in 1..n : order[i] \in Clients /\ order[i] \in Holders
    BY <1>4, <1>5
  <2>2. shown \in [Holders -> Holder]
    BY DEF Inv, TypeOK
  <2> QED BY <2>1, <2>2 DEF Item
<1>9. todo \in Seq(Item) /\ DOMAIN todo = 1..n
  BY <1>3, <1>8
<1> HIDE DEF todo
<1>10. removing'.running = TRUE /\ removing'.todo = todo
  BY <1>7
<1>11. TypeOK'
  <2>1. removing' \in [running: BOOLEAN, todo: Seq(Item)] /\ late' \subseteq Clients
    BY <1>2, <1>7, <1>9
  <2>2. TypeOK
    BY DEF Inv
  <2> QED BY <1>2, <2>1, <2>2 DEF TypeOK, Item
<1>12. \A i \in DOMAIN removing'.todo : AsRead(removing.todo[i])'
  <2> SUFFICES ASSUME NEW i \in 1..n PROVE AsRead(removing.todo[i])'
    BY <1>9, <1>10
  <2>1. order[i] \in Holders /\ shown[order[i]].present
    BY <1>4, <1>5
  <2>2. /\ shown[order[i]].version <= holder[order[i]].version
        /\ shown[order[i]].version = holder[order[i]].version => shown[order[i]] = holder[order[i]]
    BY <2>1, Versions, UpToDate
  <2>3. todo[i].client = order[i] /\ todo[i].read = shown[order[i]]
    BY <1>8
  <2> QED BY <1>2, <1>10, <2>1, <2>2, <2>3 DEF AsRead
<1>13. Unlinking'
  <2>1. \A c \in Clients : holder'[c].linked => c \in late' \cup ToUpdate'
    <3> SUFFICES ASSUME NEW c \in Clients, holder'[c].linked, c \notin late'
                 PROVE  c \in ToUpdate'
      OBVIOUS
    <3>1. c \in related
      BY <1>2
    <3>2. PICK i \in 1..n : order[i] = c
      BY <1>6, <3>1
    <3> QED BY <1>8, <1>9, <1>10, <3>2 DEF ToUpdate
  <2> QED BY <1>2, <1>10, <2>1 DEF Inv, Unlinking
<1>14. \A h \in Holders : Chained(h)'
  <2>1. \A h \in Holders : Chained(h)
    BY DEF Inv
  <2> QED BY <1>2, <2>1 DEF Chained, Before
<1> QED BY <1>2, <1>11, <1>12, <1>13, <1>14 DEF Inv

\* A client that is still as it was read loses the purpose and nothing else.
LEMMA RemoveStep ==
  ASSUME Inv, RemoveFromNextClient
  PROVE  Inv'
<1> DEFINE todo == removing.todo
           n == Len(todo)
           client == todo[1].client
           read == todo[1].read
           after == [read EXCEPT !.version = @ + 1, !.linked = FALSE]
           event == Event("LinkRemoved", None, after)
<1>1. /\ todo \in Seq(Item) /\ n \in Nat /\ n >= 1 /\ DOMAIN todo = 1..n
      /\ todo[1] \in Item /\ AsRead(todo[1]) /\ Head(todo) = todo[1]
  <2>1. todo \in Seq(Item) /\ todo # <<>>
    BY TodoType DEF RemoveFromNextClient
  <2>2. n \in Nat /\ n >= 1 /\ DOMAIN todo = 1..n /\ Head(todo) = todo[1]
    BY <2>1
  <2>3. 1 \in DOMAIN todo
    BY <2>2
  <2> QED BY <2>1, <2>2, <2>3, TodoType DEF Inv
<1>2. /\ removing.running /\ Store(client, read.version, <<event>>)
      /\ late' = late \ {client} /\ removing' = [removing EXCEPT !.todo = Tail(@)]
      /\ UNCHANGED <<purpose, purposeShown, agreed, archival, failures, requests>>
  BY <1>1 DEF RemoveFromNextClient
<1>3. client \in Clients /\ client \in Holders /\ read \in Holder
  BY <1>1 DEF Item, Holders
<1>4. read = holder[client] /\ read.present
  BY <1>1, <1>2 DEF AsRead, Store
<1> HIDE DEF client, read
<1>5. after = [version |-> read.version + 1, present |-> read.present, users |-> read.users,
               keys |-> read.keys, linked |-> FALSE]
  <2> DEFINE v == read.version + 1
             y == [read EXCEPT !.version = v]
  <2>0. v \in Nat
    BY <1>3 DEF Holder
  <2> HIDE DEF v
  <2>1. y = [version |-> v, present |-> read.present, users |-> read.users, keys |-> read.keys,
             linked |-> read.linked]
    BY <1>3, HolderWith
  <2>2. [read EXCEPT !.version = v, !.linked = FALSE] = [y EXCEPT !.linked = FALSE]
    OBVIOUS
  <2> HIDE DEF y
  <2>3. /\ y \in Holder /\ y.version = v /\ y.present = read.present /\ y.keys = read.keys
        /\ y.users = read.users
    BY <1>3, <2>0, <2>1 DEF Holder
  <2>4. [y EXCEPT !.linked = FALSE]
          = [version |-> y.version, present |-> y.present, users |-> y.users, keys |-> y.keys,
             linked |-> FALSE]
    BY <2>3, HolderWith
  <2> QED BY <2>2, <2>3, <2>4 DEF v
<1> HIDE DEF after
<1>6. after \in Holder /\ after.keys = read.keys /\ ~after.linked
  BY <1>3, <1>5 DEF Holder
<1>7. event \in EventRecord /\ event.after = after /\ event.type = "LinkRemoved"
  BY <1>6 DEF Event, EventRecord, EventType
<1>8. Tells(holder[client], event) /\ event.after.version = holder[client].version + 1
  BY <1>4, <1>5 DEF Tells, Event
<1> HIDE DEF event
<1>9. /\ <<event>> \in Seq(EventRecord) /\ DOMAIN <<event>> = {1} /\ <<event>>[1] = event
      /\ <<event>> # <<>> /\ Last(<<event>>) = event
  BY <1>7 DEF Last
<1>10. IsFiniteSet(after.keys) /\ Cardinality(after.keys) <= MaxKeys
  BY <1>3, <1>4, <1>6 DEF Inv
<1>11. Follow(client, <<event>>)
  BY <1>7, <1>8, <1>9, <1>10 DEF Follow, Named
<1>12. /\ holder' \in [Holders -> Holder] /\ shown' \in [Holders -> Holder]
       /\ pending' \in [Holders -> Seq(EventRecord)]
       /\ \A g \in Holders : Chained(g)'
       /\ \A g \in Holders : IsFiniteSet(holder'[g].keys) /\ Cardinality(holder'[g].keys) <= MaxKeys
       /\ \A g \in Holders \ {client} : holder'[g] = holder[g]
       /\ holder'[client] = Last(<<event>>).after /\ holder'[client].version > holder[client].version
  BY <1>2, <1>3, <1>11, StoreStep
<1>13. /\ Tail(todo) \in Seq(Item) /\ DOMAIN Tail(todo) = 1..(n - 1)
       /\ \A i \in 1..(n - 1) : Tail(todo)[i] = todo[i + 1] /\ i + 1 \in 1..n
  BY <1>1
<1> DEFINE t == Tail(todo)
<1>14. removing' = [running |-> TRUE, todo |-> t]
  BY <1>2, TodoType
<1> HIDE DEF t
<1>15. removing'.running = TRUE /\ removing'.todo = t
  BY <1>14
<1>16. TypeOK'
  <2>1. removing' \in [running: BOOLEAN, todo: Seq(Item)]
    BY <1>13, <1>14 DEF t
  <2>2. TypeOK
    BY DEF Inv
  <2> QED BY <1>2, <1>12, <2>1, <2>2 DEF TypeOK, Item, EventRecord
<1>17. \A i \in DOMAIN removing'.todo : AsRead(removing.todo[i])'
  <2> SUFFICES ASSUME NEW i \in 1..(n - 1) PROVE AsRead(removing.todo[i])'
    BY <1>13, <1>15 DEF t
  <2> DEFINE item == todo[i + 1]
  <2>1. item \in Item /\ AsRead(item) /\ removing'.todo[i] = item
    <3>1. i + 1 \in DOMAIN todo /\ t[i] = todo[i + 1]
      BY <1>1, <1>13 DEF t
    <3> QED BY <1>15, <3>1, TodoType DEF Inv
  <2>2. holder'[client].version \in Nat
    BY <1>3, <1>12 DEF Holder
  <2> HIDE DEF item
  <2>3. LET now == holder'[item.client] IN
        /\ item.read.present /\ item.read.version <= now.version
        /\ item.read.version = now.version => item.read = now
    BY <1>3, <1>12, <2>1, <2>2, ReadsStay
  <2> QED BY <2>1, <2>3 DEF AsRead
<1>18. Unlinking'
  <2>1. \A c \in Clients : holder'[c].linked => c \in late' \cup ToUpdate'
    <3> SUFFICES ASSUME NEW c \in Clients, holder'[c].linked, c \notin late'
                 PROVE  c \in ToUpdate'
      OBVIOUS
    <3>1. c # client /\ c \in Holders
      BY <1>6, <1>7, <1>9, <1>12 DEF Holders
    <3>2. holder[c].linked /\ c \notin late
      BY <1>2, <1>12, <3>1
    <3>3. c \in ToUpdate
      BY <1>2, <3>2 DEF Inv, Unlinking
    <3>4. PICK j \in 1..n : todo[j].client = c
      BY <1>1, <3>3 DEF ToUpdate
    <3>5. j # 1
      BY <3>1, <3>4 DEF client
    <3>6. j - 1 \in 1..(n - 1) /\ (j - 1) + 1 = j
      BY <1>1, <3>5
    <3>7. t[j - 1] = todo[j]
      BY <1>13, <3>6 DEF t
    <3>8. j - 1 \in DOMAIN t
      BY <1>13, <3>6 DEF t
    <3> QED BY <1>15, <3>4, <3>7, <3>8 DEF ToUpdate
  <2> QED BY <1>2, <1>15, <2>1 DEF Inv, Unlinking
<1> QED BY <1>12, <1>16, <1>17, <1>18 DEF Inv

\* Breaking off, and a conflict, leave the archival to be handled again.
LEMMA AbandonStep ==
  ASSUME Inv, archival' = archival, removing' = Idle, failures' \in Nat,
         UNCHANGED <<holder, pending, shown, purpose, purposeShown, agreed, late, requests>>
  PROVE  Inv'
<1>1. removing'.running = FALSE /\ removing'.todo = <<>> /\ removing' \in [running: BOOLEAN, todo: Seq(Item)]
  BY DEF Idle
<1>2. TypeOK'
  <2>1. TypeOK
    BY DEF Inv
  <2> QED BY <1>1, <2>1 DEF TypeOK, Item
<1>3. Unlinking'
  BY <1>1 DEF Inv, Unlinking
<1>4. \A i \in DOMAIN removing'.todo : AsRead(removing.todo[i])'
  BY <1>1
<1>5. \A h \in Holders : Chained(h)'
  <2>1. \A h \in Holders : Chained(h)
    BY DEF Inv
  <2> QED BY <2>1 DEF Chained, Before
<1> QED BY <1>2, <1>3, <1>4, <1>5 DEF Inv

\* When nothing is left to update, who is linked is late.
LEMMA FinishStep ==
  ASSUME Inv, FinishRemoval
  PROVE  Inv'
<1>0. /\ removing.running /\ removing.todo = <<>> /\ removing' = Idle /\ archival' = FALSE
      /\ UNCHANGED <<holder, pending, shown, purpose, purposeShown, agreed, failures, late, requests>>
  BY DEF FinishRemoval
<1>1. removing'.running = FALSE /\ removing'.todo = <<>> /\ removing' \in [running: BOOLEAN, todo: Seq(Item)]
  BY <1>0 DEF Idle
<1>2. TypeOK'
  <2>1. TypeOK
    BY DEF Inv
  <2> QED BY <1>0, <1>1, <2>1 DEF TypeOK, Item
<1>3. Unlinking'
  <2>1. ToUpdate = {}
    BY <1>0 DEF ToUpdate
  <2> QED BY <1>0, <1>1, <2>1 DEF Inv, Unlinking
<1>4. \A i \in DOMAIN removing'.todo : AsRead(removing.todo[i])'
  BY <1>1
<1>5. \A h \in Holders : Chained(h)'
  <2>1. \A h \in Holders : Chained(h)
    BY DEF Inv
  <2> QED BY <1>0, <2>1 DEF Chained, Before
<1> QED BY <1>0, <1>2, <1>3, <1>4, <1>5 DEF Inv

\* What changes around the holders changes nothing of them.
LEMMA AroundStep ==
  ASSUME Inv, UNCHANGED <<holder, pending, shown, removing, failures, late, requests>>,
         purpose' \in {"draft", "usable", "archived"}, purposeShown' \in {"draft", "usable", "archived"},
         agreed' \in BOOLEAN, archival' \in BOOLEAN,
         \/ purpose' = purpose /\ archival' = archival
         \/ purpose # "archived" /\ archival' = (purpose' = "archived")
  PROVE  Inv'
<1>1. TypeOK'
  <2>1. TypeOK
    BY DEF Inv
  <2> QED BY <2>1 DEF TypeOK
<1>2. Unlinking'
  BY DEF Inv, Unlinking, ToUpdate
<1>3. \A i \in DOMAIN removing'.todo : AsRead(removing.todo[i])'
  BY DEF Inv, AsRead
<1>4. \A h \in Holders : Chained(h)'
  <2>1. \A h \in Holders : Chained(h)
    BY DEF Inv
  <2> QED BY <2>1 DEF Chained, Before
<1> QED BY <1>1, <1>2, <1>3, <1>4 DEF Inv

-----------------------------------------------------------------------------
(* The invariant *)

LEMMA InitInv == Init => Inv
<1> SUFFICES ASSUME Init PROVE Inv
  OBVIOUS
<1>1. Absent \in Holder /\ Created(Users) \in Holder /\ Absent.keys = {} /\ Created(Users).keys = {}
  BY DEF Absent, Created, Holder
<1>2. /\ holder \in [Holders -> Holder] /\ shown = holder
      /\ \A h \in Holders : holder[h].keys = {} /\ pending[h] = <<>>
  BY <1>1 DEF Init
<1>3. \A h \in Holders : IsFiniteSet(holder[h].keys) /\ Cardinality(holder[h].keys) <= MaxKeys
  <2>1. IsFiniteSet({}) /\ Cardinality({}) = 0
    BY FS_EmptySet
  <2>2. MaxKeys \in Nat
    BY ConstantsAssumption
  <2>3. 0 <= MaxKeys
    BY <2>2
  <2> QED BY <1>2, <2>1, <2>3
<1>4. \A h \in Holders : Chained(h)
  BY <1>2 DEF Chained, Before
<1>5. removing \in [running: BOOLEAN, todo: Seq(Item)] /\ ~removing.running /\ removing.todo = <<>>
  BY DEF Init, Idle
<1>6. TypeOK
  <2>1. pending \in [Holders -> Seq(EventRecord)]
    BY DEF Init
  <2> QED BY <1>2, <1>5, <2>1 DEF Init, TypeOK, EventRecord, Item
<1>7. Unlinking
  BY <1>5 DEF Init, Unlinking
<1> QED BY <1>3, <1>4, <1>5, <1>6, <1>7 DEF Inv

LEMMA NextInv == Inv /\ [Next]_vars => Inv'
<1> SUFFICES ASSUME Inv, [Next]_vars PROVE Inv'
  OBVIOUS
<1>0. TypeOK /\ Unlinking
  BY DEF Inv
<1>1. ASSUME NEW c \in Clients, ClientRequest(c) PROVE Inv'
  BY <1>1, ClientRequestStep
<1>2. ASSUME NEW k \in Keychains, KeychainRequest(k) PROVE Inv'
  BY <1>2, KeychainRequestStep
<1>3. CASE ReadModelWriters
  BY <1>3, ShowStep DEF ReadModelWriters
<1>4. CASE ShowPurpose
  BY <1>0, <1>4, AroundStep DEF ShowPurpose, TypeOK
<1>5. CASE ClientPurposeUpdater
  <2>1. CASE ConflictOnNextClient
    BY <1>0, <2>1, AbandonStep DEF ConflictOnNextClient, TypeOK
  <2> QED BY <1>5, <2>1, ListStep, RemoveStep, FinishStep DEF ClientPurposeUpdater
<1>6. CASE BreakOff
  <2>1. failures' \in Nat
    BY <1>0, <1>6 DEF BreakOff, TypeOK
  <2> QED BY <1>6, <2>1, AbandonStep DEF BreakOff
<1>7. CASE ActivatePurpose
  <2>1. archival = FALSE
    BY <1>0, <1>7 DEF ActivatePurpose, Unlinking, TypeOK
  <2> QED BY <1>0, <1>7, <2>1, AroundStep DEF ActivatePurpose, TypeOK
<1>8. CASE ArchivePurpose
  BY <1>0, <1>8, AroundStep DEF ArchivePurpose, TypeOK
<1>9. CASE ChangeAgreement
  BY <1>0, <1>9, AroundStep DEF ChangeAgreement, TypeOK
<1>10. CASE UNCHANGED vars
  BY <1>0, <1>10, AroundStep DEF vars, TypeOK
<1> QED BY <1>1, <1>2, <1>3, <1>4, <1>5, <1>6, <1>7, <1>8, <1>9, <1>10 DEF Next

LEMMA Invariance == Spec => []Inv
<1>1. Init => Inv
  BY InitInv
<1>2. Inv /\ [Next]_vars => Inv'
  BY NextInv
<1> QED BY <1>1, <1>2, PTL DEF Spec

-----------------------------------------------------------------------------
(* Type correctness.                                                         *)
THEOREM TypeCorrect == Spec => []TypeOK
<1>1. Inv => TypeOK
  BY DEF Inv
<1> QED BY <1>1, Invariance, PTL

(* Every event of authorizationService.ts changes of the holder before it    *)
(* what it names and nothing else, in a batch of users in whatever order and *)
(* also when it is made from a list removePurposeFromClients read long ago:  *)
(* consumers may take the holder it carries or only what it names.           *)
THEOREM EventsTellWhatChanged == Spec => []EventsTellTheChange
<1>1. Inv => EventsTellTheChange
  BY DEF Inv, Chained, Before, EventsTellTheChange
<1> QED BY <1>1, Invariance, PTL

(* assertClientKeysCountIsBelowThreshold holds of the stored holders, though *)
(* the keys it counts are those of the read model.                           *)
THEOREM KeysBounded == Spec => []KeysWithinThreshold
<1>1. Inv => KeysWithinThreshold
  BY DEF Inv, KeysWithinThreshold
<1> QED BY <1>1, Invariance, PTL

(* removePurposeFromClients leaves no client linked to the archived purpose  *)
(* but those that its list could not show, however often it was broken off   *)
(* and begun again.                                                          *)
THEOREM UnlinkedWhenHandled == Spec => []UnlinkedOnceHandled
<1>1. Inv => UnlinkedOnceHandled
  BY DEF Inv, Unlinking, UnlinkedOnceHandled
<1> QED BY <1>1, Invariance, PTL
============================================================================
