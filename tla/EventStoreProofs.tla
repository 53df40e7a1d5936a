-------------------------- MODULE EventStoreProofs --------------------------
(***************************************************************************)
(* Proofs about EventStore for every set of streams, calls and batches.    *)
(***************************************************************************)
EXTENDS EventStore, FiniteSetTheorems, TLAPS

AllRows == events \cup UNION {written[t] : t \in Txns}

\* A call starts at the first event, and in progress works on one of its batch.
InBatch ==
  \A t \in Txns :
    /\ phase[t] = "idle" => pos[t] = 1
    /\ phase[t] \in Running =>
         /\ batch[t] \in Batches
         /\ pos[t] \in 1..Len(batch[t])

\* Who wrote a row, and that a finished call holds none.
Ownership ==
  /\ \A t \in Txns : \A row \in written[t] : row.tx = t
  /\ \A t \in Txns : phase[t] \notin Running => written[t] = {}
  /\ \A t \in Txns : phase[t] = "commit" => written[t] # {}
  /\ \A row \in events : phase[row.tx] = "committed"

\* Neither the committed nor the pending rows repeat a key.
KeysUnique == \A r1, r2 \in AllRows : Key(r1) = Key(r2) => r1 = r2

\* All the versions below v are among the rows.
Below(rows, s, v) == \A w \in 0..(v - 1) : Exists(rows, s, w)

\* A pending row, and the one a call is about to insert, stand on the rows
\* the call sees.
Grounded ==
  \A t \in Txns :
    /\ \A row \in written[t] : Below(Visible(t), row.stream, row.version)
    /\ phase[t] = "insert" => Below(Visible(t), Current(t).stream, newVersion[t])

IInv == TypeOK /\ InBatch /\ Ownership /\ KeysUnique /\ NoGaps /\ Grounded

-----------------------------------------------------------------------------
(* The event a running call works on is a well-formed CreateEvent. *)
LEMMA CurrentType ==
  ASSUME TypeOK, InBatch, NEW t \in Txns, phase[t] \in Running
  PROVE  /\ Current(t) \in CreateEvent
         /\ Current(t).stream \in Streams
         /\ Current(t).version \in Nat \cup {NoVersion}
<1>1. batch[t] \in Seq(CreateEvent) /\ pos[t] \in 1..Len(batch[t])
  BY BatchesAssumption DEF InBatch
<1>2. batch[t][pos[t]] \in CreateEvent
  BY <1>1
<1> QED
  BY <1>2 DEF Current, CreateEvent

(* The initial state satisfies the inductive invariant. *)
LEMMA InitIInv == Init => IInv
<1> SUFFICES ASSUME Init PROVE IInv
  OBVIOUS
<1>1. TypeOK
  BY DEF Init, TypeOK, Phase, Running
<1>2. InBatch /\ Ownership /\ NoGaps /\ Grounded
  BY DEF Init, InBatch, Ownership, NoGaps, Grounded, Running
<1>3. AllRows = {}
  BY DEF Init, AllRows
<1> QED
  BY <1>1, <1>2, <1>3 DEF IInv, KeysUnique

(* The invariant survives the rollback of a running call. *)
LEMMA RollbackIInv ==
  ASSUME IInv, NEW t \in Txns, phase[t] \in Running, Rollback(t)
  PROVE  IInv'
<1> USE DEF IInv, Rollback
<1>1. TypeOK'
  BY DEF TypeOK, Phase
<1>2. \A u \in Txns : written'[u] = IF u = t THEN {} ELSE written[u]
  BY DEF TypeOK
<1>3. \A u \in Txns : phase'[u] = IF u = t THEN "aborted" ELSE phase[u]
  BY DEF TypeOK
<1>4. InBatch'
  BY <1>3 DEF InBatch, Running
<1>5. Ownership'
  BY <1>2, <1>3 DEF Ownership, Running, TypeOK, Row
<1>6. KeysUnique'
  <2>1. AllRows' \subseteq AllRows
    BY <1>2 DEF AllRows
  <2> QED
    BY <2>1 DEF KeysUnique, Key
<1>7. NoGaps'
  BY DEF NoGaps, Exists
<1>8. Grounded'
  <2> SUFFICES ASSUME NEW u \in Txns
               PROVE  /\ \A row \in written'[u] :
                           Below(events \cup written'[u], row.stream, row.version)
                      /\ phase'[u] = "insert" =>
                           Below(events \cup written'[u], batch[u][pos[u]].stream, newVersion[u])
    BY DEF Grounded, Visible, Current, Below, Exists
  <2> QED
    BY <1>2, <1>3 DEF Grounded, Visible, Current
<1> QED
  BY <1>1, <1>4, <1>5, <1>6, <1>7, <1>8

(* Opening a transaction keeps the invariant. *)
LEMMA BeginIInv ==
  ASSUME IInv, NEW t \in Txns, Begin(t)
  PROVE  IInv'
<1> USE DEF IInv, Begin
<1>1. PICK b \in Batches : batch' = [batch EXCEPT ![t] = b]
  OBVIOUS
<1>2. \A u \in Txns : /\ phase'[u] = IF u = t THEN "check" ELSE phase[u]
                      /\ batch'[u] = IF u = t THEN b ELSE batch[u]
  BY <1>1 DEF TypeOK
<1>3. TypeOK'
  BY <1>1 DEF TypeOK, Phase, Running
<1>4. 1 \in 1..Len(b)
  <2>1. b \in Seq(CreateEvent) /\ b # <<>>
    BY BatchesAssumption
  <2> QED
    BY <2>1
<1>5. InBatch'
  BY <1>2, <1>4 DEF InBatch, Running
<1>6. Ownership'
  BY <1>2 DEF Ownership, Running, TypeOK, Row
<1>7. KeysUnique' /\ NoGaps'
  BY DEF KeysUnique, NoGaps, AllRows, Exists, Key
<1>8. Grounded'
  BY <1>2 DEF Grounded, Visible, Current, Below, Exists
<1> QED
  BY <1>3, <1>5, <1>6, <1>7, <1>8

(* Reading the row of the caller's version grounds the version computed. *)
LEMMA CheckIInv ==
  ASSUME IInv, NEW t \in Txns, Check(t)
  PROVE  IInv'
<1>0. phase[t] \in Running
  BY DEF Check, Running
<1>1. CASE ~Found(t) /\ Current(t).version # NoVersion
  BY <1>0, <1>1, RollbackIInv DEF Check
<1>2. CASE Found(t) \/ Current(t).version = NoVersion
  <2> DEFINE nv == IF Found(t) THEN Current(t).version + 1 ELSE 0
  <2>1. /\ newVersion' = [newVersion EXCEPT ![t] = nv]
        /\ phase' = [phase EXCEPT ![t] = "insert"]
        /\ UNCHANGED <<events, batch, pos, written>>
    BY <1>2 DEF Check
  <2>2. /\ nv \in Nat
        /\ Found(t) => Current(t).version \in Nat
    BY <1>0, CurrentType DEF IInv, Found
  <2> HIDE DEF nv
  <2>3. TypeOK'
    BY <2>1, <2>2 DEF IInv, TypeOK, Phase, Running
  <2>4. \A u \in Txns : /\ phase'[u] = IF u = t THEN "insert" ELSE phase[u]
                        /\ newVersion'[u] = IF u = t THEN nv ELSE newVersion[u]
    BY <2>1 DEF IInv, TypeOK
  <2>5. InBatch'
    BY <1>0, <2>1, <2>4 DEF IInv, InBatch, Running
  <2>6. Ownership'
    BY <2>1, <2>4, <1>0 DEF IInv, Ownership, Running, TypeOK, Row, Check
  <2>7. KeysUnique' /\ NoGaps'
    BY <2>1 DEF IInv, KeysUnique, NoGaps, AllRows, Exists, Key
  <2>8. Below(Visible(t), Current(t).stream, nv)
    <3>1. CASE ~Found(t)
      BY <3>1 DEF nv, Below
    <3>2. CASE Found(t)
      <4> DEFINE s == Current(t).stream  v == Current(t).version
      <4>1. PICK row \in Visible(t) : row.stream = s /\ row.version = v
        BY <3>2 DEF Found, Exists
      <4>2. Below(Visible(t), s, v)
        <5>1. CASE row \in events
          BY <4>1, <5>1 DEF IInv, NoGaps, Below, Visible, Exists
        <5>2. CASE row \in written[t]
          BY <4>1, <5>2 DEF IInv, Grounded
        <5> QED
          BY <4>1, <5>1, <5>2 DEF Visible
      <4>3. Exists(Visible(t), s, v)
        BY <3>2 DEF Found
      <4>4. v \in Nat /\ nv = v + 1
        BY <3>2, <2>2 DEF nv
      <4> HIDE DEF s, v
      <4>5. \A w \in 0..(nv - 1) : w \in 0..(v - 1) \/ w = v
        BY <4>4
      <4>6. Below(Visible(t), s, nv)
        BY <4>2, <4>3, <4>5 DEF Below
      <4> QED
        BY <4>6 DEF s
    <3> QED
      BY <3>1, <3>2
  <2>9. Grounded'
    <3> SUFFICES ASSUME NEW u \in Txns
                 PROVE  /\ \A row \in written[u] :
                             Below(Visible(u), row.stream, row.version)
                        /\ phase'[u] = "insert" =>
                             Below(Visible(u), Current(u).stream, newVersion'[u])
      BY <2>1 DEF Grounded, Visible, Current, Below, Exists
    <3> QED
      BY <2>4, <2>8 DEF IInv, Grounded
  <2> QED
    BY <2>3, <2>5, <2>6, <2>7, <2>9 DEF IInv
<1> QED
  BY <1>1, <1>2

(* What stands on some rows stands on more of them. *)
LEMMA BelowGrows ==
  ASSUME NEW A, NEW B, A \subseteq B, NEW s, NEW v, Below(A, s, v)
  PROVE  Below(B, s, v)
BY DEF Below, Exists

(* Inserting a row whose key nobody holds and nobody sees keeps keys unique. *)
LEMMA InsertIInv ==
  ASSUME IInv, NEW t \in Txns, Insert(t)
  PROVE  IInv'
<1> DEFINE s == Current(t).stream
           v == newVersion[t]
           row == [stream |-> s, version |-> v, tx |-> t]
           next == IF pos[t] < Len(batch[t]) THEN "check" ELSE "commit"
<1>0. phase[t] \in Running /\ phase[t] = "insert"
  BY DEF Insert, Running
<1>1. CASE Exists(Visible(t), s, v)
  BY <1>0, <1>1, RollbackIInv DEF Insert
<1>2. CASE ~Exists(Visible(t), s, v)
  <2>1. /\ written' = [written EXCEPT ![t] = @ \cup {row}]
        /\ phase' = [phase EXCEPT ![t] = next]
        /\ pos' = [pos EXCEPT ![t] = IF pos[t] < Len(batch[t]) THEN @ + 1 ELSE @]
        /\ UNCHANGED <<events, batch, newVersion>>
    BY <1>2 DEF Insert
  <2>2. s \in Streams /\ v \in Nat
    BY <1>0, CurrentType DEF IInv, TypeOK
  <2>3. row \in Row /\ row.stream = s /\ row.version = v /\ row.tx = t
    BY <2>2 DEF Row
  <2> HIDE DEF s, v, row
  <2>4. \A u \in Txns : /\ phase'[u] = IF u = t THEN next ELSE phase[u]
                        /\ written'[u] = IF u = t THEN written[u] \cup {row} ELSE written[u]
    BY <2>1 DEF IInv, TypeOK
  <2>5. TypeOK'
    BY <2>1, <2>3 DEF IInv, TypeOK, Phase, Running
  <2>6. InBatch'
    <3>1. batch[t] \in Batches /\ pos[t] \in 1..Len(batch[t])
      BY <1>0 DEF IInv, InBatch
    <3>2. batch[t] \in Seq(CreateEvent)
      BY <3>1, BatchesAssumption
    <3>3. Len(batch[t]) \in Nat
      BY <3>2
    <3>4. pos'[t] \in 1..Len(batch[t])
      BY <2>1, <3>1, <3>3 DEF IInv, TypeOK
    <3>5. \A u \in Txns \ {t} : pos'[u] = pos[u]
      BY <2>1 DEF IInv, TypeOK
    <3>6. next \in {"check", "commit"} /\ next # "idle"
      OBVIOUS
    <3> HIDE DEF next
    <3>7. ASSUME NEW u \in Txns \ {t}
          PROVE  /\ phase'[u] = phase[u] /\ batch'[u] = batch[u] /\ pos'[u] = pos[u]
                 /\ phase[u] = "idle" => pos[u] = 1
                 /\ phase[u] \in Running =>
                      batch[u] \in Batches /\ pos[u] \in 1..Len(batch[u])
      BY <2>1, <2>4, <3>5 DEF IInv, InBatch
    <3>8. /\ phase'[t] # "idle"
          /\ batch'[t] \in Batches /\ pos'[t] \in 1..Len(batch'[t])
      BY <2>1, <2>4, <3>1, <3>4, <3>6
    <3> QED
      BY <3>7, <3>8 DEF InBatch
  <2>7. Ownership'
    BY <1>0, <2>1, <2>3, <2>4 DEF IInv, Ownership, Running, TypeOK, Row
  <2>8. KeysUnique'
    <3>1. AllRows' = AllRows \cup {row}
      <4>1. \A r : (\E u \in Txns : r \in written'[u])
                  <=> (r = row \/ \E u \in Txns : r \in written[u])
        BY <2>4
      <4> QED
        BY <2>1, <4>1 DEF AllRows
    <3>2. \A r \in AllRows : Key(r) # Key(row)
      <4> SUFFICES ASSUME NEW r \in AllRows, r.stream = s, r.version = v
                   PROVE  FALSE
        BY <2>3 DEF Key
      <4>1. r \notin Visible(t)
        BY <1>2 DEF Exists
      <4>2. PICK u \in Txns \ {t} : r \in written[u]
        BY <4>1 DEF AllRows, Visible
      <4>3. u \in Holders(t)
        BY <4>2 DEF Holders, Exists, s, v
      <4> QED
        BY <4>3 DEF Insert
    <3> QED
      BY <3>1, <3>2 DEF IInv, KeysUnique
  <2>9. NoGaps'
    BY <2>1 DEF IInv, NoGaps, Exists
  <2>10. Grounded'
    <3>1. Below(Visible(t), s, v)
      BY <1>0 DEF IInv, Grounded, s, v
    <3>2. \A u \in Txns : Visible(u) \subseteq Visible(u)'
      BY <2>1, <2>4 DEF Visible
    <3>3. ASSUME NEW u \in Txns, NEW r \in written'[u]
          PROVE  Below(Visible(u)', r.stream, r.version)
      <4>1. CASE r \in written[u]
        <5>1. Below(Visible(u), r.stream, r.version)
          BY <4>1 DEF IInv, Grounded
        <5> QED
          BY <3>2, <5>1, BelowGrows
      <4>2. CASE r \notin written[u]
        <5>1. u = t /\ r = row
          BY <2>4, <3>3, <4>2
        <5>2. Below(Visible(t)', s, v)
          BY <3>1, <3>2, BelowGrows
        <5> QED
          BY <2>3, <5>1, <5>2
      <4> QED
        BY <4>1, <4>2
    <3>4. ASSUME NEW u \in Txns, phase'[u] = "insert"
          PROVE  Below(Visible(u)', batch[u][pos'[u]].stream, newVersion[u])
      <4>1. u # t /\ phase[u] = "insert" /\ pos'[u] = pos[u]
        BY <2>1, <2>4, <3>4 DEF IInv, TypeOK
      <4> QED
        BY <3>2, <4>1 DEF IInv, Grounded, Below, Exists, Current
    <3> QED
      BY <2>1, <3>3, <3>4 DEF Grounded, Current, Below, Exists
  <2> QED
    BY <2>5, <2>6, <2>7, <2>8, <2>9, <2>10 DEF IInv
<1> QED
  BY <1>1, <1>2

(* Committing turns a call's own rows into committed ones. *)
LEMMA CommitIInv ==
  ASSUME IInv, NEW t \in Txns, Commit(t)
  PROVE  IInv'
<1> USE DEF IInv, Commit
<1>1. \A u \in Txns : /\ phase'[u] = IF u = t THEN "committed" ELSE phase[u]
                      /\ written'[u] = IF u = t THEN {} ELSE written[u]
  BY DEF TypeOK
<1>2. TypeOK'
  BY DEF TypeOK, Phase
<1>3. InBatch'
  BY <1>1 DEF InBatch, Running
<1>4. Ownership'
  BY <1>1 DEF Ownership, Running, TypeOK, Row
<1>5. KeysUnique'
  <2>1. AllRows' = AllRows
    BY <1>1 DEF AllRows
  <2> QED
    BY <2>1 DEF KeysUnique, Key
<1>6. NoGaps'
  <2> SUFFICES ASSUME NEW r \in events', NEW v \in 0..(r.version - 1)
               PROVE  Exists(events', r.stream, v)
    BY DEF NoGaps, Exists
  <2>1. CASE r \in events
    BY <2>1 DEF NoGaps, Exists
  <2>2. CASE r \in written[t]
    BY <2>2 DEF Grounded, Below, Exists, Visible
  <2> QED
    BY <2>1, <2>2
<1>7. Grounded'
  <2>1. \A u \in Txns \ {t} : Visible(u) \subseteq Visible(u)'
    BY <1>1 DEF Visible
  <2> QED
    BY <1>1, <2>1 DEF Grounded, Below, Exists, Current
<1> QED
  BY <1>2, <1>3, <1>4, <1>5, <1>6, <1>7

(* Every step keeps the invariant. *)
LEMMA NextIInv == IInv /\ [Next]_vars => IInv'
<1> SUFFICES ASSUME IInv, [Next]_vars PROVE IInv'
  OBVIOUS
<1>1. CASE UNCHANGED vars
  BY <1>1 DEF vars, IInv, TypeOK, InBatch, Ownership, KeysUnique, AllRows,
              NoGaps, Grounded, Below, Exists, Visible, Current, Key
<1>2. ASSUME NEW t \in Txns, Step(t) PROVE IInv'
  <2>1. CASE Begin(t)
    BY <2>1, BeginIInv
  <2>2. CASE Check(t)
    BY <2>2, CheckIInv
  <2>3. CASE Insert(t)
    BY <2>3, InsertIInv
  <2>4. CASE Commit(t)
    BY <2>4, CommitIInv
  <2>5. CASE Crash(t)
    BY <2>5, RollbackIInv DEF Crash
  <2>6. CASE DeadlockVictim(t)
    <3>1. phase[t] = "insert"
      BY <2>6 DEF DeadlockVictim, InWaitCycle, WaitsFor
    <3> QED
      BY <2>6, <3>1, RollbackIInv DEF DeadlockVictim, Running
  <2> QED
    BY <1>2, <2>1, <2>2, <2>3, <2>4, <2>5, <2>6 DEF Step
<1> QED
  BY <1>1, <1>2 DEF Next, Terminated

(* The inductive invariant holds in every reachable state. *)
THEOREM Invariant == Spec => []IInv
<1> QED
  BY InitIInv, NextIInv, PTL DEF Spec

(* Every reachable state is well typed. *)
THEOREM TypeCorrect == Spec => []TypeOK
<1>1. IInv => TypeOK
  BY DEF IInv
<1> QED
  BY <1>1, Invariant, PTL

(* Streams never have a gap: the versions below a committed one are         *)
(* committed, whatever batches the calls submit and however they interleave.*)
THEOREM StreamsHaveNoGaps == Spec => []NoGaps
<1>1. IInv => NoGaps
  BY DEF IInv
<1> QED
  BY <1>1, Invariant, PTL

(* A commit appends: what it stores comes after every committed event of    *)
(* the same stream, and nothing committed is changed.                       *)
THEOREM CommitsOnlyAppend == Spec => NoLostUpdate
<1> DEFINE Appends ==
      /\ events \subseteq events'
      /\ \A new \in events' \ events, old \in events :
           new.stream = old.stream => new.version > old.version
<1>1. IInv /\ IInv' /\ [Next]_vars => [Appends]_vars
  <2> SUFFICES ASSUME IInv, IInv', [Next]_vars PROVE Appends \/ UNCHANGED vars
    OBVIOUS
  <2>1. events \subseteq events'
    BY DEF Next, Step, Terminated, vars, Begin, Check, Insert, Commit, Crash,
           DeadlockVictim, Rollback
  <2>2. ASSUME NEW new \in events' \ events, NEW old \in events,
               new.stream = old.stream, ~(new.version > old.version)
        PROVE  FALSE
    <3>1. new.version \in Nat /\ old.version \in Nat
      BY DEF IInv, TypeOK, Row
    <3>2. Exists(events, old.stream, new.version)
      <4>1. CASE new.version = old.version
        BY <4>1 DEF Exists
      <4>2. CASE new.version < old.version
        BY <3>1, <4>2 DEF IInv, NoGaps
      <4> QED
        BY <2>2, <3>1, <4>1, <4>2
    <3>3. PICK r \in events : Key(r) = Key(new)
      BY <2>2, <3>2 DEF Exists, Key
    <3>4. r \in AllRows' /\ new \in AllRows'
      BY <2>1 DEF AllRows
    <3> QED
      BY <3>3, <3>4 DEF IInv, KeysUnique, Key
  <2> QED
    BY <2>1, <2>2
<1> QED
  BY <1>1, Invariant, PTL DEF Spec, NoLostUpdate

(* Two calls never both commit on top of one version of an aggregate.       *)
THEOREM VersionsAreUnique == Spec => []UniqueVersions
<1>1. IInv => UniqueVersions
  BY DEF IInv, KeysUnique, AllRows, UniqueVersions
<1> QED
  BY <1>1, Invariant, PTL

(* The store implements the abstract log: a commit is one atomic append.    *)
THEOREM StoreImplementsLog == Spec => ImplementsLog
<1>1. Init => Log!Init
  BY DEF Init, Log!Init
<1>2. IInv /\ IInv' /\ [Next]_vars => [Log!Next]_events
  <2> SUFFICES ASSUME IInv, IInv', [Next]_vars, events' # events
               PROVE  Log!Next
    OBVIOUS
  <2>1. PICK t \in Txns : Commit(t)
    BY DEF Next, Step, Terminated, vars, Begin, Check, Insert, Crash,
           DeadlockVictim, Rollback
  <2>2. ~Log!Wrote(t)
    BY <2>1 DEF Log!Wrote, Commit, IInv, Ownership
  <2>3. \A e \in events' \ events : e \in Log!Entry /\ e.tx = t
    BY <2>1 DEF Commit, IInv, TypeOK, Ownership, Row, Log!Entry
  <2>4. Log!WellNumbered(events')
    <3>1. events' \subseteq AllRows'
      BY DEF AllRows
    <3> QED
      BY <3>1 DEF Log!WellNumbered, IInv, KeysUnique, NoGaps, Exists, Key
  <2> QED
    BY <2>1, <2>2, <2>3, <2>4 DEF Log!Next, Log!Append, Commit
<1> QED
  BY <1>1, <1>2, Invariant, PTL DEF Spec, ImplementsLog, Log!Spec

-----------------------------------------------------------------------------
(* A call's rows are as many as the events it has done.                      *)

Committed(t) == {row \in events : row.tx = t}

\* The events of its batch a call has inserted a row for.
Inserted(t) == CASE phase[t] \in {"check", "insert"} -> pos[t] - 1
                 [] phase[t] = "commit" -> Len(batch[t])
                 [] OTHER -> 0

Counted ==
  \A t \in Txns :
    /\ IsFiniteSet(written[t]) /\ Cardinality(written[t]) = Inserted(t)
    /\ Committed(t) # {} => phase[t] = "committed"
    /\ IsFiniteSet(Committed(t))
    /\ phase[t] = "committed" => Cardinality(Committed(t)) = Len(batch[t])

(* A step of call t leaves what the others have counted alone. *)
LEMMA CountedOthers ==
  ASSUME IInv, Counted, NEW t \in Txns,
         \A u \in Txns \ {t} : /\ phase'[u] = phase[u] /\ batch'[u] = batch[u]
                               /\ pos'[u] = pos[u] /\ written'[u] = written[u],
         events' = events \/ events' = events \cup written[t],
         /\ IsFiniteSet(written'[t]) /\ Cardinality(written'[t]) = Inserted(t)'
         /\ Committed(t)' # {} => phase'[t] = "committed"
         /\ IsFiniteSet(Committed(t)')
         /\ phase'[t] = "committed" => Cardinality(Committed(t)') = Len(batch'[t])
  PROVE  Counted'
<1>1. ASSUME NEW u \in Txns \ {t} PROVE Committed(u)' = Committed(u) /\ Inserted(u)' = Inserted(u)
  <2>1. \A row \in written[t] : row.tx = t
    BY DEF IInv, Ownership
  <2>2. Inserted(u)' = Inserted(u)
    BY <1>1 DEF Inserted
  <2> QED BY <1>1, <2>1, <2>2 DEF Committed
<1> QED BY <1>1 DEF Counted

(* ... and so does one that ends in a rollback. *)
LEMMA CountedRollback ==
  ASSUME IInv, Counted, NEW t \in Txns, phase[t] \in Running, Rollback(t)
  PROVE  Counted'
<1>1. /\ phase'[t] = "aborted" /\ written'[t] = {} /\ events' = events
      /\ \A u \in Txns \ {t} : /\ phase'[u] = phase[u] /\ batch'[u] = batch[u]
                               /\ pos'[u] = pos[u] /\ written'[u] = written[u]
  BY DEF Rollback, IInv, TypeOK
<1>2. Committed(t)' = {}
  BY <1>1 DEF Committed, Counted, Running
<1>3. Inserted(t)' = 0
  BY <1>1 DEF Inserted
<1> QED BY <1>1, <1>2, <1>3, FS_EmptySet, CountedOthers

(* Nothing of a call that is not finished is committed. *)
LEMMA NoneCommitted ==
  ASSUME Counted, NEW t \in Txns, phase[t] # "committed"
  PROVE  Committed(t) = {} /\ IsFiniteSet(Committed(t))
  BY FS_EmptySet DEF Counted

LEMMA CountedNext == IInv /\ Counted /\ [Next]_vars => Counted'
<1> SUFFICES ASSUME IInv, Counted, [Next]_vars PROVE Counted'
  OBVIOUS
<1>1. CASE UNCHANGED vars
  BY <1>1 DEF vars, Counted, Committed, Inserted
<1>2. ASSUME NEW t \in Txns, Begin(t) PROVE Counted'
  <2>1. /\ phase[t] = "idle" /\ phase'[t] = "check" /\ pos'[t] = 1
        /\ written'[t] = written[t] /\ events' = events
        /\ \A u \in Txns \ {t} : /\ phase'[u] = phase[u] /\ batch'[u] = batch[u]
                                 /\ pos'[u] = pos[u] /\ written'[u] = written[u]
    BY <1>2 DEF Begin, IInv, TypeOK, InBatch
  <2>2. Committed(t)' = {}
    BY <2>1, NoneCommitted DEF Committed
  <2>3. Inserted(t)' = 1 - 1 /\ Inserted(t) = 0
    BY <2>1 DEF Inserted
  <2>4. IsFiniteSet(written'[t]) /\ Cardinality(written'[t]) = Inserted(t)'
    BY <2>1, <2>3 DEF Counted
  <2> QED BY <2>1, <2>2, <2>4, FS_EmptySet, CountedOthers
<1>3. ASSUME NEW t \in Txns, Check(t) PROVE Counted'
  <2>1. CASE Rollback(t)
    BY <1>3, <2>1, CountedRollback DEF Check, Running
  <2>2. CASE ~Rollback(t)
    <3>1. /\ phase[t] = "check" /\ phase'[t] = "insert" /\ pos'[t] = pos[t]
          /\ written'[t] = written[t] /\ events' = events
          /\ \A u \in Txns \ {t} : /\ phase'[u] = phase[u] /\ batch'[u] = batch[u]
                                   /\ pos'[u] = pos[u] /\ written'[u] = written[u]
      BY <1>3, <2>2 DEF Check, IInv, TypeOK
    <3>2. Committed(t)' = {} /\ Inserted(t)' = Inserted(t)
      BY <3>1, NoneCommitted DEF Committed, Inserted
    <3>3. IsFiniteSet(written'[t]) /\ Cardinality(written'[t]) = Inserted(t)'
      BY <3>1, <3>2 DEF Counted
    <3> QED BY <3>1, <3>2, <3>3, FS_EmptySet, CountedOthers
  <2> QED BY <2>1, <2>2
<1>4. ASSUME NEW t \in Txns, Insert(t) PROVE Counted'
  <2>1. CASE Rollback(t)
    BY <1>4, <2>1, CountedRollback DEF Insert, Running
  <2>2. CASE ~Rollback(t)
    <3> DEFINE row == [stream |-> Current(t).stream, version |-> newVersion[t], tx |-> t]
               last == ~(pos[t] < Len(batch[t]))
    <3>1. /\ phase[t] = "insert" /\ events' = events
          /\ ~Exists(Visible(t), row.stream, row.version)
          /\ phase'[t] = IF last THEN "commit" ELSE "check"
          /\ pos'[t] = IF last THEN pos[t] ELSE pos[t] + 1
          /\ batch'[t] = batch[t]
          /\ written'[t] = written[t] \cup {row}
          /\ \A u \in Txns \ {t} : /\ phase'[u] = phase[u] /\ batch'[u] = batch[u]
                                   /\ pos'[u] = pos[u] /\ written'[u] = written[u]
      BY <1>4, <2>2 DEF Insert, IInv, TypeOK
    <3>2. row \notin written[t]
      BY <3>1 DEF Exists, Visible
    <3> HIDE DEF row
    <3>3. IsFiniteSet(written[t]) /\ Cardinality(written[t]) = pos[t] - 1
      BY <3>1 DEF Counted, Inserted
    <3>4. IsFiniteSet(written'[t]) /\ Cardinality(written'[t]) = pos[t] - 1 + 1
      <4>1. /\ IsFiniteSet(written[t] \cup {row})
            /\ Cardinality(written[t] \cup {row}) =
                 IF row \in written[t] THEN Cardinality(written[t])
                 ELSE Cardinality(written[t]) + 1
        BY <3>3, FS_AddElement
      <4> QED BY <3>1, <3>2, <3>3, <4>1
    <3>5. pos[t] \in 1..Len(batch[t]) /\ Len(batch[t]) \in Nat
      <4>1. batch[t] \in Batches /\ pos[t] \in 1..Len(batch[t])
        BY <3>1 DEF IInv, InBatch, Running
      <4>2. batch[t] \in Seq(CreateEvent)
        BY <4>1, BatchesAssumption
      <4> QED BY <4>1, <4>2
    <3>6. Inserted(t)' = pos[t]
      BY <3>1, <3>5 DEF Inserted
    <3>7. Cardinality(written'[t]) = Inserted(t)'
      BY <3>4, <3>5, <3>6
    <3>8. Committed(t)' = {} /\ IsFiniteSet(Committed(t)') /\ phase'[t] # "committed"
      BY <3>1, NoneCommitted DEF Committed
    <3> QED BY <3>1, <3>4, <3>7, <3>8, CountedOthers
  <2> QED BY <2>1, <2>2
<1>5. ASSUME NEW t \in Txns, Commit(t) PROVE Counted'
  <2>1. /\ phase[t] = "commit" /\ phase'[t] = "committed" /\ batch'[t] = batch[t]
        /\ written'[t] = {} /\ events' = events \cup written[t]
        /\ \A u \in Txns \ {t} : /\ phase'[u] = phase[u] /\ batch'[u] = batch[u]
                                 /\ pos'[u] = pos[u] /\ written'[u] = written[u]
    BY <1>5 DEF Commit, IInv, TypeOK
  <2>2. \A row \in written[t] : row.tx = t
    BY DEF IInv, Ownership
  <2>3. Committed(t) = {}
    BY <2>1, NoneCommitted
  <2>4. Committed(t)' = written[t]
    BY <2>1, <2>2, <2>3 DEF Committed
  <2>5. IsFiniteSet(written[t]) /\ Cardinality(written[t]) = Len(batch[t])
    BY <2>1 DEF Counted, Inserted
  <2>6. Inserted(t)' = 0
    BY <2>1 DEF Inserted
  <2> QED BY <2>1, <2>4, <2>5, <2>6, FS_EmptySet, CountedOthers
<1>6. ASSUME NEW t \in Txns, Crash(t) PROVE Counted'
  BY <1>6, CountedRollback DEF Crash
<1>7. ASSUME NEW t \in Txns, DeadlockVictim(t) PROVE Counted'
  <2>1. phase[t] = "insert"
    BY <1>7 DEF DeadlockVictim, InWaitCycle, WaitsFor
  <2> QED BY <1>7, <2>1, CountedRollback DEF DeadlockVictim, Running
<1> QED BY <1>1, <1>2, <1>3, <1>4, <1>5, <1>6, <1>7 DEF Next, Step, Terminated

(* A batch is stored completely or not at all, whatever fails or overtakes   *)
(* the call between two of its inserts: db.tx wraps all of them.             *)
THEOREM BatchesAreAtomic == Spec => []AllOrNothing
<1>1. Init => Counted
  <2> SUFFICES ASSUME Init PROVE Counted
    OBVIOUS
  <2>1. \A t \in Txns : /\ written[t] = {} /\ Committed(t) = {}
                        /\ phase[t] = "idle" /\ Inserted(t) = 0
    BY DEF Init, Committed, Inserted
  <2> QED BY <2>1, FS_EmptySet DEF Counted
<1>2. Counted => AllOrNothing
  BY FS_EmptySet DEF Counted, AllOrNothing, Committed
<1> QED
  BY <1>1, <1>2, CountedNext, Invariant, PTL DEF Spec
=============================================================================
