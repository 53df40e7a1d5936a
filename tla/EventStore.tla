----------------------------- MODULE EventStore -----------------------------
(***************************************************************************)
(* The Postgres event store every *-process service writes to:             *)
(* internalCreateEvents of packages/commons/src/repositories/              *)
(* EventRepository.ts, over the table of docker/event-store-init.sql.      *)
(*                                                                         *)
(* One call runs one database transaction.  For every event of the batch   *)
(* it looks for the row of the version the caller has read (SELECT), then  *)
(* inserts the row of the next version.  Several services, and several     *)
(* instances of one, do so at the same time; isolation is READ COMMITTED   *)
(* and the only guard against a lost update is UNIQUE (stream_id, version).*)
(***************************************************************************)
EXTENDS Integers, Sequences, FiniteSets

CONSTANTS
  Streams,     \* aggregate identifiers (stream_id)
  Txns,        \* calls of createEvent / createEvents, each used once
  Batches,     \* the batches callers submit: sequences of CreateEvent
  NoVersion    \* version: undefined, what a caller creating an aggregate sends

CreateEvent == [stream: Streams, version: Nat \cup {NoVersion}]

ASSUME BatchesAssumption ==
  /\ NoVersion \notin Nat
  /\ Batches \subseteq Seq(CreateEvent) \ {<<>>}

VARIABLES
  events,      \* the committed rows of the table
  phase,       \* where each call is
  batch,       \* the argument of each call
  pos,         \* index in the batch of the event a call works on
  newVersion,  \* the version computed for that event
  written      \* rows a call has inserted and not yet committed

vars == <<events, phase, batch, pos, newVersion, written>>

Row == [stream: Streams, version: Nat, tx: Txns]

Running == {"check", "insert", "commit"}
Phase == {"idle", "committed", "aborted"} \cup Running

Key(row) == <<row.stream, row.version>>

\* What a SELECT of call t sees under READ COMMITTED.
Visible(t) == events \cup written[t]

Exists(rows, s, v) == \E row \in rows : row.stream = s /\ row.version = v

Current(t) == batch[t][pos[t]]

-----------------------------------------------------------------------------

Init ==
  /\ events = {}
  /\ phase = [t \in Txns |-> "idle"]
  /\ batch = [t \in Txns |-> <<>>]
  /\ pos = [t \in Txns |-> 1]
  /\ newVersion = [t \in Txns |-> 0]
  /\ written = [t \in Txns |-> {}]

(* A service calls createEvents with a batch, and db.tx opens the transaction. *)
Begin(t) ==
  /\ phase[t] = "idle"
  /\ \E b \in Batches : batch' = [batch EXCEPT ![t] = b]
  /\ phase' = [phase EXCEPT ![t] = "check"]
  /\ UNCHANGED <<events, pos, newVersion, written>>

(* The transaction is rolled back: its rows vanish. *)
Rollback(t) ==
  /\ phase' = [phase EXCEPT ![t] = "aborted"]
  /\ written' = [written EXCEPT ![t] = {}]
  /\ UNCHANGED <<events, batch, pos, newVersion>>

\* The row with the caller's version, if any; "version = NULL" matches nothing.
Found(t) ==
  /\ Current(t).version # NoVersion
  /\ Exists(Visible(t), Current(t).stream, Current(t).version)

\* Slip: the call waits for a version that is not there.
CheckUntilFound(t) ==
  /\ phase[t] = "check"
  /\ Found(t) \/ Current(t).version = NoVersion
  /\ newVersion' = [newVersion EXCEPT ![t] = IF Found(t) THEN Current(t).version + 1 ELSE 0]
  /\ phase' = [phase EXCEPT ![t] = "insert"]
  /\ UNCHANGED <<events, batch, pos, written>>

(* checkEventVersionExists and the match that computes newVersion. *)
Check(t) ==
  /\ phase[t] = "check"
  /\ \/ /\ Found(t) \/ Current(t).version = NoVersion
        /\ newVersion' = [newVersion EXCEPT
             ![t] = IF Found(t) THEN Current(t).version + 1 ELSE 0]
        /\ phase' = [phase EXCEPT ![t] = "insert"]
        /\ UNCHANGED <<events, batch, pos, written>>
     \/ /\ ~Found(t) /\ Current(t).version # NoVersion
        /\ Rollback(t)

\* The in-flight calls that hold the unique key call t wants to insert.
Holders(t) ==
  {u \in Txns \ {t} : Exists(written[u], Current(t).stream, newVersion[t])}

WaitsFor(t, u) == phase[t] = "insert" /\ u \in Holders(t)

\* Slip: a table without UNIQUE (stream_id, version).
InsertWithoutUnique(t) ==
  /\ phase[t] = "insert"
  /\ written' = [written EXCEPT ![t] = @ \cup
       {[stream |-> Current(t).stream, version |-> newVersion[t], tx |-> t]}]
  /\ phase' = [phase EXCEPT
       ![t] = IF pos[t] < Len(batch[t]) THEN "check" ELSE "commit"]
  /\ pos' = [pos EXCEPT ![t] = IF pos[t] < Len(batch[t]) THEN @ + 1 ELSE @]
  /\ UNCHANGED <<events, batch, newVersion>>

\* Slip: every INSERT commits by itself instead of inside db.tx.
InsertAutocommit(t) ==
  /\ phase[t] = "insert"
  /\ LET s == Current(t).stream
         row == [stream |-> s, version |-> newVersion[t], tx |-> t]
     IN \/ Exists(events, s, newVersion[t]) /\ Rollback(t)
        \/ /\ ~Exists(events, s, newVersion[t])
           /\ events' = events \cup {row}
           /\ phase' = [phase EXCEPT
                ![t] = IF pos[t] < Len(batch[t]) THEN "check" ELSE "commit"]
           /\ pos' = [pos EXCEPT ![t] = IF pos[t] < Len(batch[t]) THEN @ + 1 ELSE @]
           /\ UNCHANGED <<batch, newVersion, written>>

(* The INSERT waits for a holder of the key, and fails on a visible row. *)
Insert(t) ==
  /\ phase[t] = "insert"
  /\ Holders(t) = {}
  /\ LET s == Current(t).stream
         row == [stream |-> s, version |-> newVersion[t], tx |-> t]
     IN \/ /\ Exists(Visible(t), s, newVersion[t])
           /\ Rollback(t)
        \/ /\ ~Exists(Visible(t), s, newVersion[t])
           /\ written' = [written EXCEPT ![t] = @ \cup {row}]
           /\ phase' = [phase EXCEPT
                ![t] = IF pos[t] < Len(batch[t]) THEN "check" ELSE "commit"]
           /\ pos' = [pos EXCEPT ![t] = IF pos[t] < Len(batch[t]) THEN @ + 1 ELSE @]
           /\ UNCHANGED <<events, batch, newVersion>>

(* COMMIT publishes the rows of the call. *)
Commit(t) ==
  /\ phase[t] = "commit"
  /\ events' = events \cup written[t]
  /\ written' = [written EXCEPT ![t] = {}]
  /\ phase' = [phase EXCEPT ![t] = "committed"]
  /\ UNCHANGED <<batch, pos, newVersion>>

(* The service dies or loses its connection before COMMIT. *)
Crash(t) == phase[t] \in Running /\ Rollback(t)

\* Calls that wait for one another in a circle.
InWaitCycle(t) ==
  \E C \in SUBSET Txns :
    /\ t \in C
    /\ \A u \in C : \E w \in C : WaitsFor(u, w)
    /\ \A u \in C : \E w \in C : WaitsFor(w, u)

(* Postgres aborts a member of a wait cycle (deadlock_timeout). *)
DeadlockVictim(t) == InWaitCycle(t) /\ Rollback(t)

Done == \A t \in Txns : phase[t] \in {"committed", "aborted"}
Terminated == Done /\ UNCHANGED vars

Step(t) == Begin(t) \/ Check(t) \/ Insert(t) \/ Commit(t)
             \/ Crash(t) \/ DeadlockVictim(t)

Next == (\E t \in Txns : Step(t)) \/ Terminated

Spec == Init /\ [][Next]_vars

\* A running transaction is scheduled, and the deadlock detector runs.
Fairness ==
  \A t \in Txns :
    /\ WF_vars(Check(t)) /\ WF_vars(Insert(t)) /\ WF_vars(Commit(t))
    /\ WF_vars(DeadlockVictim(t))

FairSpec == Spec /\ Fairness

-----------------------------------------------------------------------------
(* Type invariant. *)
TypeOK ==
  /\ events \subseteq Row
  /\ phase \in [Txns -> Phase]
  /\ batch \in [Txns -> Batches \cup {<<>>}]
  /\ pos \in [Txns -> Nat \ {0}]
  /\ newVersion \in [Txns -> Nat]
  /\ written \in [Txns -> SUBSET Row]

(* No version of a stream is missing below a committed one, so a consumer   *)
(* that replays a stream from version 0 meets every event: the SELECT of    *)
(* internalCreateEvents refuses to build on a version that is not there.    *)
NoGaps ==
  \A row \in events : \A v \in 0..(row.version - 1) : Exists(events, row.stream, v)

(* Two services that have read the same version of an aggregate never both  *)
(* commit an event on top of it: no two rows share a stream and a version.  *)
UniqueVersions ==
  \A r1, r2 \in events : Key(r1) = Key(r2) => r1 = r2

(* createEvents is all or nothing: the rows of a call are as many as the    *)
(* events of its batch when it committed and none otherwise.                *)
AllOrNothing ==
  \A t \in Txns :
    Cardinality({row \in events : row.tx = t}) =
      IF phase[t] = "committed" THEN Len(batch[t]) ELSE 0

(* A commit only extends streams at their end and never rewrites history:   *)
(* what a caller computed from version v is stored only if v is the latest. *)
NoLostUpdate ==
  [][/\ events \subseteq events'
     /\ \A new \in events' \ events, old \in events :
          new.stream = old.stream => new.version > old.version]_vars

(* Every transaction ends, also when two batches lock the same streams in   *)
(* opposite orders (createEvents over several aggregates).                  *)
EveryCallEnds ==
  \A t \in Txns : phase[t] \in Running ~> phase[t] \in {"committed", "aborted"}

(* The committed table is the append-only log services rely on: each call   *)
(* appends its whole batch at once, or nothing (EventLog).                  *)
Log == INSTANCE EventLog WITH Authors <- Txns, log <- events
ImplementsLog == Log!Spec
=============================================================================
