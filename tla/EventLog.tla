------------------------------ MODULE EventLog ------------------------------
(***************************************************************************)
(* What the event store promises to services: an append-only log per       *)
(* stream, extended by atomic batches, each writing the versions that come  *)
(* right after the last one of every stream it touches.                    *)
(***************************************************************************)
EXTENDS Integers, FiniteSets

CONSTANTS Streams, Authors

VARIABLE log    \* set of entries

Entry == [stream: Streams, version: Nat, tx: Authors]

Wrote(a) == \E e \in log : e.tx = a

\* Every stream of the set of entries is numbered 0, 1, 2, ... without repetition.
WellNumbered(entries) ==
  /\ \A e, f \in entries : e.stream = f.stream /\ e.version = f.version => e = f
  /\ \A e \in entries : \A v \in 0..(e.version - 1) :
       \E f \in entries : f.stream = e.stream /\ f.version = v

Init == log = {}

(* An author appends its whole batch, once. *)
Append(a) ==
  /\ ~Wrote(a)
  /\ log \subseteq log' /\ log' # log
  /\ \A e \in log' \ log : e \in Entry /\ e.tx = a
  /\ WellNumbered(log')

Next == \E a \in Authors : Append(a)

Spec == Init /\ [][Next]_log
=============================================================================
