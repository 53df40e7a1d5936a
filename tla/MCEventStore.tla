---------------------------- MODULE MCEventStore ----------------------------
(* Two aggregates and three concurrent calls.  The batches are the shapes   *)
(* the services use: create (undefined), update of version 0 or 1, create   *)
(* followed by an update of the new stream (createEService), two versions   *)
(* of one stream (activateAgreement), and updates of two streams in both    *)
(* orders (upgradeAgreement, archiving of related agreements).             *)
EXTENDS EventStore, TLC

CONSTANTS s1, s2, t1, t2, t3

MCStreams == {s1, s2}
MCTxns == {t1, t2, t3}
Ev(s, v) == [stream |-> s, version |-> v]
MCBatches ==
  {<<Ev(s, v)>> : s \in MCStreams, v \in {NoVersion, 0}}
    \cup {<<Ev(s1, NoVersion), Ev(s1, 0)>>, <<Ev(s1, 0), Ev(s1, 1)>>,
          <<Ev(s1, NoVersion), Ev(s2, NoVersion)>>,
          <<Ev(s2, NoVersion), Ev(s1, NoVersion)>>,
          <<Ev(s1, 0), Ev(s2, NoVersion)>>}

=============================================================================
