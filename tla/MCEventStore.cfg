SPECIFICATION FairSpec
CONSTANTS
  s1 = s1
  s2 = s2
  t1 = t1
  t2 = t2
  t3 = t3
  NoVersion = NoVersion
  Streams <- MCStreams
  Txns <- MCTxns
  Batches <- MCBatches
INVARIANTS
  UniqueVersions
  AllOrNothing
PROPERTIES
  NoLostUpdate
  EveryCallEnds
  ImplementsLog
