-------------------------- MODULE MCReadModelWriter --------------------------
(* Two keys of a client, the stream with most documents, and two consumers.  *)
EXTENDS ReadModelWriter, TLC
=============================================================================
