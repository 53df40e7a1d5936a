----------------------- MODULE MCAuthorizationProcess -----------------------
(* Two clients of two users, and a producer keychain that is yet to be       *)
(* created; one key may be given to each of them.                            *)
EXTENDS AuthorizationProcess

CONSTANTS c1, c2, k1

MCClients == {c1, c2}
MCKeychains == {k1}
MCExisting == {c1, c2}
=============================================================================
