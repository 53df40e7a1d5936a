------------------------- MODULE MCTenantAgreements -------------------------
(* One agreement on one descriptor that asks for a declared and a verified   *)
(* attribute.                                                                *)
EXTENDS TenantAgreements

CONSTANTS a1

MCAgreements == {a1}
MCRequires == [d \in {1} |-> {"declared", "verified"}]
=============================================================================
