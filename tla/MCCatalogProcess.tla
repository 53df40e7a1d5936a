-------------------------- MODULE MCCatalogProcess --------------------------
(* One or two e-services with two descriptors and one or two agreements.      *)
EXTENDS CatalogProcess

CONSTANTS e1, e2, d1, d2, a1, a2

OneEService == {e1}
TwoEServices == {e1, e2}
TwoDescriptors == {d1, d2}
OneAgreement == {a1}
TwoAgreements == {a1, a2}
=============================================================================
