--------------------------- MODULE MCEntitlement ---------------------------
EXTENDS Entitlement, TLC

Symmetry == Permutations(Customers)
=============================================================================
