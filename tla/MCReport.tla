------------------------------ MODULE MCReport ------------------------------
EXTENDS Report
=============================================================================
