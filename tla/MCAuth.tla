------------------------------- MODULE MCAuth -------------------------------
EXTENDS Auth

=============================================================================
