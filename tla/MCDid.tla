------------------------------- MODULE MCDid -------------------------------
EXTENDS Did

=============================================================================
