------------------------------ MODULE MCCClient -----------------------------
EXTENDS CClientProps
=============================================================================
