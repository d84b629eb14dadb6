--------------------------- MODULE MCGoReconnect ----------------------------
EXTENDS GoReconnect
=============================================================================
