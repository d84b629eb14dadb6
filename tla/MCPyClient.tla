----------------------------- MODULE MCPyClient -----------------------------
EXTENDS PyClientProps
=============================================================================
