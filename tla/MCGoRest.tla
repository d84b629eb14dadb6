------------------------------ MODULE MCGoRest ------------------------------
EXTENDS GoRest
=============================================================================
