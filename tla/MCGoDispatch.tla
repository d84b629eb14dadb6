---------------------------- MODULE MCGoDispatch ----------------------------
EXTENDS GoDispatchProps
=============================================================================
