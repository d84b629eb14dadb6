---------------------------- MODULE MCRustClient ----------------------------
EXTENDS RustClientProps
=============================================================================
