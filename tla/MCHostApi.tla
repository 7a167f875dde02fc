----------------------------- MODULE MCHostApi -----------------------------
EXTENDS HostApi
=============================================================================
