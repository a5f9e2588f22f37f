----------------------------- MODULE MCNetworks -----------------------------
EXTENDS Networks
=============================================================================
