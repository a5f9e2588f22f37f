----------------------------- MODULE MCDMRSlot -----------------------------
EXTENDS DMRSlot
=============================================================================
