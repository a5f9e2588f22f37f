----------------------------- MODULE MCControls -----------------------------
EXTENDS Controls
=============================================================================
