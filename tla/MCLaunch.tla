----------------------------- MODULE MCLaunch -----------------------------
EXTENDS Launch
=============================================================================
