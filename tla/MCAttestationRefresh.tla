------------------------ MODULE MCAttestationRefresh ------------------------
EXTENDS AttestationRefresh

MCLives == {6, 11}
=============================================================================
