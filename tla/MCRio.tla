------------------------------- MODULE MCRio --------------------------------
EXTENDS Rio, TLC
=============================================================================
