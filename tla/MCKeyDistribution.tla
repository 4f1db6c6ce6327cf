------------------------- MODULE MCKeyDistribution -------------------------
EXTENDS KeyDistribution
=============================================================================
