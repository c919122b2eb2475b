--------------------------- MODULE MCWhiteRabbit ---------------------------
EXTENDS WhiteRabbit
=============================================================================
