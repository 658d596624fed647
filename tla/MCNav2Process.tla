--------------------------- MODULE MCNav2Process ---------------------------
EXTENDS Nav2Process

==============================================================================
