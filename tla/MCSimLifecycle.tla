--------------------------- MODULE MCSimLifecycle ---------------------------
EXTENDS SimLifecycle

==============================================================================
