--------------------------- MODULE MCOrderManager ---------------------------
EXTENDS OrderManager
=============================================================================
