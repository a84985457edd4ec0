---------------------------- MODULE MCPaidAction ----------------------------
EXTENDS PaidAction, TLC
CONSTANTS m1, a, b
=============================================================================
