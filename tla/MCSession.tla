----------------------------- MODULE MCSession -----------------------------
EXTENDS Session, TLC
CONSTANTS u1, u2
=============================================================================
