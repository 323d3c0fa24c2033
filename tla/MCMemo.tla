------------------------------- MODULE MCMemo -------------------------------
EXTENDS Memo

CONSTANTS j1, p, w
=============================================================================
