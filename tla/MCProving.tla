----------------------------- MODULE MCProving -----------------------------
EXTENDS Proving

CONSTANTS v1, v2, v3
MCCatalogs == {{v1, v2}, {v1, v3}, {v1, v2, v3}}
MCForgetting == {None, "A"}
=============================================================================
