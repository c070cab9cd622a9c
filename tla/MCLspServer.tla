---------------------------- MODULE MCLspServer ------------------------------
EXTENDS LspServer
==============================================================================
