----------------------------- MODULE MCJadeRpc -----------------------------
EXTENDS JadeRpc

\* Every method.
MCCommands == DOMAIN Programs \cup DOMAIN Calls
=============================================================================
