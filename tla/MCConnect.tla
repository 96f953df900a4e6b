----------------------------- MODULE MCConnect ------------------------------
EXTENDS Connect
MCAccounts == {{}, {"Srp"}, {"Legacy"}, {"Srp256", "Legacy"}}
=============================================================================
