----------------------------- MODULE MCMDriver ------------------------------
EXTENDS MDriver
=============================================================================
