---------------------------- MODULE MCInteractive ----------------------------
EXTENDS Interactive
=============================================================================
