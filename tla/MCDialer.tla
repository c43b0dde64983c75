------------------------------ MODULE MCDialer ------------------------------
EXTENDS Dialer
=============================================================================
