---------------------------- MODULE MCCallReports ----------------------------
EXTENDS CallReports
=============================================================================
