------------------------------ MODULE MCAlarm ------------------------------
EXTENDS Alarm
=============================================================================
