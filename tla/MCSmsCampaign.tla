---------------------------- MODULE MCSmsCampaign ----------------------------
EXTENDS SmsCampaign
=============================================================================
