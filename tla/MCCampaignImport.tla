--------------------------- MODULE MCCampaignImport ---------------------------
EXTENDS CampaignImport
CONSTANT f
==============================================================================
