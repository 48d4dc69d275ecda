------------------------ MODULE MCResearchScheduler ------------------------
EXTENDS ResearchScheduler
=============================================================================
