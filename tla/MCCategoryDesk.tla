---------------------------- MODULE MCCategoryDesk ----------------------------
EXTENDS CategoryDesk
=============================================================================
