------------------------- MODULE MCHavenRegistration -------------------------
EXTENDS HavenRegistration
=============================================================================
