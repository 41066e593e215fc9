----------------------------- MODULE MCLapizTab -----------------------------
EXTENDS LapizTab
=============================================================================
