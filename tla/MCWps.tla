------------------------------- MODULE MCWps -------------------------------
EXTENDS Wps
=============================================================================
