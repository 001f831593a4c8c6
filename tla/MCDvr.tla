-------------------------------- MODULE MCDvr --------------------------------
EXTENDS Dvr, TLC

=============================================================================
