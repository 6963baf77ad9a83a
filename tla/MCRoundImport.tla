---------------------------- MODULE MCRoundImport ----------------------------
(* RoundImport, with BeaconRegistry and its consumer, for TLC.             *)
EXTENDS RoundImport
=============================================================================
