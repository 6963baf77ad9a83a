---------------------------- MODULE MCReporting -----------------------------
(* An instance of Reporting for TLC.                                       *)
EXTENDS Reporting, TLC
=============================================================================
