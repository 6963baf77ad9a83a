---------------------------- MODULE MCJournalStore ----------------------------
(* An instance of JournalStore for TLC.                                    *)
EXTENDS JournalStore, TLC

CONSTANTS s1, s2, s3

MCSnapshots == {s1, s2, s3}
=============================================================================
