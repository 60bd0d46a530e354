-------------------------- MODULE MCCandidateScans --------------------------
(* Three candidates under a semaphore of two, with and without a limit of   *)
(* two attempts.                                                            *)
EXTENDS CandidateScans
=============================================================================
