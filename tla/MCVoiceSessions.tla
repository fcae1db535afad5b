---------------------------- MODULE MCVoiceSessions ----------------------------
(***************************************************************************)
(* Instances of VoiceSessions for TLC.                                     *)
(***************************************************************************)
EXTENDS VoiceSessions, TLC

\* Workers are interchangeable: no action or property names one.
WorkerSymmetry == Permutations(Workers)
=============================================================================
