------------------------- MODULE MCBehavioralAnalyzer -------------------------
(***************************************************************************)
(* Finite instances of BehavioralAnalyzer; the constants are given in the  *)
(* .cfg files.                                                             *)
(***************************************************************************)
EXTENDS BehavioralAnalyzer
=============================================================================
