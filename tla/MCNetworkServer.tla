--------------------------- MODULE MCNetworkServer ---------------------------
(***************************************************************************)
(* Finite instances of NetworkServer; the constants are given in the .cfg  *)
(* files.                                                                  *)
(***************************************************************************)
EXTENDS NetworkServer
=============================================================================
