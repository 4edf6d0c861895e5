---------------------------- MODULE MCRateLimiter ----------------------------
(***************************************************************************)
(* Finite instances of RateLimiter; the constants are given in the .cfg    *)
(* files.                                                                  *)
(***************************************************************************)
EXTENDS RateLimiter
=============================================================================
