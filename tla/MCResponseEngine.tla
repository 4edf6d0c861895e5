-------------------------- MODULE MCResponseEngine --------------------------
(***************************************************************************)
(* A finite instance of ResponseEngine.  The contexts are chosen so that   *)
(* every verdict occurs and so that the distinct reasons of a few requests *)
(* can reach 3, 6 and 9 without a single request reaching 6.               *)
(***************************************************************************)
EXTENDS ResponseEngine

Context(dpi, bot, intel, anomaly, rate) ==
  [dpi_threats |-> dpi, bot |-> bot, threat_intel |-> intel, anomaly |-> anomaly,
   rate_limit |-> rate]

MCContexts ==
  {Context(0, 0, 0, 0, 0),     \* clean: Allow
   Context(1, 1, 0, 0, 0),     \* Log: its reasons are not remembered
   Context(0, 1, 0, 0, 1),     \* RateLimit, two reasons
   Context(2, 2, 1, 1, 0),     \* Challenge, four reasons
   Context(4, 3, 2, 0, 1)}     \* Block, four reasons

=============================================================================
