---------------------------- MODULE MCRateLimit ----------------------------
(* Instance for TLC: two hits per window of three ticks; three keys compete  *)
(* for two places of the in-memory limiter.                                *)
EXTENDS RateLimit
=============================================================================
