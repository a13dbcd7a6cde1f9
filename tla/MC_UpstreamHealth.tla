------------------------- MODULE MC_UpstreamHealth -------------------------
(* The instance of UpstreamHealth for TLC is given by breaker.cfg. *)
EXTENDS UpstreamHealth
=============================================================================
