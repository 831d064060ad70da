--------------------------- MODULE MCRevenueShare ---------------------------
(* RevenueShare for TLC. *)
EXTENDS RevenueShare

SmallContributions == 1..4
=============================================================================
