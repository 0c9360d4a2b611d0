------------------------- MODULE MCCachedServices -------------------------
(* Every service of CachedServices, each with the keys it looks up.        *)
EXTENDS ServedAlone, TLC

EveryService == DOMAIN Services

=============================================================================
