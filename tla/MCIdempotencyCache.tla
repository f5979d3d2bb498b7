------------------------- MODULE MCIdempotencyCache -------------------------
(***************************************************************************)
(* Three keys over a cache of two entries that live for one or two ticks:  *)
(* hits, misses, expiry, eviction and the handlers that overlap for the    *)
(* same key all happen.                                                    *)
(***************************************************************************)
EXTENDS IdempotencyCache

=============================================================================
