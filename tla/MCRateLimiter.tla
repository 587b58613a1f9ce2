---------------------------- MODULE MCRateLimiter ----------------------------
(* Two request goroutines and two domains against a cache of one item, so *)
(* eviction, TTL expiry and a refetched bucket all occur.                  *)
EXTENDS RateLimiter
=============================================================================
