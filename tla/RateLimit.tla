------------------------------ MODULE RateLimit -----------------------------
(***************************************************************************)
(* The rate_limit settings of a route (RateLimitConfig in                  *)
(* crates/core/src/config.rs), which both limiters are given.              *)
(***************************************************************************)
EXTENDS Integers

CONSTANTS
    limit,              \* rate_limit.limit
    window              \* rate_limit.window_secs, in ticks

ASSUME LimitAssumption == limit \in Nat
ASSUME WindowAssumption == window \in Nat
=============================================================================
